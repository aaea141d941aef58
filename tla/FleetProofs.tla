----------------------------- MODULE FleetProofs -----------------------------
(***************************************************************************)
(* Theorems about the fleet manager, for every size of fleet, any number   *)
(* of requests at once and any number of crashes of the web application.   *)
(***************************************************************************)
EXTENDS Fleet, FiniteSetTheorems, SequenceTheorems,
        WellFoundedInduction, TLAPS

Parts == {"devices", "hmis"}
Ids == DeviceIds \cup HmiIds
IdsOf(part) == IF part = "hmis" THEN HmiIds ELSE DeviceIds

DeviceEntry == [target : Targets, facility : {None, "facility"}, pid : Pids \cup {NoPid}]
HmiEntry == [device : DeviceIds, pid : Pids \cup {NoPid}]
EntryOf(part) == IF part = "hmis" THEN HmiEntry ELSE DeviceEntry

\* What the two dictionaries, their files and their dumps hold.
IsRegistry(part, f) ==
    /\ DOMAIN f \subseteq IdsOf(part)
    /\ \A id \in DOMAIN f : f[id] \in EntryOf(part)

IsFleet(m) == DOMAIN m = Parts /\ \A part \in Parts : IsRegistry(part, m[part])

Process ==
    [id : Ids, device : DeviceIds, target : Targets \cup {None}, live : BOOLEAN,
     child : BOOLEAN, held : Threads \cup {None}]

AreProcesses(ps) == DOMAIN ps \subseteq Pids /\ \A p \in DOMAIN ps : ps[p] \in Process

-----------------------------------------------------------------------------
\* Steps of jobs.

\* Steps that may wait behind others.
LaterSteps ==
    [do : {"save"}]
    \cup [do : {"start", "stop", "remove"}, id : Ids]
    \cup [do : {"confirm"}, id : Ids, pid : Pids]
    \cup [do : {"delete"}, ids : SUBSET Ids]
    \cup [do : {"create"}, id : DeviceIds, target : Targets,
          facility : {None, "facility"}, autostart : BOOLEAN]

IsWrite(s) ==
    /\ s.do \in {"write_devices", "write_hmis"}
    /\ "dump" \in DOMAIN s
    /\ IsRegistry(IF s.do = "write_devices" THEN "devices" ELSE "hmis", s.dump)

\* Steps that only ever are the next ones of their job.
IsNextStep(s) ==
    \/ IsWrite(s)
    \/ s \in [do : {"forget"}, id : Ids]
    \/ s \in [do : {"record"}, id : Ids, pid : Pids]
    \/ s \in [do : {"spawn"}, id : HmiIds, entry : HmiEntry]
    \/ s \in [do : {"spawn"}, id : DeviceIds, entry : DeviceEntry]
    \/ s \in [do : {"insert"}, id : DeviceIds, target : Targets,
              facility : {None, "facility"}, autostart : BOOLEAN]

IsHmiInsertion(job) ==
    /\ Head(job) \in [do : {"insert_hmi"}, id : HmiIds, device : DeviceIds]
    /\ Tail(job) = Save \o <<Step("start", Head(job).id)>>

IsJob(job) ==
    \/ job = <<>>
    \/ /\ job # <<>> /\ job \in Seq(LaterSteps \cup {Head(job)})
       /\ Tail(job) \in Seq(LaterSteps)
       /\ \/ Head(job) \in LaterSteps
          \/ IsNextStep(Head(job))
          \/ IsHmiInsertion(job)

Ops == {None, "create", "launch", "stop_facility", "start", "stop", "delete", "open_hmi"}

HasJobs == DOMAIN jobs = Threads /\ \A t \in Threads : IsJob(jobs[t])

HasRequests ==
    /\ DOMAIN request = Threads
    /\ \A t \in Threads : request[t] \in [op : Ops, devices : SUBSET DeviceIds]

\* As long as the dumps of a part are in a race, so is its file.
IsRace(r) ==
    /\ r \in [dumps : SUBSET Parts, files : SUBSET Parts]
    /\ r.dumps \subseteq r.files

FleetTypes ==
    /\ shape \in Shapes
    /\ IsFleet(store) /\ IsFleet(files) /\ AreProcesses(procs)
    /\ HasJobs /\ HasRequests
    /\ crashes \in 0 .. shape.crashes
    /\ suspect \subseteq DeviceIds
    /\ IsRace(raced)

-----------------------------------------------------------------------------
\* Saves.

LivePids == {p \in DOMAIN procs : procs[p].live}

\* Two dictionaries that a restart would load alike.
Agree(alive, f, g) ==
    /\ DOMAIN f = DOMAIN g
    /\ \A id \in DOMAIN f :
          \/ f[id] = g[id]
          \/ /\ f[id].pid \notin alive /\ g[id].pid \notin alive
             /\ [f[id] EXCEPT !.pid = NoPid] = [g[id] EXCEPT !.pid = NoPid]

\* A thread that is going to dump a part.
DumpsSoon(part, t) ==
    At(t, "save") \/ (part = "hmis" /\ At(t, "write_devices"))

CaughtUp(part) ==
    \/ \E t \in Threads : DumpsSoon(part, t)
    \/ \E t \in Threads :
          Pending(part) = {t} /\ Agree(LivePids, Head(jobs[t]).dump, store[part])
    \/ Pending(part) = {} /\ Agree(LivePids, files[part], store[part])

FilesCatchUp == \A part \in Parts \ raced.dumps : CaughtUp(part)

-----------------------------------------------------------------------------
\* Shared targets.

BusyThreads == {t \in Threads : Busy(t)}
Sharing(f, x) == {i \in DOMAIN f : f[i].target = x}
Inserting(x) == {t \in Threads : At(t, "insert") /\ Head(jobs[t]).target = x}

FewShare ==
    /\ Cardinality(BusyThreads) <= shape.users
    /\ \A x \in Targets :
          /\ Cardinality(Sharing(store.devices, x)) + Cardinality(Inserting(x)) <= shape.users
          /\ Cardinality(Sharing(files.devices, x)) <= shape.users
          /\ \A t \in Threads :
                At(t, "write_devices") =>
                   Cardinality(Sharing(Head(jobs[t]).dump, x)) <= shape.users

-----------------------------------------------------------------------------
\* Jobs.

LEMMA Prepended ==
    ASSUME NEW s, NEW rest \in Seq(LaterSteps)
    PROVE  LET job == <<s>> \o rest
           IN  /\ job # <<>> /\ job \in Seq(LaterSteps \cup {s})
               /\ Head(job) = s /\ Tail(job) = rest
<1> DEFINE job == <<s>> \o rest
<1>1. <<s>> \in Seq({s} \cup LaterSteps) /\ rest \in Seq({s} \cup LaterSteps)
  BY SeqMonotonic
<1>2. /\ job \in Seq({s} \cup LaterSteps) /\ Len(job) = 1 + Len(rest)
      /\ Len(rest) \in Nat /\ job[1] = s
      /\ \A i \in 1 .. Len(rest) : job[i + 1] = rest[i]
  BY <1>1
<1>3. job # <<>> /\ job \in Seq(LaterSteps \cup {s}) /\ Head(job) = s
  BY <1>2
<1>4. Tail(job) = rest
  BY <1>1, <1>2
<1> QED
  BY <1>3, <1>4

LEMMA JobsOfNext ==
    ASSUME NEW s, IsNextStep(s), NEW rest \in Seq(LaterSteps)
    PROVE  LET job == <<s>> \o rest
           IN  IsJob(job) /\ job # <<>> /\ Head(job) = s /\ Tail(job) = rest
BY Prepended DEF IsJob

LEMMA JobsOfSteps ==
    ASSUME NEW steps \in Seq(LaterSteps), NEW rest \in Seq(LaterSteps)
    PROVE  LET job == steps \o rest
           IN  /\ job \in Seq(LaterSteps) /\ IsJob(job)
               /\ job # <<>> => Head(job) \in LaterSteps
               /\ steps # <<>> => job # <<>> /\ Head(job) = Head(steps)
<1> DEFINE job == steps \o rest
<1>1. job \in Seq(LaterSteps)
  OBVIOUS
<1>2. job # <<>> =>
        Head(job) \in LaterSteps /\ Tail(job) \in Seq(LaterSteps)
  BY <1>1
<1>3. ASSUME steps # <<>> PROVE job # <<>> /\ Head(job) = Head(steps)
  <2>1. Len(steps) \in Nat /\ Len(steps) # 0 /\ Len(rest) \in Nat
    BY <1>3
  <2>2. Len(job) = Len(steps) + Len(rest) /\ job[1] = steps[1]
    BY <2>1
  <2> QED
    BY <2>1, <2>2
<1> QED
  BY <1>1, <1>2, <1>3 DEF IsJob

LEMMA KindsOfSteps ==
    /\ \A s \in LaterSteps :
          /\ s.do \in {"save", "start", "stop", "remove", "confirm", "delete", "create"}
          /\ s.do \in {"start", "stop", "remove"} => s.id \in Ids
          /\ s.do = "confirm" => s.id \in Ids /\ s.pid \in Pids
          /\ s.do = "delete" => s.ids \in SUBSET Ids
          /\ s.do = "create" =>
                s \in [do : {"create"}, id : DeviceIds, target : Targets,
                      facility : {None, "facility"}, autostart : BOOLEAN]
    /\ \A s : IsNextStep(s) =>
          /\ s.do \in {"write_devices", "write_hmis", "forget", "record", "spawn", "insert"}
          /\ s.do = "write_devices" => IsRegistry("devices", s.dump)
          /\ s.do = "write_hmis" => IsRegistry("hmis", s.dump)
          /\ s.do = "forget" => s.id \in Ids
          /\ s.do = "record" => s \in [do : {"record"}, id : Ids, pid : Pids]
          /\ s.do = "spawn" =>
                \/ s.id \in HmiIds /\ s.entry \in HmiEntry
                \/ s.id \in DeviceIds /\ s.entry \in DeviceEntry
          /\ s.do = "insert" =>
                s \in [do : {"insert"}, id : DeviceIds, target : Targets,
                      facility : {None, "facility"}, autostart : BOOLEAN]
<1>1. \A s \in LaterSteps :
          /\ s.do \in {"save", "start", "stop", "remove", "confirm", "delete", "create"}
          /\ s.do \in {"start", "stop", "remove"} => s.id \in Ids
          /\ s.do = "confirm" => s.id \in Ids /\ s.pid \in Pids
          /\ s.do = "delete" => s.ids \in SUBSET Ids
          /\ s.do = "create" =>
                s \in [do : {"create"}, id : DeviceIds, target : Targets,
                      facility : {None, "facility"}, autostart : BOOLEAN]
  BY DEF LaterSteps
<1>2. ASSUME NEW s, IsNextStep(s)
      PROVE
          /\ s.do \in {"write_devices", "write_hmis", "forget", "record", "spawn", "insert"}
          /\ s.do = "write_devices" => IsRegistry("devices", s.dump)
          /\ s.do = "write_hmis" => IsRegistry("hmis", s.dump)
          /\ s.do = "forget" => s.id \in Ids
          /\ s.do = "record" => s \in [do : {"record"}, id : Ids, pid : Pids]
          /\ s.do = "spawn" =>
                \/ s.id \in HmiIds /\ s.entry \in HmiEntry
                \/ s.id \in DeviceIds /\ s.entry \in DeviceEntry
          /\ s.do = "insert" =>
                s \in [do : {"insert"}, id : DeviceIds, target : Targets,
                      facility : {None, "facility"}, autostart : BOOLEAN]
  BY <1>2 DEF IsNextStep, IsWrite
<1> QED
  BY <1>1, <1>2

LEMMA JobShape ==
    ASSUME HasJobs, NEW t \in Threads, Busy(t)
    PROVE  LET job == jobs[t]
           IN  /\ job \in Seq(LaterSteps \cup {Head(job)})
               /\ Len(job) \in Nat \ {0} /\ DOMAIN job = 1 .. Len(job)
               /\ job[1] = Head(job) /\ Head(job) \in Range(job)
               /\ Tail(job) \in Seq(LaterSteps) /\ Len(Tail(job)) = Len(job) - 1
               /\ \A k \in 1 .. (Len(job) - 1) : Tail(job)[k] = job[k + 1]
<1> DEFINE job == jobs[t]
<1>1. /\ job # <<>> /\ job \in Seq(LaterSteps \cup {Head(job)})
      /\ Tail(job) \in Seq(LaterSteps)
  BY DEF HasJobs, IsJob, Busy
<1> HIDE DEF job
<1>2. /\ Len(job) \in Nat \ {0} /\ DOMAIN job = 1 .. Len(job) /\ job[1] = Head(job)
      /\ Len(Tail(job)) = Len(job) - 1
      /\ \A k \in 1 .. (Len(job) - 1) : Tail(job)[k] = job[k + 1]
  BY <1>1
<1>3. Head(job) \in Range(job)
  BY <1>2 DEF Range
<1> QED
  BY <1>1, <1>2, <1>3 DEF job

LEMMA JobFacts ==
    ASSUME HasJobs, NEW t \in Threads, NEW do, At(t, do)
    PROVE  /\ Tail(jobs[t]) \in Seq(LaterSteps)
           /\ \/ Head(jobs[t]) \in LaterSteps
              \/ IsNextStep(Head(jobs[t]))
              \/ IsHmiInsertion(jobs[t])
BY DEF HasJobs, IsJob, At

\* What the next step of a job is, by what it does.
LEMMA NextOfJob ==
    ASSUME HasJobs, NEW t \in Threads, NEW do, At(t, do)
    PROVE  LET s == Head(jobs[t])
           IN  /\ do \in {"start", "stop", "remove", "forget", "confirm", "record"} =>
                     s.id \in Ids
               /\ do \in {"confirm", "record"} => s.pid \in Pids
               /\ do = "record" => s \in [do : {"record"}, id : Ids, pid : Pids]
               /\ do = "delete" => s.ids \in SUBSET Ids
               /\ do = "create" =>
                     s \in [do : {"create"}, id : DeviceIds, target : Targets,
                           facility : {None, "facility"}, autostart : BOOLEAN]
               /\ do = "insert" =>
                     s \in [do : {"insert"}, id : DeviceIds, target : Targets,
                           facility : {None, "facility"}, autostart : BOOLEAN]
               /\ do = "spawn" =>
                     \/ s.id \in HmiIds /\ s.entry \in HmiEntry
                     \/ s.id \in DeviceIds /\ s.entry \in DeviceEntry
               /\ do = "insert_hmi" => IsHmiInsertion(jobs[t])
               /\ do = "write_devices" => IsRegistry("devices", s.dump)
               /\ do = "write_hmis" => IsRegistry("hmis", s.dump)
<1> DEFINE s == Head(jobs[t])
<1>1. s.do = do
  BY DEF At
<1>2. CASE s \in LaterSteps
  BY <1>1, <1>2, KindsOfSteps
<1>3. CASE IsNextStep(s)
  BY <1>1, <1>3, KindsOfSteps
<1>4. CASE IsHmiInsertion(jobs[t])
  BY <1>1, <1>4 DEF IsHmiInsertion
<1> QED
  BY <1>2, <1>3, <1>4, JobFacts

LEMMA LaterStepsOf ==
    /\ Save \in Seq(LaterSteps) /\ Save # <<>> /\ Head(Save).do = "save"
    /\ \A id \in Ids :
          /\ \A do \in {"start", "stop", "remove"} : Step(do, id) \in LaterSteps
          /\ \A pid \in Pids :
                [do |-> "confirm", id |-> id, pid |-> pid] \in LaterSteps
    /\ \A ids \in SUBSET Ids :
          /\ DeleteEach(ids) \in Seq(LaterSteps)
          /\ DeleteEach(ids) = <<>> \/ Head(DeleteEach(ids)).do = "delete"
<1>1. [do |-> "save"] \in LaterSteps
  BY DEF LaterSteps
<1>2. ASSUME NEW id \in Ids
      PROVE  /\ \A do \in {"start", "stop", "remove"} : Step(do, id) \in LaterSteps
             /\ \A pid \in Pids :
                   [do |-> "confirm", id |-> id, pid |-> pid] \in LaterSteps
  BY DEF LaterSteps, Step
<1>3. ASSUME NEW ids \in SUBSET Ids
      PROVE  /\ DeleteEach(ids) \in Seq(LaterSteps)
             /\ DeleteEach(ids) = <<>> \/ Head(DeleteEach(ids)).do = "delete"
  <2>1. [do |-> "delete", ids |-> ids] \in LaterSteps
    BY DEF LaterSteps
  <2> QED
    BY <2>1 DEF DeleteEach
<1> QED
  BY <1>1, <1>2, <1>3 DEF Save

-----------------------------------------------------------------------------
\* Entries.

LEMMA PartOfId ==
    /\ \A id \in HmiIds : Part(id) = "hmis"
    /\ \A id \in DeviceIds : Part(id) = "devices"
    /\ \A id \in Ids : Part(id) \in Parts /\ id \in IdsOf(Part(id))
BY FleetAssumption DEF Part, Parts, Ids, IdsOf

LEMMA PutFacts ==
    ASSUME IsFleet(store), NEW id \in Ids, NEW entry \in EntryOf(Part(id))
    PROVE  /\ IsFleet(Put(id, entry))
           /\ Put(id, entry)[Part(id)] = With(store[Part(id)], id, entry)
           /\ \A part \in Parts \ {Part(id)} : Put(id, entry)[part] = store[part]
<1> DEFINE m == Put(id, entry)
<1>1. /\ DOMAIN m = Parts /\ m[Part(id)] = With(store[Part(id)], id, entry)
      /\ \A part \in Parts \ {Part(id)} : m[part] = store[part]
  BY PartOfId DEF Put, IsFleet
<1>2. IsRegistry(Part(id), With(store[Part(id)], id, entry))
  BY PartOfId DEF IsFleet, IsRegistry, With
<1> QED
  BY <1>1, <1>2 DEF IsFleet

LEMMA PutPidFacts ==
    ASSUME IsFleet(store), NEW id \in Ids, NEW pid \in Pids \cup {NoPid}
    PROVE  /\ IsFleet(PutPid(id, pid))
           /\ \A x : Sharing(PutPid(id, pid).devices, x) = Sharing(store.devices, x)
<1>1. CASE ~ Known(id)
  BY <1>1 DEF PutPid
<1>2. CASE Known(id)
  <2> DEFINE entry == [Entry(id) EXCEPT !.pid = pid]
             m == Put(id, entry)
  <2>1. Entry(id) \in EntryOf(Part(id))
    BY <1>2, PartOfId DEF IsFleet, IsRegistry, Known, Entry
  <2>2. entry \in EntryOf(Part(id)) /\ (id \in DeviceIds => entry.target = Entry(id).target)
    <3>1. CASE id \in HmiIds
      BY <3>1, <2>1, PartOfId, FleetAssumption DEF EntryOf, HmiEntry
    <3>2. CASE id \in DeviceIds
      BY <3>2, <2>1, PartOfId DEF EntryOf, DeviceEntry
    <3> QED
      BY <3>1, <3>2 DEF Ids
  <2> HIDE DEF entry
  <2>3. /\ IsFleet(m) /\ m[Part(id)] = With(store[Part(id)], id, entry)
        /\ \A part \in Parts \ {Part(id)} : m[part] = store[part]
    BY <2>2, PutFacts
  <2>4. PutPid(id, pid) = m
    BY <1>2 DEF PutPid, entry
  <2>5. \A x : Sharing(m.devices, x) = Sharing(store.devices, x)
    <3>1. CASE id \in HmiIds
      BY <3>1, <2>3, PartOfId DEF Parts
    <3>2. CASE id \in DeviceIds
      BY <3>2, <2>2, <2>3, <1>2, PartOfId DEF Sharing, With, Known, Entry
    <3> QED
      BY <3>1, <3>2 DEF Ids
  <2> QED
    BY <2>3, <2>4, <2>5
<1> QED
  BY <1>1, <1>2

-----------------------------------------------------------------------------
\* What a step of a request does to the fleet, other than a save: it goes on with
\* some job; it either keeps the store or is going to save it; no process comes to
\* life under a pid that is recorded somewhere; and a target gets another device
\* only by an insertion, which follows a look-up that found none.
IsMove(t, job) ==
    /\ Continue(t, job) /\ IsJob(job) /\ Busy(t)
    /\ ~ At(t, "save") /\ ~ At(t, "write_devices") /\ ~ At(t, "write_hmis")
    /\ job = <<>> \/ Head(job).do \notin {"write_devices", "write_hmis"}
    /\ store' = store \/ (job # <<>> /\ Head(job).do = "save")
    /\ IsFleet(store') /\ AreProcesses(procs')
    /\ \A p \in LivePids' : p \in LivePids \/ p \notin Recorded
    /\ job # <<>> /\ Head(job).do = "insert" =>
          store' = store /\ Sharing(store.devices, Head(job).target) = {}
    /\ \A x \in Targets :
          \/ Sharing(store'.devices, x) \subseteq Sharing(store.devices, x)
          \/ /\ t \in Inserting(x)
             /\ \E id \in DeviceIds :
                   Sharing(store'.devices, x) \subseteq Sharing(store.devices, x) \cup {id}
    /\ UNCHANGED <<shape, taken, raced, files, crashes, suspect>>

FleetState ==
    /\ shape \in Shapes
    /\ IsFleet(store) /\ IsFleet(files) /\ AreProcesses(procs)
    /\ HasJobs /\ HasRequests

\* A job that goes on with steps that waited, which may be none.
LEMMA CallMoves ==
    ASSUME FleetState, NEW t \in Threads, NEW do, At(t, do),
           do \notin {"save", "write_devices", "write_hmis"},
           NEW steps \in Seq(LaterSteps), Call(t, steps),
           store' = store \/ (steps # <<>> /\ Head(steps).do = "save"),
           IsFleet(store'), AreProcesses(procs'),
           \A p \in LivePids' : p \in LivePids \/ p \notin Recorded,
           \A x \in Targets :
              \/ Sharing(store'.devices, x) \subseteq Sharing(store.devices, x)
              \/ /\ t \in Inserting(x)
                 /\ \E id \in DeviceIds :
                       Sharing(store'.devices, x) \subseteq Sharing(store.devices, x) \cup {id},
           UNCHANGED <<shape, taken, raced, files, crashes, suspect>>
    PROVE  \E job : IsMove(t, job)
<1> DEFINE job == steps \o Tail(jobs[t])
<1>1. Tail(jobs[t]) \in Seq(LaterSteps)
  BY JobFacts DEF FleetState
<1>2. /\ IsJob(job) /\ (job # <<>> => Head(job) \in LaterSteps)
      /\ steps # <<>> => job # <<>> /\ Head(job) = Head(steps)
  BY <1>1, JobsOfSteps
<1>3. Continue(t, job)
  BY DEF Call
<1>4. job # <<>> =>
        Head(job).do \notin {"write_devices", "write_hmis", "insert"}
  BY <1>2, KindsOfSteps
<1>5. Busy(t) /\ ~ At(t, "save") /\ ~ At(t, "write_devices") /\ ~ At(t, "write_hmis")
  BY DEF At, Busy
<1>6. store' = store \/ (job # <<>> /\ Head(job).do = "save")
  BY <1>2
<1> HIDE DEF job
<1>7. IsMove(t, job)
  BY <1>2, <1>3, <1>4, <1>5, <1>6 DEF IsMove
<1> QED
  BY <1>7

\* A job that goes on with a step that cannot wait, and keeps the store.
LEMMA NextStepMoves ==
    ASSUME FleetState, NEW t \in Threads, NEW do, At(t, do),
           do \notin {"save", "write_devices", "write_hmis"},
           NEW s, IsNextStep(s), ~ IsWrite(s), Call(t, <<s>>),
           store' = store, AreProcesses(procs'),
           \A p \in LivePids' : p \in LivePids \/ p \notin Recorded,
           s.do = "insert" => Sharing(store.devices, s.target) = {},
           UNCHANGED <<shape, taken, raced, files, crashes, suspect>>
    PROVE  \E job : IsMove(t, job)
<1> DEFINE job == <<s>> \o Tail(jobs[t])
<1>1. Tail(jobs[t]) \in Seq(LaterSteps)
  BY JobFacts DEF FleetState
<1>2. IsJob(job) /\ job # <<>> /\ Head(job) = s
  BY <1>1, JobsOfNext
<1>3. Continue(t, job)
  BY DEF Call
<1>4. s.do \notin {"write_devices", "write_hmis"}
  BY DEF IsNextStep, IsWrite
<1>5. Busy(t) /\ ~ At(t, "save") /\ ~ At(t, "write_devices") /\ ~ At(t, "write_hmis")
  BY DEF At, Busy
<1> HIDE DEF job
<1>6. IsMove(t, job)
  BY <1>2, <1>3, <1>4, <1>5 DEF IsMove, FleetState
<1> QED
  BY <1>6

\* A job that ends.
LEMMA EndMoves ==
    ASSUME FleetState, NEW t \in Threads, NEW do, At(t, do),
           do \notin {"save", "write_devices", "write_hmis"}, KeyError(t),
           UNCHANGED <<shape, taken, raced, store, files, procs, crashes, suspect>>
    PROVE  \E job : IsMove(t, job)
<1>1. IsMove(t, <<>>)
  <2>1. IsJob(<<>>)
    BY DEF IsJob
  <2>2. LivePids' = LivePids
    BY DEF LivePids
  <2>3. Busy(t) /\ ~ At(t, "save") /\ ~ At(t, "write_devices") /\ ~ At(t, "write_hmis")
    BY DEF At, Busy
  <2> QED
    BY <2>1, <2>2, <2>3 DEF IsMove, KeyError, FleetState
<1> QED
  BY <1>1

LEMMA LeastPid ==
    ASSUME NEW S, S \subseteq Nat, S # {}
    PROVE  \E m \in S : \A k \in S : m <= k
<1>1. PICK m \in S : \A k \in S : ~ (<<k, m>> \in OpToRel(<, Nat))
  BY WFMin, NatLessThanWellFounded
<1>2. \A k \in S : ~ (k < m)
  BY <1>1 DEF OpToRel
<1> QED
  BY <1>2

LEMMA StartMoves ==
    ASSUME FleetState, NEW t \in Threads, Start(t)
    PROVE  \E job : IsMove(t, job)
<1> DEFINE id == Head(jobs[t]).id
<1>1. At(t, "start") /\ id \in Ids
  BY NextOfJob DEF Start, FleetState
<1>2. UNCHANGED <<shape, taken, raced, store, files, procs, crashes, suspect>>
  BY DEF Start
<1>3. LivePids' = LivePids /\ IsFleet(store') /\ AreProcesses(procs')
  BY <1>2 DEF LivePids, FleetState
<1>4. CASE ~ Known(id)
  <2>1. KeyError(t)
    BY <1>4 DEF Start
  <2> QED
    BY <1>1, <1>2, <2>1, EndMoves
<1>5. CASE Known(id) /\ Call(t, <<>>)
  <2>1. <<>> \in Seq(LaterSteps)
    OBVIOUS
  <2> QED
    BY <1>1, <1>2, <1>3, <1>5, <2>1, CallMoves
<1>6. CASE Known(id) /\ Call(t, <<[do |-> "spawn", id |-> id, entry |-> Entry(id)]>>)
  <2> DEFINE s == [do |-> "spawn", id |-> id, entry |-> Entry(id)]
  <2>1. Entry(id) \in EntryOf(Part(id))
    BY <1>1, <1>6, PartOfId DEF FleetState, IsFleet, IsRegistry, Known, Entry
  <2>2. IsNextStep(s)
    <3>1. CASE id \in HmiIds
      BY <3>1, <2>1, PartOfId DEF IsNextStep, EntryOf
    <3>2. CASE id \in DeviceIds
      BY <3>2, <2>1, PartOfId DEF IsNextStep, EntryOf
    <3> QED
      BY <1>1, <3>1, <3>2 DEF Ids
  <2>3. s.do = "spawn"
    OBVIOUS
  <2>4. ~ IsWrite(s)
    BY <2>3 DEF IsWrite
  <2>5. Call(t, <<s>>)
    BY <1>6
  <2> HIDE DEF s
  <2> QED
    BY <1>1, <1>2, <1>3, <2>2, <2>3, <2>4, <2>5, NextStepMoves
<1> QED
  BY <1>4, <1>5, <1>6 DEF Start

LEMMA SpawnMoves ==
    ASSUME FleetState, NEW t \in Threads, Spawn(t)
    PROVE  \E job : IsMove(t, job)
<1> DEFINE s == Head(jobs[t])
           pid == CHOOSE p \in FreePids : \A q \in FreePids : p <= q
           next == [do |-> "record", id |-> s.id, pid |-> pid]
<1>1. /\ At(t, "spawn")
      /\ \/ s.id \in HmiIds /\ s.entry \in HmiEntry
         \/ s.id \in DeviceIds /\ s.entry \in DeviceEntry
  BY NextOfJob DEF Spawn, FleetState
<1>2. UNCHANGED <<shape, taken, raced, store, files, crashes, suspect>>
  BY DEF Spawn
<1>3. AreProcesses(Reaped) /\ \A p \in DOMAIN Reaped : p \in DOMAIN procs /\ Reaped[p] = procs[p]
  BY DEF Reaped, Restrict, FleetState, AreProcesses
<1>4. CASE procs' = Reaped /\ Call(t, <<>>)
  <2>1. LivePids' \subseteq LivePids
    BY <1>3, <1>4 DEF LivePids
  <2>2. <<>> \in Seq(LaterSteps) /\ IsFleet(store') /\ AreProcesses(procs')
    BY <1>2, <1>3, <1>4 DEF FleetState
  <2> QED
    BY <1>1, <1>2, <1>4, <2>1, <2>2, CallMoves
<1>5. CASE /\ FreePids # {} /\ procs' = With(Reaped, pid, Child(t, s.id, s.entry))
           /\ Call(t, <<next>>)
  <2>1. FreePids \subseteq Nat /\ FreePids \subseteq Pids
    BY FleetAssumption DEF FreePids
  <2>2. pid \in FreePids
    <3>1. PICK m \in FreePids : \A k \in FreePids : m <= k
      BY <1>5, <2>1, LeastPid
    <3> QED
      BY <3>1
  <2> HIDE DEF pid
  <2>3. Child(t, s.id, s.entry) \in Process
    <3>1. PortTaken(s.entry.target) \in BOOLEAN
      BY DEF PortTaken
    <3>2. CASE s.id \in HmiIds /\ s.entry \in HmiEntry
      BY <3>2 DEF Child, Process, HmiEntry, Ids
    <3>3. CASE s.id \in DeviceIds /\ s.entry \in DeviceEntry
      BY <3>1, <3>3, FleetAssumption DEF Child, Process, DeviceEntry, Ids
    <3> QED
      BY <1>1, <3>2, <3>3
  <2>4. AreProcesses(procs')
    <3> DEFINE c == Child(t, s.id, s.entry)
    <3>1. c \in Process /\ procs' = With(Reaped, pid, c)
      BY <1>5, <2>3
    <3> HIDE DEF c
    <3> QED
      BY <1>3, <2>1, <2>2, <3>1 DEF AreProcesses, With
  <2>5. \A p \in LivePids' : p \in LivePids \/ p \notin Recorded
    <3>1. pid \notin Recorded
      BY <2>2 DEF FreePids
    <3>2. \A p \in DOMAIN procs' : p = pid \/ (p \in DOMAIN procs /\ procs'[p] = procs[p])
      BY <1>3, <1>5 DEF With
    <3> QED
      BY <3>1, <3>2 DEF LivePids
  <2>6. IsNextStep(next) /\ next.do = "record"
    <3>1. s.id \in Ids /\ pid \in Pids
      BY <1>1, <2>1, <2>2 DEF Ids
    <3> QED
      BY <3>1 DEF IsNextStep
  <2>7. ~ IsWrite(next)
    BY <2>6 DEF IsWrite
  <2>8. Call(t, <<next>>)
    BY <1>5
  <2> HIDE DEF next
  <2> QED
    BY <1>1, <1>2, <2>4, <2>5, <2>6, <2>7, <2>8, NextStepMoves
<1> QED
  BY <1>4, <1>5 DEF Spawn

LEMMA RecordMoves ==
    ASSUME FleetState, NEW t \in Threads, Record(t)
    PROVE  \E job : IsMove(t, job)
<1> DEFINE s == Head(jobs[t])
           steps == Save \o <<[s EXCEPT !.do = "confirm"]>>
<1>1. At(t, "record") /\ s \in [do : {"record"}, id : Ids, pid : Pids]
  BY NextOfJob DEF Record, FleetState
<1>2. /\ store' = PutPid(s.id, s.pid) /\ Call(t, steps)
      /\ UNCHANGED <<shape, taken, raced, files, procs, crashes, suspect>>
  BY DEF Record
<1>3. /\ IsFleet(store')
      /\ \A x : Sharing(store'.devices, x) = Sharing(store.devices, x)
  BY <1>1, <1>2, PutPidFacts DEF FleetState
<1>4. steps \in Seq(LaterSteps) /\ steps # <<>> /\ Head(steps).do = "save"
  <2>1. [s EXCEPT !.do = "confirm"] \in LaterSteps
    BY <1>1 DEF LaterSteps
  <2> QED
    BY <2>1, LaterStepsOf, JobsOfSteps
<1>5. LivePids' = LivePids /\ AreProcesses(procs')
  BY <1>2 DEF LivePids, FleetState
<1> HIDE DEF steps
<1> QED
  BY <1>1, <1>2, <1>3, <1>4, <1>5, CallMoves

LEMMA EndedFacts ==
    ASSUME AreProcesses(procs), NEW pid
    PROVE  /\ AreProcesses(Ended(pid)) \/ pid \notin DOMAIN procs
           /\ \A p \in DOMAIN Ended(pid) :
                 p \in DOMAIN procs /\ (Ended(pid)[p].live => procs[p].live)
<1>1. CASE procs[pid].child
  <2>1. \A p \in DOMAIN procs : procs[p] \in Process
    BY DEF AreProcesses
  <2>2. DOMAIN Ended(pid) = DOMAIN procs
    BY <1>1 DEF Ended
  <2>3. \A p \in DOMAIN procs :
           Ended(pid)[p] \in Process /\ (Ended(pid)[p].live => procs[p].live)
    BY <1>1, <2>1 DEF Ended, Process
  <2> QED
    BY <2>2, <2>3 DEF AreProcesses
<1>2. CASE ~ procs[pid].child
  BY <1>2 DEF Ended, Without, Restrict, AreProcesses
<1> QED
  BY <1>1, <1>2

LEMMA ReleasedFacts ==
    ASSUME AreProcesses(procs), NEW pid
    PROVE  /\ AreProcesses(Released(pid))
           /\ \A p \in DOMAIN Released(pid) :
                 p \in DOMAIN procs /\ (Released(pid)[p].live => procs[p].live)
<1>1. \A p \in DOMAIN procs : procs[p] \in Process
  BY DEF AreProcesses
<1>2. CASE ~ Alive(pid)
  BY <1>2 DEF Released
<1>3. CASE Alive(pid) /\ procs[pid].live
  <2>1. Released(pid) = [procs EXCEPT ![pid].held = None]
    BY <1>3 DEF Released
  <2>2. \A p \in DOMAIN procs :
           Released(pid)[p] \in Process /\ (Released(pid)[p].live => procs[p].live)
    BY <1>1, <2>1 DEF Process
  <2> QED
    BY <2>1, <2>2 DEF AreProcesses
<1>4. CASE Alive(pid) /\ ~ procs[pid].live
  BY <1>4 DEF Released, Without, Restrict, AreProcesses
<1> QED
  BY <1>2, <1>3, <1>4

LEMMA ConfirmMoves ==
    ASSUME FleetState, NEW t \in Threads, Confirm(t)
    PROVE  \E job : IsMove(t, job)
<1> DEFINE s == Head(jobs[t])
<1>1. At(t, "confirm") /\ s.id \in Ids
  BY NextOfJob DEF Confirm, FleetState
<1>2. /\ procs' = Released(s.pid)
      /\ UNCHANGED <<shape, taken, raced, files, crashes, suspect>>
  BY DEF Confirm
<1>3. AreProcesses(procs') /\ LivePids' \subseteq LivePids
  BY <1>2, ReleasedFacts DEF FleetState, LivePids
<1>4. CASE Call(t, <<>>) /\ UNCHANGED store
  <2>1. <<>> \in Seq(LaterSteps) /\ IsFleet(store')
    BY <1>4 DEF FleetState
  <2> QED
    BY <1>1, <1>2, <1>3, <1>4, <2>1, CallMoves
<1>5. CASE Call(t, Save) /\ store' = PutPid(s.id, NoPid)
  <2>1. /\ IsFleet(store')
        /\ \A x : Sharing(store'.devices, x) = Sharing(store.devices, x)
    BY <1>1, <1>5, PutPidFacts DEF FleetState
  <2> QED
    BY <1>1, <1>2, <1>3, <1>5, <2>1, LaterStepsOf, CallMoves
<1> QED
  BY <1>4, <1>5 DEF Confirm

LEMMA StopMoves ==
    ASSUME FleetState, NEW t \in Threads, Stop(t)
    PROVE  \E job : IsMove(t, job)
<1> DEFINE id == Head(jobs[t]).id
           pid == Entry(id).pid
<1>1. At(t, "stop") /\ id \in Ids
  BY NextOfJob DEF Stop, FleetState
<1>2. UNCHANGED <<shape, taken, raced, files, crashes, suspect>>
  BY DEF Stop
<1>3. CASE KeyError(t) /\ UNCHANGED <<store, procs>>
  BY <1>1, <1>2, <1>3, EndMoves
<1>4. CASE Alive(pid) /\ procs' = Kill(pid) /\ Call(t, <<Step("forget", id)>>) /\ UNCHANGED store
  <2>1. AreProcesses(procs') /\ LivePids' \subseteq LivePids
    BY <1>4, EndedFacts DEF FleetState, LivePids, Kill, Alive
  <2> DEFINE s == Step("forget", id)
  <2>2. IsNextStep(s) /\ s.do = "forget"
    BY <1>1 DEF IsNextStep, Step
  <2>3. ~ IsWrite(s)
    BY <2>2 DEF IsWrite
  <2>4. Call(t, <<s>>)
    BY <1>4
  <2> HIDE DEF s
  <2> QED
    BY <1>1, <1>2, <1>4, <2>1, <2>2, <2>3, <2>4, NextStepMoves
<1>5. CASE store' = PutPid(id, NoPid) /\ Call(t, Save) /\ UNCHANGED procs
  <2>1. /\ IsFleet(store')
        /\ \A x : Sharing(store'.devices, x) = Sharing(store.devices, x)
    BY <1>1, <1>5, PutPidFacts DEF FleetState
  <2>2. AreProcesses(procs') /\ LivePids' = LivePids
    BY <1>5 DEF FleetState, LivePids
  <2> QED
    BY <1>1, <1>2, <1>5, <2>1, <2>2, LaterStepsOf, CallMoves
<1> QED
  BY <1>3, <1>4, <1>5 DEF Stop

LEMMA ForgetMoves ==
    ASSUME FleetState, NEW t \in Threads, Forget(t)
    PROVE  \E job : IsMove(t, job)
<1> DEFINE id == Head(jobs[t]).id
<1>1. At(t, "forget") /\ id \in Ids
  BY NextOfJob DEF Forget, FleetState
<1>2. /\ store' = PutPid(id, NoPid) /\ Call(t, Save)
      /\ UNCHANGED <<shape, taken, raced, files, procs, crashes, suspect>>
  BY DEF Forget
<1>3. /\ IsFleet(store')
      /\ \A x : Sharing(store'.devices, x) = Sharing(store.devices, x)
  BY <1>1, <1>2, PutPidFacts DEF FleetState
<1>4. AreProcesses(procs') /\ LivePids' = LivePids
  BY <1>2 DEF FleetState, LivePids
<1> QED
  BY <1>1, <1>2, <1>3, <1>4, LaterStepsOf, CallMoves

LEMMA DeleteMoves ==
    ASSUME FleetState, NEW t \in Threads, Delete(t)
    PROVE  \E job : IsMove(t, job)
<1> DEFINE ids == Head(jobs[t]).ids
<1>1. At(t, "delete") /\ ids \in SUBSET Ids
  BY NextOfJob DEF Delete, FleetState
<1>2. UNCHANGED <<shape, taken, raced, store, files, procs, crashes, suspect>>
  BY DEF Delete
<1>3. PICK id \in ids :
        Call(t, (IF Known(id)
                 THEN DeleteEach(IF id \in DeviceIds THEN Attached(id) ELSE {})
                      \o <<Step("stop", id), Step("remove", id)>>
                 ELSE <<>>)
                \o DeleteEach(ids \ {id}))
  BY DEF Delete
<1> DEFINE first == DeleteEach(IF id \in DeviceIds THEN Attached(id) ELSE {})
           own == <<Step("stop", id), Step("remove", id)>>
           steps == (IF Known(id) THEN first \o own ELSE <<>>) \o DeleteEach(ids \ {id})
<1>4. steps \in Seq(LaterSteps)
  <2>1. first \in Seq(LaterSteps)
    <3>1. Attached(id) \in SUBSET Ids
      BY DEF Attached, HmisOf, FleetState, IsFleet, IsRegistry, IdsOf, Parts, Ids
    <3> QED
      BY <3>1, LaterStepsOf
  <2>2. own \in Seq(LaterSteps)
    <3>1. Step("stop", id) \in LaterSteps /\ Step("remove", id) \in LaterSteps
      BY <1>1, LaterStepsOf
    <3> QED
      BY <3>1
  <2>3. DeleteEach(ids \ {id}) \in Seq(LaterSteps)
    BY <1>1, LaterStepsOf
  <2> HIDE DEF first, own
  <2>4. first \o own \in Seq(LaterSteps)
    BY <2>1, <2>2, JobsOfSteps
  <2>5. (IF Known(id) THEN first \o own ELSE <<>>) \in Seq(LaterSteps)
    BY <2>4
  <2> QED
    BY <2>3, <2>5, JobsOfSteps
<1>5. Call(t, steps)
  BY <1>3
<1>6. IsFleet(store') /\ AreProcesses(procs') /\ LivePids' = LivePids
  BY <1>2 DEF FleetState, LivePids
<1> HIDE DEF steps
<1> QED
  BY <1>1, <1>2, <1>4, <1>5, <1>6, CallMoves

LEMMA RemoveEntryMoves ==
    ASSUME FleetState, NEW t \in Threads, RemoveEntry(t)
    PROVE  \E job : IsMove(t, job)
<1> DEFINE id == Head(jobs[t]).id
<1>1. At(t, "remove") /\ id \in Ids
  BY NextOfJob DEF RemoveEntry, FleetState
<1>2. UNCHANGED <<shape, taken, raced, files, procs, crashes, suspect>>
  BY DEF RemoveEntry
<1>3. CASE KeyError(t) /\ UNCHANGED store
  BY <1>1, <1>2, <1>3, EndMoves
<1>4. CASE store' = [store EXCEPT ![Part(id)] = Without(@, id)] /\ Call(t, Save)
  <2>1. /\ DOMAIN store' = Parts /\ store'[Part(id)] = Without(store[Part(id)], id)
        /\ \A part \in Parts \ {Part(id)} : store'[part] = store[part]
    BY <1>1, <1>4, PartOfId DEF FleetState, IsFleet
  <2>2. \A part \in Parts :
          /\ DOMAIN store'[part] \subseteq DOMAIN store[part]
          /\ \A i \in DOMAIN store'[part] : store'[part][i] = store[part][i]
    BY <2>1 DEF Without, Restrict
  <2>3. IsFleet(store')
    BY <2>1, <2>2 DEF FleetState, IsFleet, IsRegistry
  <2>4. \A x : Sharing(store'.devices, x) \subseteq Sharing(store.devices, x)
    BY <2>2 DEF Sharing, Parts
  <2>5. AreProcesses(procs') /\ LivePids' = LivePids
    BY <1>2 DEF FleetState, LivePids
  <2> QED
    BY <1>1, <1>2, <1>4, <2>3, <2>4, <2>5, LaterStepsOf, CallMoves
<1> QED
  BY <1>3, <1>4 DEF RemoveEntry

LEMMA CreateMoves ==
    ASSUME FleetState, NEW t \in Threads, Create(t)
    PROVE  \E job : IsMove(t, job)
<1> DEFINE c == Head(jobs[t])
           s == [c EXCEPT !.do = "insert"]
<1>1. /\ At(t, "create")
      /\ c \in [do : {"create"}, id : DeviceIds, target : Targets,
                facility : {None, "facility"}, autostart : BOOLEAN]
  BY NextOfJob DEF Create, FleetState
<1>2. UNCHANGED <<shape, taken, raced, store, files, procs, crashes, suspect>>
  BY DEF Create
<1>3. IsFleet(store') /\ AreProcesses(procs') /\ LivePids' = LivePids
  BY <1>2 DEF FleetState, LivePids
<1>4. CASE Continue(t, Rollback(t))
  <2> DEFINE job == Rollback(t)
  <2>1. request[t].devices \in SUBSET Ids
    BY DEF FleetState, HasRequests, Ids
  <2>2. job = <<>> \/ job = DeleteEach(request[t].devices)
    BY DEF Rollback
  <2>3. job \in Seq(LaterSteps)
    <3>1. /\ DeleteEach(request[t].devices) \in Seq(LaterSteps)
          /\ <<>> \in Seq(LaterSteps)
      BY <2>1, LaterStepsOf
    <3> HIDE DEF job
    <3> QED
      BY <2>2, <3>1
  <2>4. job = <<>> \/ Head(job).do = "delete"
    BY <2>1, <2>2, LaterStepsOf
  <2>5. IsJob(job)
    <3> HIDE DEF job
    <3>1. job # <<>> =>
            Head(job) \in LaterSteps /\ Tail(job) \in Seq(LaterSteps)
      BY <2>3
    <3> QED
      BY <3>1 DEF IsJob
  <2>6. Busy(t) /\ ~ At(t, "save") /\ ~ At(t, "write_devices") /\ ~ At(t, "write_hmis")
    BY <1>1 DEF At, Busy
  <2>7. Continue(t, job)
    BY <1>4
  <2> HIDE DEF job
  <2>8. IsMove(t, job)
    BY <1>2, <1>3, <2>4, <2>5, <2>6, <2>7 DEF IsMove
  <2> QED
    BY <2>8
<1>5. CASE ~ Conflict(c.target) /\ Call(t, <<s>>)
  <2>1. IsNextStep(s) /\ s.do = "insert" /\ s.target = c.target
    BY <1>1 DEF IsNextStep
  <2>2. ~ IsWrite(s)
    BY <2>1 DEF IsWrite
  <2>3. Sharing(store.devices, c.target) = {}
    BY <1>5 DEF Conflict, Sharing
  <2>4. Call(t, <<s>>)
    BY <1>5
  <2> HIDE DEF s
  <2> QED
    BY <1>1, <1>2, <1>3, <2>1, <2>2, <2>3, <2>4, NextStepMoves
<1> QED
  BY <1>4, <1>5 DEF Create

LEMMA InsertEntryMoves ==
    ASSUME FleetState, NEW t \in Threads, InsertEntry(t)
    PROVE  \E job : IsMove(t, job)
<1> DEFINE s == Head(jobs[t])
           entry == [target |-> s.target, facility |-> s.facility, pid |-> NoPid]
           steps == Save \o IF s.autostart THEN <<Step("start", s.id)>> ELSE <<>>
<1>1. /\ At(t, "insert")
      /\ s \in [do : {"insert"}, id : DeviceIds, target : Targets,
                facility : {None, "facility"}, autostart : BOOLEAN]
  BY NextOfJob DEF InsertEntry, FleetState
<1>2. /\ store' = Put(s.id, entry) /\ Call(t, steps)
      /\ UNCHANGED <<shape, taken, raced, files, procs, crashes, suspect>>
  BY DEF InsertEntry
<1>3. entry \in EntryOf(Part(s.id)) /\ entry.target = s.target
  BY <1>1, PartOfId DEF EntryOf, DeviceEntry
<1> HIDE DEF entry
<1>4. IsFleet(store') /\ store'.devices = With(store.devices, s.id, entry)
  BY <1>1, <1>2, <1>3, PutFacts, PartOfId DEF FleetState, Ids
<1>5. ASSUME NEW x \in Targets
      PROVE  \/ Sharing(store'.devices, x) \subseteq Sharing(store.devices, x)
             \/ /\ t \in Inserting(x)
                /\ \E id \in DeviceIds :
                      Sharing(store'.devices, x) \subseteq Sharing(store.devices, x) \cup {id}
  <2>1. CASE x # s.target
    BY <2>1, <1>3, <1>4 DEF Sharing, With
  <2>2. CASE x = s.target
    <3>1. t \in Inserting(x)
      BY <1>1, <2>2 DEF Inserting
    <3>2. Sharing(store'.devices, x) \subseteq Sharing(store.devices, x) \cup {s.id}
      BY <1>4 DEF Sharing, With
    <3> QED
      BY <1>1, <3>1, <3>2
  <2> QED
    BY <2>1, <2>2
<1>6. steps \in Seq(LaterSteps) /\ steps # <<>> /\ Head(steps).do = "save"
  <2>1. Step("start", s.id) \in LaterSteps
    BY <1>1, LaterStepsOf DEF Ids
  <2>2. (IF s.autostart THEN <<Step("start", s.id)>> ELSE <<>>) \in Seq(LaterSteps)
    BY <2>1
  <2> QED
    BY <2>2, LaterStepsOf, JobsOfSteps
<1>7. AreProcesses(procs') /\ LivePids' = LivePids
  BY <1>2 DEF FleetState, LivePids
<1> HIDE DEF steps
<1> QED
  BY <1>1, <1>2, <1>4, <1>5, <1>6, <1>7, CallMoves

LEMMA HmiStartsAfterSaving ==
    ASSUME NEW h \in HmiIds
    PROVE  LET rest == Save \o <<Step("start", h)>>
           IN  /\ rest \in Seq(LaterSteps) /\ rest # <<>> /\ Head(rest).do = "save"
               /\ DOMAIN rest = {1, 2} /\ rest[1].do = "save" /\ rest[2] = Step("start", h)
<1> DEFINE first == [do |-> "save"]
           last == Step("start", h)
<1>1. first \in LaterSteps /\ last \in LaterSteps /\ first.do = "save"
  BY LaterStepsOf DEF Ids, LaterSteps
<1> DEFINE rest == Save \o <<last>>
<1>2. Save = <<first>>
  BY DEF Save
<1> HIDE DEF first, last
<1>3. <<first>> \in Seq(LaterSteps) /\ <<last>> \in Seq(LaterSteps)
  BY <1>1
<1>4. /\ Len(rest) = 2 /\ rest \in Seq(LaterSteps)
      /\ rest[1] = first /\ rest[2] = last
  BY <1>2, <1>3
<1> HIDE DEF rest
<1>5. DOMAIN rest = {1, 2} /\ Head(rest) = first /\ rest # <<>>
  BY <1>4
<1> QED
  BY <1>1, <1>4, <1>5 DEF rest, last

LEMMA InsertHmiMoves ==
    ASSUME FleetState, NEW t \in Threads, InsertHmi(t)
    PROVE  \E job : IsMove(t, job)
<1> DEFINE s == Head(jobs[t])
           job == Tail(jobs[t])
<1>1. /\ At(t, "insert_hmi") /\ s \in [do : {"insert_hmi"}, id : HmiIds, device : DeviceIds]
      /\ job \in Seq(LaterSteps) /\ job # <<>> /\ Head(job).do = "save"
  <2>1. At(t, "insert_hmi") /\ IsHmiInsertion(jobs[t])
    BY NextOfJob DEF InsertHmi, FleetState
  <2>2. s \in [do : {"insert_hmi"}, id : HmiIds, device : DeviceIds] /\ s.id \in HmiIds
    BY <2>1 DEF IsHmiInsertion
  <2>3. job = Save \o <<Step("start", s.id)>>
    BY <2>1 DEF IsHmiInsertion
  <2> HIDE DEF s, job
  <2> QED
    BY <2>1, <2>2, <2>3, HmiStartsAfterSaving
<1>2. /\ store' = Put(s.id, NewHmi(s.device)) /\ Call(t, <<>>)
      /\ UNCHANGED <<shape, taken, raced, files, procs, crashes, suspect>>
  BY DEF InsertHmi
<1>3. NewHmi(s.device) \in EntryOf(Part(s.id))
  BY <1>1, PartOfId DEF NewHmi, EntryOf, HmiEntry
<1>4. IsFleet(store') /\ store'.devices = store.devices
  BY <1>1, <1>2, <1>3, PutFacts, PartOfId DEF FleetState, Ids, Parts
<1>5. AreProcesses(procs') /\ LivePids' = LivePids
  BY <1>2 DEF FleetState, LivePids
<1>6. Continue(t, job)
  <2>1. <<>> \o job = job
    <3> HIDE DEF job
    <3> QED
      BY <1>1
  <2> QED
    BY <1>2, <2>1 DEF Call
<1>7. IsJob(job)
  <2> HIDE DEF job
  <2>1. Head(job) \in LaterSteps /\ Tail(job) \in Seq(LaterSteps)
    BY <1>1
  <2> QED
    BY <2>1, <1>1 DEF IsJob
<1>8. Busy(t) /\ ~ At(t, "save") /\ ~ At(t, "write_devices") /\ ~ At(t, "write_hmis")
  BY <1>1 DEF At, Busy
<1> HIDE DEF job
<1>9. IsMove(t, job)
  BY <1>1, <1>2, <1>4, <1>5, <1>6, <1>7, <1>8 DEF IsMove
<1> QED
  BY <1>9

LEMMA RaiseMoves ==
    ASSUME FleetState, NEW t \in Threads, Raise(t)
    PROVE  \E job : IsMove(t, job)
<1>1. /\ At(t, "create") \/ At(t, "delete") \/ At(t, "spawn")
      /\ KeyError(t)
      /\ UNCHANGED <<shape, taken, raced, store, files, procs, crashes, suspect>>
  BY DEF Raise, KeyError
<1>2. PICK do \in {"create", "delete", "spawn"} : At(t, do)
  BY <1>1
<1> QED
  BY <1>1, <1>2, EndMoves

Moving(t) ==
    \/ Start(t) \/ Spawn(t) \/ Record(t) \/ Confirm(t)
    \/ Stop(t) \/ Forget(t) \/ Delete(t) \/ RemoveEntry(t)
    \/ Create(t) \/ InsertEntry(t) \/ InsertHmi(t) \/ Raise(t)

LEMMA WorkMoves ==
    ASSUME FleetState, NEW t \in Threads, Moving(t)
    PROVE  \E job : IsMove(t, job)
BY StartMoves, SpawnMoves, RecordMoves, ConfirmMoves, StopMoves, ForgetMoves, DeleteMoves,
   RemoveEntryMoves, CreateMoves, InsertEntryMoves, InsertHmiMoves, RaiseMoves DEF Moving

LEMMA ContinueFacts ==
    ASSUME HasJobs, HasRequests, NEW t \in Threads, NEW job, IsJob(job), Continue(t, job)
    PROVE  /\ HasJobs' /\ HasRequests'
           /\ jobs'[t] = job /\ \A u \in Threads \ {t} : jobs'[u] = jobs[u]
<1>1. /\ DOMAIN jobs' = Threads /\ jobs'[t] = job
      /\ \A u \in Threads \ {t} : jobs'[u] = jobs[u]
  BY DEF Continue, HasJobs
<1>2. HasJobs'
  BY <1>1 DEF HasJobs
<1>3. HasRequests'
  <2>1. /\ DOMAIN request' = Threads
        /\ \A u \in Threads : request'[u] = request[u] \/ request'[u] = NoRequest
    BY DEF Continue, HasRequests
  <2>2. NoRequest \in [op : Ops, devices : SUBSET DeviceIds]
    BY DEF NoRequest, Ops
  <2> QED
    BY <2>1, <2>2 DEF HasRequests
<1> QED
  BY <1>1, <1>2, <1>3

LEMMA MoveKeepsTypes ==
    ASSUME FleetTypes, NEW t \in Threads, NEW job, IsMove(t, job)
    PROVE  FleetTypes'
<1>1. HasJobs' /\ HasRequests'
  BY ContinueFacts DEF IsMove, FleetTypes
<1> QED
  BY <1>1 DEF IsMove, FleetTypes

-----------------------------------------------------------------------------
\* Saves.

Writes(part, dump, rest) == <<WriteStep(part, dump)>> \o rest

LEMMA WriteStepFacts ==
    ASSUME NEW part \in Parts, NEW dump, IsRegistry(part, dump), NEW rest \in Seq(LaterSteps)
    PROVE  LET job == Writes(part, dump, rest)
           IN  /\ IsJob(job) /\ job # <<>> /\ Head(job).do = Writing(part)
               /\ Head(job).dump = dump
<1> DEFINE s == WriteStep(part, dump)
<1>1. s.do = Writing(part) /\ s.dump = dump /\ "dump" \in DOMAIN s
  BY DEF WriteStep
<1>2. IsNextStep(s)
  BY <1>1 DEF IsNextStep, IsWrite, Writing, Parts
<1> HIDE DEF s
<1> QED
  BY <1>1, <1>2, JobsOfNext DEF s, Writes

LEMMA RaceOfDump ==
    ASSUME NEW r, IsRace(r), NEW part \in Parts
    PROVE  LET after == RacedByDump(r, part)
           IN  /\ IsRace(after)
               /\ part \notin after.dumps => Pending(part) = {}
               /\ \A other \in Parts \ {part} : other \in r.dumps => other \in after.dumps
BY DEF IsRace, RacedByDump

LEMMA RaceOfWrite ==
    ASSUME IsRace(raced), NEW part \in Parts
    PROVE  IsRace(RacedAfterWrite(part)) /\ RacedAfterWrite(part).dumps = raced.dumps
BY DEF IsRace, RacedAfterWrite

LEMMA DumpDevicesFacts ==
    ASSUME FleetTypes, NEW t \in Threads, DumpDevices(t)
    PROVE  /\ FleetTypes' /\ At(t, "save")
           /\ jobs'[t] # <<>> /\ Head(jobs'[t]).do = "write_devices"
           /\ Head(jobs'[t]).dump = store.devices
           /\ \A u \in Threads \ {t} : jobs'[u] = jobs[u]
           /\ "devices" \notin raced'.dumps => Pending("devices") = {}
           /\ UNCHANGED <<shape, store, files, procs, crashes>>
<1> DEFINE job == Writes("devices", store.devices, Tail(jobs[t]))
<1>1. /\ At(t, "save") /\ Continue(t, job) /\ raced' = RacedByDump(raced, "devices")
      /\ UNCHANGED <<shape, taken, store, files, procs, crashes, suspect>>
  BY DEF DumpDevices, Call, Dump, Writes
<1>2. IsRegistry("devices", store.devices) /\ Tail(jobs[t]) \in Seq(LaterSteps)
  BY <1>1, JobFacts DEF FleetTypes, IsFleet, Parts
<1>3. /\ IsJob(job) /\ job # <<>> /\ Head(job).do = "write_devices"
      /\ Head(job).dump = store.devices
  <2>1. "devices" \in Parts /\ Writing("devices") = "write_devices"
    BY DEF Parts, Writing
  <2> QED
    BY <1>2, <2>1, WriteStepFacts
<1> HIDE DEF job
<1>4. /\ HasJobs' /\ HasRequests' /\ jobs'[t] = job
      /\ \A u \in Threads \ {t} : jobs'[u] = jobs[u]
  BY <1>1, <1>3, ContinueFacts DEF FleetTypes
<1>5. IsRace(raced') /\ ("devices" \notin raced'.dumps => Pending("devices") = {})
  BY <1>1, RaceOfDump DEF FleetTypes, Parts
<1>6. FleetTypes'
  BY <1>1, <1>4, <1>5 DEF FleetTypes
<1> QED
  BY <1>1, <1>3, <1>4, <1>5, <1>6

LEMMA WriteDevicesFacts ==
    ASSUME FleetTypes, NEW t \in Threads, WriteDevices(t)
    PROVE  /\ FleetTypes' /\ At(t, "write_devices")
           /\ jobs'[t] # <<>> /\ Head(jobs'[t]).do = "write_hmis"
           /\ Head(jobs'[t]).dump = store.hmis
           /\ \A u \in Threads \ {t} : jobs'[u] = jobs[u]
           /\ files' = [files EXCEPT !.devices = Head(jobs[t]).dump]
           /\ "hmis" \notin raced'.dumps => Pending("hmis") = {}
           /\ "devices" \in raced.dumps => "devices" \in raced'.dumps
           /\ UNCHANGED <<shape, store, procs, crashes>>
<1> DEFINE job == Writes("hmis", store.hmis, Tail(jobs[t]))
<1>1. /\ At(t, "write_devices") /\ Continue(t, job)
      /\ raced' = RacedByDump(RacedAfterWrite("devices"), "hmis")
      /\ files' = [files EXCEPT !.devices = Head(jobs[t]).dump]
      /\ UNCHANGED <<shape, taken, store, procs, crashes, suspect>>
  BY DEF WriteDevices, Call, Dump, Writes
<1>2. IsRegistry("hmis", store.hmis) /\ Tail(jobs[t]) \in Seq(LaterSteps)
  BY <1>1, JobFacts DEF FleetTypes, IsFleet, Parts
<1>3. /\ IsJob(job) /\ job # <<>> /\ Head(job).do = "write_hmis"
      /\ Head(job).dump = store.hmis
  BY <1>2, WriteStepFacts DEF Parts, Writing
<1> HIDE DEF job
<1>4. /\ HasJobs' /\ HasRequests' /\ jobs'[t] = job
      /\ \A u \in Threads \ {t} : jobs'[u] = jobs[u]
  BY <1>1, <1>3, ContinueFacts DEF FleetTypes
<1>5. IsRegistry("devices", Head(jobs[t]).dump)
  BY <1>1, NextOfJob DEF FleetTypes
<1>6. IsFleet(files')
  BY <1>1, <1>5 DEF FleetTypes, IsFleet, Parts
<1>7. /\ IsRace(raced')
      /\ "hmis" \notin raced'.dumps => Pending("hmis") = {}
      /\ "devices" \in raced.dumps => "devices" \in raced'.dumps
  BY <1>1, RaceOfWrite, RaceOfDump DEF FleetTypes, Parts
<1>8. FleetTypes'
  BY <1>1, <1>4, <1>6, <1>7 DEF FleetTypes
<1> QED
  BY <1>1, <1>3, <1>4, <1>7, <1>8

LEMMA WriteHmisFacts ==
    ASSUME FleetTypes, NEW t \in Threads, WriteHmis(t)
    PROVE  /\ FleetTypes' /\ At(t, "write_hmis")
           /\ jobs'[t] = <<>> \/ Head(jobs'[t]) \in LaterSteps
           /\ \A u \in Threads \ {t} : jobs'[u] = jobs[u]
           /\ files' = [files EXCEPT !.hmis = Head(jobs[t]).dump]
           /\ raced'.dumps = raced.dumps
           /\ UNCHANGED <<shape, store, procs, crashes>>
<1> DEFINE job == <<>> \o Tail(jobs[t])
<1>1. /\ At(t, "write_hmis") /\ Continue(t, job)
      /\ files' = [files EXCEPT !.hmis = Head(jobs[t]).dump]
      /\ raced' = RacedAfterWrite("hmis")
      /\ UNCHANGED <<shape, taken, store, procs, crashes, suspect>>
  BY DEF WriteHmis, Call
<1>2. <<>> \in Seq(LaterSteps) /\ Tail(jobs[t]) \in Seq(LaterSteps)
  BY <1>1, JobFacts DEF FleetTypes
<1>3. IsJob(job) /\ (job = <<>> \/ Head(job) \in LaterSteps)
  BY <1>2, JobsOfSteps
<1> HIDE DEF job
<1>4. /\ HasJobs' /\ HasRequests' /\ jobs'[t] = job
      /\ \A u \in Threads \ {t} : jobs'[u] = jobs[u]
  BY <1>1, <1>3, ContinueFacts DEF FleetTypes
<1>5. IsRegistry("hmis", Head(jobs[t]).dump)
  BY <1>1, NextOfJob DEF FleetTypes
<1>6. IsFleet(files')
  BY <1>1, <1>5 DEF FleetTypes, IsFleet, Parts
<1>7. IsRace(raced') /\ raced'.dumps = raced.dumps
  BY <1>1, RaceOfWrite DEF FleetTypes, Parts
<1>8. FleetTypes'
  BY <1>1, <1>4, <1>6, <1>7 DEF FleetTypes
<1> QED
  BY <1>1, <1>3, <1>4, <1>7, <1>8

LEMMA DroppedFacts ==
    ASSUME AreProcesses(procs), NEW t \in Threads
    PROVE  /\ AreProcesses(Dropped(t))
           /\ \A p \in DOMAIN procs : procs[p].live => p \in DOMAIN Dropped(t)
           /\ \A p \in DOMAIN Dropped(t) :
                 /\ p \in DOMAIN procs /\ Dropped(t)[p].live = procs[p].live
                 /\ Dropped(t)[p].id = procs[p].id /\ Dropped(t)[p].device = procs[p].device
<1> DEFINE ps == Dropped(t)
<1>1. /\ DOMAIN ps = {q \in DOMAIN procs : procs[q].live \/ procs[q].held # t}
      /\ \A p \in DOMAIN ps :
            ps[p] = IF procs[p].held = t THEN [procs[p] EXCEPT !.held = None] ELSE procs[p]
  BY DEF Dropped
<1>2. \A p \in DOMAIN procs : procs[p] \in Process
  BY DEF AreProcesses
<1>3. \A p \in DOMAIN procs :
        /\ [procs[p] EXCEPT !.held = None] \in Process
        /\ [procs[p] EXCEPT !.held = None].live = procs[p].live
        /\ [procs[p] EXCEPT !.held = None].id = procs[p].id
        /\ [procs[p] EXCEPT !.held = None].device = procs[p].device
  BY <1>2 DEF Process
<1>4. \A p \in DOMAIN ps :
        /\ ps[p] \in Process /\ ps[p].live = procs[p].live
        /\ ps[p].id = procs[p].id /\ ps[p].device = procs[p].device
  BY <1>1, <1>2, <1>3
<1> HIDE DEF ps
<1>5. AreProcesses(ps)
  BY <1>1, <1>4 DEF AreProcesses
<1> QED
  BY <1>1, <1>4, <1>5 DEF ps

LEMMA SaveRaisesFacts ==
    ASSUME FleetTypes, NEW t \in Threads, SaveRaises(t)
    PROVE  /\ FleetTypes' /\ jobs[t] # <<>> /\ jobs'[t] = <<>>
           /\ \/ At(t, "write_devices") /\ raced'.dumps = Parts /\ raced'.files = Parts
              \/ /\ At(t, "write_hmis")
                 /\ raced'.dumps = raced.dumps \cup {"hmis"}
                 /\ raced'.files = raced.files \cup {"hmis"}
           /\ \A u \in Threads \ {t} : jobs'[u] = jobs[u]
           /\ LivePids' = LivePids /\ procs' = Dropped(t)
           /\ UNCHANGED <<shape, store, files, crashes, suspect>>
<1>1. /\ Continue(t, <<>>) /\ procs' = Dropped(t)
      /\ UNCHANGED <<shape, taken, store, files, crashes, suspect>>
  BY DEF SaveRaises
<1>2. PICK part \in {"devices", "hmis"} :
        /\ At(t, Writing(part))
        /\ raced' = [dumps |-> raced.dumps \cup Unsaved(part),
                     files |-> raced.files \cup Unsaved(part)]
  BY DEF SaveRaises
<1>3. IsRace(raced)
  BY DEF FleetTypes
<1>4. \/ At(t, "write_devices") /\ raced'.dumps = Parts /\ raced'.files = Parts
      \/ /\ At(t, "write_hmis")
         /\ raced'.dumps = raced.dumps \cup {"hmis"}
         /\ raced'.files = raced.files \cup {"hmis"}
  <2>1. CASE part = "devices"
    BY <1>2, <1>3, <2>1 DEF IsRace, Unsaved, Writing, Parts
  <2>2. CASE part = "hmis"
    BY <1>2, <2>2 DEF Unsaved, Writing
  <2> QED
    BY <2>1, <2>2
<1>5. IsRace(raced')
  BY <1>2, <1>3 DEF IsRace, Unsaved, Parts
<1>6. IsJob(<<>>)
  BY DEF IsJob
<1>7. /\ HasJobs' /\ HasRequests' /\ jobs'[t] = <<>>
      /\ \A u \in Threads \ {t} : jobs'[u] = jobs[u]
  BY <1>1, <1>6, ContinueFacts DEF FleetTypes
<1>8. AreProcesses(procs')
  BY <1>1, DroppedFacts DEF FleetTypes
<1>9. LivePids' = LivePids
  BY <1>1, DroppedFacts DEF FleetTypes, LivePids
<1>10. FleetTypes'
  BY <1>1, <1>5, <1>7, <1>8 DEF FleetTypes
<1> QED
  BY <1>1, <1>2, <1>4, <1>7, <1>9, <1>10 DEF At

-----------------------------------------------------------------------------
\* Requests.

IsRequest(op, devices, fresh, job) ==
    /\ op \in Ops /\ devices \in SUBSET DeviceIds /\ fresh \in SUBSET DeviceIds
    /\ IsJob(job)
    /\ job # <<>> =>
          Head(job).do \notin {"write_devices", "write_hmis", "insert"}

LEMMA WaitingIsARequest ==
    ASSUME NEW op \in Ops, NEW devices \in SUBSET DeviceIds, NEW fresh \in SUBSET DeviceIds,
           NEW job \in Seq(LaterSteps)
    PROVE  IsRequest(op, devices, fresh, job)
<1>1. job # <<>> =>
        Head(job) \in LaterSteps /\ Tail(job) \in Seq(LaterSteps)
  OBVIOUS
<1> QED
  BY <1>1, KindsOfSteps DEF IsRequest, IsJob

LEMMA OneStepIsARequest ==
    ASSUME NEW op \in Ops, NEW devices \in SUBSET DeviceIds, NEW fresh \in SUBSET DeviceIds,
           NEW s \in LaterSteps
    PROVE  IsRequest(op, devices, fresh, <<s>>)
<1>1. <<s>> \in Seq(LaterSteps)
  OBVIOUS
<1> QED
  BY <1>1, WaitingIsARequest

LEMMA CreateSteps ==
    ASSUME NEW id \in DeviceIds, NEW target \in Targets, NEW facility \in {None, "facility"},
           NEW autostart \in BOOLEAN
    PROVE  CreateStep(id, target, facility, autostart) \in LaterSteps
BY DEF CreateStep, LaterSteps

LEMMA FreshFacts == FreshDevices \subseteq DeviceIds /\ FreshHmis \subseteq HmiIds
BY DEF FreshDevices, FreshHmis

LEMMA StoredFacts ==
    ASSUME FleetTypes
    PROVE  /\ DOMAIN store.devices \subseteq DeviceIds /\ DOMAIN store.hmis \subseteq HmiIds
           /\ \A id \in DOMAIN store.devices \cup DOMAIN store.hmis :
                 id \in Ids /\ DeviceOf(id) \in DeviceIds
           /\ \A i : HmisOf(i) \subseteq HmiIds
<1>1. DOMAIN store.devices \subseteq DeviceIds /\ DOMAIN store.hmis \subseteq HmiIds
  BY DEF FleetTypes, IsFleet, IsRegistry, IdsOf, Parts
<1>2. \A h \in DOMAIN store.hmis : store.hmis[h].device \in DeviceIds
  BY DEF FleetTypes, IsFleet, IsRegistry, EntryOf, HmiEntry, Parts
<1>3. ASSUME NEW id \in DOMAIN store.devices \cup DOMAIN store.hmis
      PROVE  id \in Ids /\ DeviceOf(id) \in DeviceIds
  BY <1>1, <1>2, FleetAssumption DEF DeviceOf, Entry, Part, Ids
<1> QED
  BY <1>1, <1>3 DEF HmisOf

LEMMA RequestsAreTaken ==
    ASSUME FleetTypes, NEW t \in Threads, Requests(t)
    PROVE  \E op, devices, fresh, job :
              Take(t, op, devices, fresh, job) /\ IsRequest(op, devices, fresh, job)
<1> DEFINE Taken == \E op, devices, fresh, job :
                      Take(t, op, devices, fresh, job) /\ IsRequest(op, devices, fresh, job)
<1>0. /\ {"create", "launch", "stop_facility", "start", "stop", "delete", "open_hmi"} \subseteq Ops
      /\ {} \in SUBSET DeviceIds
  BY DEF Ops
<1>1. ASSUME TakeCreate(t) PROVE Taken
  <2>1. PICK id \in FreshDevices, target \in Targets, autostart \in BOOLEAN :
          Take(t, "create", {id}, {id}, <<CreateStep(id, target, None, autostart)>>)
    BY <1>1 DEF TakeCreate
  <2>2. CreateStep(id, target, None, autostart) \in LaterSteps
    BY FreshFacts, CreateSteps
  <2>3. {id} \in SUBSET DeviceIds
    BY FreshFacts
  <2>4. IsRequest("create", {id}, {id}, <<CreateStep(id, target, None, autostart)>>)
    BY <1>0, <2>2, <2>3, OneStepIsARequest
  <2> QED
    BY <2>1, <2>4
<1>2. ASSUME TakeLaunch(t) PROVE Taken
  <2> DEFINE Launch(ids) == [n \in DOMAIN Facility |->
                               CreateStep(ids[n], Facility[n], "facility", TRUE)]
  <2>1. PICK ids \in [DOMAIN Facility -> DeviceIds \ Used] :
          IsInjective(ids) /\ Take(t, "launch", Range(ids), Range(ids), Launch(ids))
    BY <1>2, Zenon DEF TakeLaunch
  <2> DEFINE job == Launch(ids)
  <2>2. DOMAIN Facility = 1 .. Len(Facility) /\ Len(Facility) \in Nat
        /\ \A n \in DOMAIN Facility : Facility[n] \in Targets
    BY FacilityAssumption
  <2>3. \A n \in DOMAIN Facility : job[n] \in LaterSteps
    BY <2>1, <2>2, CreateSteps
  <2>4. job \in [1 .. Len(Facility) -> LaterSteps]
    BY <2>2, <2>3
  <2>5. Take(t, "launch", Range(ids), Range(ids), job)
    BY <2>1
  <2> HIDE DEF job
  <2>6. job \in Seq(LaterSteps)
    BY <2>2, <2>4, IsASeq
  <2>7. Range(ids) \in SUBSET DeviceIds
    BY <2>1 DEF Range
  <2>8. IsRequest("launch", Range(ids), Range(ids), job)
    BY <1>0, <2>6, <2>7, WaitingIsARequest
  <2> QED
    BY <2>5, <2>8
<1>3. ASSUME TakeStopFacility(t) PROVE Taken
  <2>1. PICK tagged \in SUBSET DOMAIN store.devices :
          Take(t, "stop_facility", tagged, {}, DeleteEach(tagged))
    BY <1>3 DEF TakeStopFacility
  <2>2. tagged \in SUBSET DeviceIds /\ tagged \in SUBSET Ids
    BY <2>1, StoredFacts DEF Ids
  <2>3. DeleteEach(tagged) \in Seq(LaterSteps)
    BY <2>2, LaterStepsOf
  <2>4. IsRequest("stop_facility", tagged, {}, DeleteEach(tagged))
    BY <1>0, <2>2, <2>3, WaitingIsARequest
  <2> QED
    BY <2>1, <2>4
<1>4. ASSUME TakeStart(t) PROVE Taken
  <2>1. PICK i \in DOMAIN store.devices : Take(t, "start", {i}, {}, <<Step("start", i)>>)
    BY <1>4 DEF TakeStart
  <2>2. {i} \in SUBSET DeviceIds /\ i \in Ids
    BY <2>1, StoredFacts
  <2>3. Step("start", i) \in LaterSteps
    BY <2>2, LaterStepsOf
  <2>4. IsRequest("start", {i}, {}, <<Step("start", i)>>)
    BY <1>0, <2>2, <2>3, OneStepIsARequest
  <2> QED
    BY <2>1, <2>4
<1>5. ASSUME TakeStop(t) PROVE Taken
  <2>1. PICK id \in DOMAIN store.devices \cup DOMAIN store.hmis :
          Take(t, "stop", {DeviceOf(id)}, {}, <<Step("stop", id)>>)
    BY <1>5 DEF TakeStop
  <2>2. {DeviceOf(id)} \in SUBSET DeviceIds /\ id \in Ids
    BY <2>1, StoredFacts
  <2>3. Step("stop", id) \in LaterSteps
    BY <2>2, LaterStepsOf
  <2>4. IsRequest("stop", {DeviceOf(id)}, {}, <<Step("stop", id)>>)
    BY <1>0, <2>2, <2>3, OneStepIsARequest
  <2> QED
    BY <2>1, <2>4
<1>6. ASSUME TakeDelete(t) PROVE Taken
  <2>1. PICK id \in DOMAIN store.devices \cup DOMAIN store.hmis :
          Take(t, "delete", {DeviceOf(id)}, {}, DeleteEach({id}))
    BY <1>6 DEF TakeDelete
  <2>2. {DeviceOf(id)} \in SUBSET DeviceIds /\ {id} \in SUBSET Ids
    BY <2>1, StoredFacts
  <2>3. DeleteEach({id}) \in Seq(LaterSteps)
    BY <2>2, LaterStepsOf
  <2>4. IsRequest("delete", {DeviceOf(id)}, {}, DeleteEach({id}))
    BY <1>0, <2>2, <2>3, WaitingIsARequest
  <2> QED
    BY <2>1, <2>4
<1>7. ASSUME TakeOpenHmi(t) PROVE Taken
  <2> DEFINE First(i, h) == IF HmisOf(i) # {} THEN <<>>
                            ELSE <<[do |-> "insert_hmi", id |-> h, device |-> i]>>
             Job(i, h) == First(i, h) \o Save \o <<Step("start", h)>>
  <2>1. PICK i \in DOMAIN store.devices :
          \E h \in IF HmisOf(i) = {} THEN FreshHmis ELSE HmisOf(i) :
             Take(t, "open_hmi", {i}, {}, Job(i, h))
    BY <1>7, Zenon DEF TakeOpenHmi
  <2>2. PICK h \in IF HmisOf(i) = {} THEN FreshHmis ELSE HmisOf(i) :
             Take(t, "open_hmi", {i}, {}, Job(i, h))
    BY <2>1
  <2>3. h \in HmiIds /\ h \in Ids /\ i \in DeviceIds
    BY <2>2, FreshFacts, StoredFacts DEF Ids
  <2> DEFINE rest == Save \o <<Step("start", h)>>
  <2>4. rest \in Seq(LaterSteps)
    BY <2>3, HmiStartsAfterSaving
  <2>5. {i} \in SUBSET DeviceIds
    BY <2>3
  <2>6. CASE HmisOf(i) # {}
    <3>1. Job(i, h) = rest
      BY <2>6, LaterStepsOf
    <3>2. IsRequest("open_hmi", {i}, {}, rest)
      BY <1>0, <2>4, <2>5, WaitingIsARequest
    <3> QED
      BY <2>2, <3>1, <3>2
  <2>7. CASE HmisOf(i) = {}
    <3> DEFINE s == [do |-> "insert_hmi", id |-> h, device |-> i]
    <3>1. s \in [do : {"insert_hmi"}, id : HmiIds, device : DeviceIds]
      BY <2>3
    <3>2. Job(i, h) = (<<s>> \o Save) \o <<Step("start", h)>>
      BY <2>7
    <3>3. Job(i, h) = <<s>> \o rest
      <4> HIDE DEF s, Job
      <4>1. /\ <<s>> \in Seq({s} \cup {Step("start", h)} \cup LaterSteps)
            /\ Save \in Seq({s} \cup {Step("start", h)} \cup LaterSteps)
            /\ <<Step("start", h)>> \in Seq({s} \cup {Step("start", h)} \cup LaterSteps)
        BY LaterStepsOf, SeqMonotonic
      <4> QED
        BY <3>2, <4>1, ConcatAssociative
    <3> HIDE DEF Job, rest
    <3> DEFINE job == <<s>> \o rest
    <3>4. /\ job # <<>> /\ job \in Seq(LaterSteps \cup {s})
          /\ Head(job) = s /\ Tail(job) = rest
      BY <2>4, Prepended
    <3> HIDE DEF job
    <3>5. IsHmiInsertion(job) /\ Head(job).do = "insert_hmi"
      BY <3>1, <3>4 DEF IsHmiInsertion, rest
    <3>6. IsRequest("open_hmi", {i}, {}, job)
      BY <1>0, <2>4, <2>5, <3>4, <3>5 DEF IsRequest, IsJob
    <3> QED
      BY <2>2, <3>3, <3>6 DEF job
  <2> QED
    BY <2>6, <2>7
<1> QED
  BY <1>1, <1>2, <1>3, <1>4, <1>5, <1>6, <1>7 DEF Requests

LEMMA TakeFacts ==
    ASSUME FleetTypes, NEW t \in Threads, NEW op, NEW devices, NEW fresh, NEW job,
           Take(t, op, devices, fresh, job), IsRequest(op, devices, fresh, job)
    PROVE  /\ FleetTypes'
           /\ jobs[t] = <<>> /\ jobs'[t] = job
           /\ \A u \in Threads \ {t} : jobs'[u] = jobs[u]
           /\ Cardinality(BusyThreads) < shape.users
           /\ UNCHANGED <<shape, raced, store, files, procs, crashes>>
<1>1. /\ UNCHANGED <<shape, raced, store, files, procs, crashes>>
      /\ jobs[t] = <<>> /\ Cardinality(BusyThreads) < shape.users
      /\ jobs' = [jobs EXCEPT ![t] = job]
      /\ request' = [request EXCEPT ![t] = [op |-> op, devices |-> devices]]
  BY DEF Take, Busy, BusyThreads
<1>2. HasJobs' /\ jobs'[t] = job /\ \A u \in Threads \ {t} : jobs'[u] = jobs[u]
  BY <1>1 DEF HasJobs, FleetTypes, IsRequest
<1>3. HasRequests'
  BY <1>1 DEF HasRequests, FleetTypes, IsRequest
<1>4. suspect' \subseteq DeviceIds
  BY DEF Take, IsRequest, FleetTypes
<1> QED
  BY <1>1, <1>2, <1>3, <1>4 DEF FleetTypes

LEMMA ExitFacts ==
    ASSUME FleetTypes, ProcessExit
    PROVE  /\ FleetTypes' /\ LivePids' \subseteq LivePids
           /\ UNCHANGED <<shape, raced, store, files, jobs, request, crashes>>
<1>1. PICK p \in DOMAIN procs : procs[p].live /\ procs' = Ended(p)
  BY DEF ProcessExit
<1>2. AreProcesses(procs') /\ LivePids' \subseteq LivePids
  BY <1>1, EndedFacts DEF FleetTypes, LivePids
<1>3. UNCHANGED <<shape, taken, raced, store, files, jobs, request, crashes, suspect>>
  BY DEF ProcessExit
<1>4. FleetTypes'
  BY <1>2, <1>3 DEF FleetTypes, HasJobs, HasRequests
<1> QED
  BY <1>2, <1>3, <1>4

LEMMA LoadedFacts ==
    ASSUME NEW part \in Parts, NEW f, IsRegistry(part, f)
    PROVE  /\ IsRegistry(part, Loaded(f)) /\ DOMAIN Loaded(f) = DOMAIN f
           /\ \A id \in DOMAIN f :
                 \/ Live(f[id].pid) /\ Loaded(f)[id] = f[id]
                 \/ ~ Live(f[id].pid) /\ Loaded(f)[id] = [f[id] EXCEPT !.pid = NoPid]
           /\ part = "devices" => \A x : Sharing(Loaded(f), x) = Sharing(f, x)
<1>1. \A id \in DOMAIN f :
        \/ Live(f[id].pid) /\ Loaded(f)[id] = f[id]
        \/ ~ Live(f[id].pid) /\ Loaded(f)[id] = [f[id] EXCEPT !.pid = NoPid]
  BY DEF Loaded
<1>2. DOMAIN Loaded(f) = DOMAIN f
  BY DEF Loaded
<1>3. ASSUME NEW id \in DOMAIN f
      PROVE  /\ Loaded(f)[id] \in EntryOf(part)
             /\ part = "devices" => Loaded(f)[id].target = f[id].target
  <2>1. f[id] \in EntryOf(part)
    BY DEF IsRegistry
  <2>2. CASE part = "devices"
    BY <1>1, <2>1, <2>2 DEF EntryOf, DeviceEntry
  <2>3. CASE part = "hmis"
    BY <1>1, <2>1, <2>3 DEF EntryOf, HmiEntry
  <2> QED
    BY <2>2, <2>3 DEF Parts
<1> QED
  BY <1>1, <1>2, <1>3 DEF IsRegistry, Sharing

LEMMA CrashFacts ==
    ASSUME FleetTypes, WebCrash
    PROVE  /\ FleetTypes' /\ LivePids' = LivePids
           /\ \A t \in Threads : jobs'[t] = <<>>
           /\ \A part \in Parts : files'[part] \in {files[part], <<>>}
           /\ \A part \in Parts : store'[part] = Loaded(files'[part])
           /\ UNCHANGED shape
<1>1. files' \in {files} \cup TornFiles
  BY DEF WebCrash
<1>2. /\ DOMAIN files' = Parts
      /\ \A part \in Parts : files'[part] \in {files[part], <<>>}
  <2>1. TornFiles \subseteq {[files EXCEPT !["devices"] = <<>>], [files EXCEPT !["hmis"] = <<>>]}
    BY DEF TornFiles, Torn
  <2> QED
    BY <1>1, <2>1 DEF FleetTypes, IsFleet, Parts
<1>3. \A part \in Parts : IsRegistry(part, <<>>)
  BY DEF IsRegistry
<1>4. IsFleet(files')
  BY <1>2, <1>3 DEF FleetTypes, IsFleet
<1>5. store' = [devices |-> Loaded(files'.devices), hmis |-> Loaded(files'.hmis)]
  BY DEF WebCrash
<1>6. DOMAIN store' = Parts /\ \A part \in Parts : store'[part] = Loaded(files'[part])
  BY <1>5 DEF Parts
<1>7. IsFleet(store')
  <2>1. \A part \in Parts : IsRegistry(part, files'[part])
    BY <1>4 DEF IsFleet
  <2> QED
    BY <1>6, <2>1, LoadedFacts DEF IsFleet
<1>8. procs' = [p \in {q \in DOMAIN procs : Live(q)} |->
                  [procs[p] EXCEPT !.child = FALSE, !.held = None]]
  BY DEF WebCrash
<1>9. AreProcesses(procs') /\ LivePids' = LivePids
  <2>1. \A p \in DOMAIN procs : procs[p] \in Process
    BY DEF FleetTypes, AreProcesses
  <2>2. \A p \in DOMAIN procs' :
           /\ p \in DOMAIN procs /\ procs[p].live
           /\ procs'[p] \in Process /\ procs'[p].live = procs[p].live
    BY <1>8, <2>1 DEF Process, Live
  <2>3. \A p \in DOMAIN procs : procs[p].live => p \in DOMAIN procs'
    BY <1>8 DEF Live, Alive
  <2> QED
    BY <2>2, <2>3 DEF FleetTypes, AreProcesses, LivePids
<1>10. HasJobs' /\ HasRequests' /\ \A t \in Threads : jobs'[t] = <<>>
  <2>1. jobs' = [t \in Threads |-> <<>>] /\ request' = [t \in Threads |-> NoRequest]
    BY DEF WebCrash
  <2> QED
    BY <2>1 DEF HasJobs, HasRequests, IsJob, NoRequest, Ops
<1>11. crashes' \in 0 .. shape.crashes
  <2>1. shape.crashes \in Nat
    BY FleetAssumption DEF FleetTypes
  <2>2. crashes < shape.crashes /\ crashes' = crashes + 1
    BY Zenon DEF WebCrash
  <2>3. crashes \in 0 .. shape.crashes
    BY DEF FleetTypes
  <2>4. shape' = shape
    BY DEF WebCrash
  <2> QED
    BY <2>1, <2>2, <2>3, <2>4
<1>12. suspect' \subseteq DeviceIds
  <2>1. Requested \subseteq DeviceIds
    BY DEF FleetTypes, HasRequests, Requested
  <2> QED
    BY <2>1 DEF WebCrash, FleetTypes
<1>13. UNCHANGED shape /\ IsRace(raced')
  BY DEF WebCrash, IsRace, NoneRaced
<1>14. FleetTypes'
  BY <1>4, <1>7, <1>9, <1>10, <1>11, <1>12, <1>13 DEF FleetTypes
<1> QED
  BY <1>2, <1>6, <1>9, <1>10, <1>13, <1>14

LEMMA TypesMakeState == FleetTypes => FleetState
BY DEF FleetTypes, FleetState

\* The kinds of steps.
LEMMA StepsOfFleet ==
    ASSUME FleetTypes, FleetNext
    PROVE  \/ \E t \in Threads :
                 \/ DumpDevices(t) \/ WriteDevices(t) \/ WriteHmis(t) \/ SaveRaises(t)
                 \/ \E job : IsMove(t, job)
                 \/ \E op, devices, fresh, job :
                       Take(t, op, devices, fresh, job) /\ IsRequest(op, devices, fresh, job)
           \/ ProcessExit \/ WebCrash \/ UNCHANGED fleetVars
<1>1. ASSUME NEW t \in Threads, Requests(t)
      PROVE  \E op, devices, fresh, job :
                Take(t, op, devices, fresh, job) /\ IsRequest(op, devices, fresh, job)
  BY <1>1, RequestsAreTaken
<1>2. ASSUME NEW t \in Threads, Work(t)
      PROVE  \/ DumpDevices(t) \/ WriteDevices(t) \/ WriteHmis(t) \/ SaveRaises(t)
             \/ \E job : IsMove(t, job)
  <2>1. \/ DumpDevices(t) \/ WriteDevices(t) \/ WriteHmis(t) \/ SaveRaises(t)
        \/ Moving(t)
    BY <1>2 DEF Work, Moving
  <2> QED
    BY <2>1, WorkMoves, TypesMakeState
<1> QED
  BY <1>1, <1>2 DEF FleetNext, Done

LEMMA InitTypes == FleetInit => FleetTypes
<1> SUFFICES ASSUME FleetInit PROVE FleetTypes
  OBVIOUS
<1>1. \A part \in Parts : IsRegistry(part, <<>>)
  BY DEF IsRegistry
<1>2. IsFleet(store) /\ IsFleet(files)
  BY <1>1 DEF FleetInit, IsFleet, Parts
<1>3. HasJobs /\ HasRequests
  BY DEF FleetInit, HasJobs, HasRequests, IsJob, NoRequest, Ops
<1>4. crashes \in 0 .. shape.crashes
  BY FleetAssumption DEF FleetInit
<1> QED
  BY <1>2, <1>3, <1>4 DEF FleetInit, FleetTypes, AreProcesses, IsRace, NoneRaced

LEMMA NextKeepsTypes == FleetTypes /\ [FleetNext]_fleetVars => FleetTypes'
<1> SUFFICES ASSUME FleetTypes, [FleetNext]_fleetVars PROVE FleetTypes'
  OBVIOUS
<1>1. CASE UNCHANGED fleetVars
  BY <1>1 DEF fleetVars, FleetTypes, HasJobs, HasRequests
<1>2. CASE FleetNext
  BY <1>1, <1>2, StepsOfFleet, DumpDevicesFacts, WriteDevicesFacts, WriteHmisFacts,
     SaveRaisesFacts, MoveKeepsTypes, TakeFacts, ExitFacts, CrashFacts
<1> QED
  BY <1>1, <1>2

\* The registries, their files, the processes and the requests have their types:
\* no interleaving of requests, exits and crashes leaves an entry that is no
\* entry.
THEOREM FleetTypeCorrect == FleetSpec => []FleetTypeOK
<1>1. FleetTypes => FleetTypeOK
  BY DEF FleetTypes, FleetTypeOK, IsFleet, IsRegistry, IdsOf, EntryOf, DeviceEntry,
         HmiEntry, Parts, AreProcesses, HasRequests, IsRace
<1> QED
  BY <1>1, InitTypes, NextKeepsTypes, PTL DEF FleetSpec

-----------------------------------------------------------------------------
\* Files that catch up.

LEMMA RecordedFacts ==
    ASSUME FleetTypes
    PROVE  /\ \A part \in Parts : \A id \in DOMAIN store[part] : store[part][id].pid \in Recorded
           /\ \A part \in Parts : \A id \in DOMAIN files[part] : files[part][id].pid \in Recorded
           /\ \A part \in Parts : \A t \in Pending(part) :
                 \A id \in DOMAIN Head(jobs[t]).dump :
                    Head(jobs[t]).dump[id].pid \in Recorded
<1> DEFINE All == {store.devices, store.hmis, files.devices, files.hmis} \cup Dumps
<1>1. \A f \in All : \A id \in DOMAIN f : f[id].pid \in Recorded
  BY DEF Recorded, Range
<1>2. \A part \in Parts : store[part] \in All /\ files[part] \in All
  BY DEF Parts
<1>3. ASSUME NEW part \in Parts, NEW t \in Pending(part)
      PROVE  Head(jobs[t]).dump \in All
  <2>1. At(t, Writing(part)) /\ t \in Threads
    BY DEF Pending
  <2>2. Head(jobs[t]) \in Range(jobs[t])
    BY <2>1, JobShape DEF At, Busy, FleetTypes
  <2>3. "dump" \in DOMAIN Head(jobs[t])
    <3> DEFINE s == Head(jobs[t])
    <3>1. s.do \in {"write_devices", "write_hmis"}
      BY <2>1 DEF At, Writing
    <3>2. s \notin LaterSteps /\ ~ IsHmiInsertion(jobs[t])
      BY <3>1, KindsOfSteps DEF IsHmiInsertion
    <3>3. IsNextStep(s)
      BY <2>1, <3>2, JobFacts DEF FleetTypes
    <3> QED
      BY <3>1, <3>3 DEF IsNextStep, IsWrite
  <2>4. Head(jobs[t]) \in Steps
    BY <2>1, <2>2 DEF Steps
  <2> QED
    BY <2>3, <2>4 DEF Dumps
<1> HIDE DEF All
<1> QED
  BY <1>1, <1>2, <1>3

LEMMA AgreeWithItself == \A alive, f : Agree(alive, f, f)
BY DEF Agree

LEMMA StillAgree ==
    ASSUME NEW known, NEW alive, NEW now, NEW f, NEW g, Agree(alive, f, g),
           \A p \in now : p \in alive \/ p \notin known,
           \A id \in DOMAIN f : f[id].pid \in known,
           \A id \in DOMAIN g : g[id].pid \in known
    PROVE  Agree(now, f, g)
BY DEF Agree

LEMMA PendingOfOthers ==
    ASSUME NEW t \in Threads, \A u \in Threads \ {t} : jobs'[u] = jobs[u]
    PROVE  /\ \A part : Pending(part)' \ {t} = Pending(part) \ {t}
           /\ \A part : \A u \in Threads \ {t} : DumpsSoon(part, u) => DumpsSoon(part, u)'
BY DEF Pending, DumpsSoon, At

\* Steps other than those of a save.  Whoever takes one, if anybody does, is
\* going to save what he changed.
LEMMA QuietStepsKeepCatchUp ==
    ASSUME FleetTypes, FilesCatchUp, NEW movers \in SUBSET Threads,
           \A u \in Threads \ movers : jobs'[u] = jobs[u],
           \A u \in movers :
              /\ ~ At(u, "save") /\ ~ At(u, "write_devices") /\ ~ At(u, "write_hmis")
              /\ jobs'[u] = <<>> \/ Head(jobs'[u]).do \notin {"write_devices", "write_hmis"},
           \/ store' = store
           \/ \E u \in movers : jobs'[u] # <<>> /\ Head(jobs'[u]).do = "save",
           \A p \in LivePids' : p \in LivePids \/ p \notin Recorded,
           UNCHANGED <<files, raced>>
    PROVE  FilesCatchUp'
<1>1. SUFFICES ASSUME NEW part \in Parts \ raced.dumps
               PROVE  CaughtUp(part)'
  BY DEF FilesCatchUp
<1>2. CaughtUp(part)
  BY DEF FilesCatchUp
<1>3. Pending(part)' = Pending(part)
  <2>1. \A u \in Threads : At(u, Writing(part))' <=> At(u, Writing(part))
    BY DEF At, Writing
  <2> QED
    BY <2>1 DEF Pending
<1>4. CASE \E u \in movers : jobs'[u] # <<>> /\ Head(jobs'[u]).do = "save"
  <2>1. \E u \in Threads : DumpsSoon(part, u)'
    BY <1>4 DEF DumpsSoon, At
  <2> QED
    BY <2>1 DEF CaughtUp
<1>5. CASE \E u \in Threads : DumpsSoon(part, u)
  <2>1. \E u \in Threads : DumpsSoon(part, u)'
    BY <1>5 DEF DumpsSoon, At
  <2> QED
    BY <2>1 DEF CaughtUp
<1>6. CASE /\ store' = store
           /\ \E u \in Threads :
                 Pending(part) = {u} /\ Agree(LivePids, Head(jobs[u]).dump, store[part])
  <2>1. PICK u \in Threads :
          Pending(part) = {u} /\ Agree(LivePids, Head(jobs[u]).dump, store[part])
    BY <1>6
  <2>2. u \notin movers /\ jobs'[u] = jobs[u]
    BY <2>1 DEF Pending, Writing
  <2>3. Agree(LivePids', Head(jobs[u]).dump, store[part])
    <3> DEFINE now == LivePids'
               f == Head(jobs[u]).dump
               g == store[part]
    <3>1. /\ \A id \in DOMAIN f : f[id].pid \in Recorded
          /\ \A id \in DOMAIN g : g[id].pid \in Recorded
      BY <2>1, RecordedFacts
    <3>2. Agree(LivePids, f, g) /\ \A p \in now : p \in LivePids \/ p \notin Recorded
      BY <2>1
    <3> HIDE DEF now, f, g
    <3>3. Agree(now, f, g)
      BY <3>1, <3>2, StillAgree
    <3> QED
      BY <3>3 DEF now, f, g
  <2> QED
    BY <1>3, <1>6, <2>1, <2>2, <2>3 DEF CaughtUp
<1>7. CASE store' = store /\ Pending(part) = {} /\ Agree(LivePids, files[part], store[part])
  <2> DEFINE now == LivePids'
             f == files[part]
             g == store[part]
  <2>1. /\ \A id \in DOMAIN f : f[id].pid \in Recorded
        /\ \A id \in DOMAIN g : g[id].pid \in Recorded
    BY RecordedFacts
  <2>2. Agree(LivePids, f, g) /\ \A p \in now : p \in LivePids \/ p \notin Recorded
    BY <1>7
  <2> HIDE DEF now, f, g
  <2>3. Agree(now, f, g)
    BY <2>1, <2>2, StillAgree
  <2> QED
    BY <1>3, <1>7, <2>3 DEF CaughtUp, now, f, g
<1> QED
  BY <1>2, <1>4, <1>5, <1>6, <1>7 DEF CaughtUp

LEMMA DumpDevicesKeepsCatchUp ==
    ASSUME FleetTypes, FilesCatchUp, NEW t \in Threads, DumpDevices(t)
    PROVE  FilesCatchUp'
<1>1. /\ At(t, "save")
      /\ jobs'[t] # <<>> /\ Head(jobs'[t]).do = "write_devices"
      /\ Head(jobs'[t]).dump = store.devices
      /\ \A u \in Threads \ {t} : jobs'[u] = jobs[u]
      /\ "devices" \notin raced'.dumps => Pending("devices") = {}
      /\ store' = store
  BY DumpDevicesFacts
<1>2. ASSUME "devices" \notin raced'.dumps PROVE CaughtUp("devices")'
  <2>1. Pending("devices") = {}
    BY <1>1, <1>2
  <2>2. t \in Pending("devices")'
    BY <1>1 DEF Pending, Writing, At
  <2>3. Pending("devices")' = {t}
    BY <1>1, <2>1, <2>2, PendingOfOthers
  <2>4. Agree(LivePids', store["devices"], store["devices"])
    BY AgreeWithItself
  <2> QED
    BY <1>1, <2>3, <2>4 DEF CaughtUp
<1>3. CaughtUp("hmis")'
  BY <1>1 DEF CaughtUp, DumpsSoon, At
<1> QED
  BY <1>2, <1>3 DEF FilesCatchUp, Parts

LEMMA WriteDevicesKeepsCatchUp ==
    ASSUME FleetTypes, FilesCatchUp, NEW t \in Threads, WriteDevices(t)
    PROVE  FilesCatchUp'
<1>1. /\ At(t, "write_devices")
      /\ jobs'[t] # <<>> /\ Head(jobs'[t]).do = "write_hmis"
      /\ Head(jobs'[t]).dump = store.hmis
      /\ \A u \in Threads \ {t} : jobs'[u] = jobs[u]
      /\ files' = [files EXCEPT !.devices = Head(jobs[t]).dump]
      /\ "hmis" \notin raced'.dumps => Pending("hmis") = {}
      /\ "devices" \in raced.dumps => "devices" \in raced'.dumps
      /\ store' = store /\ procs' = procs
  BY WriteDevicesFacts
<1>2. ASSUME "hmis" \notin raced'.dumps PROVE CaughtUp("hmis")'
  <2>1. Pending("hmis") = {}
    BY <1>1, <1>2
  <2>2. t \in Pending("hmis")'
    BY <1>1 DEF Pending, Writing, At
  <2>3. Pending("hmis")' = {t}
    BY <1>1, <2>1, <2>2, PendingOfOthers
  <2>4. Agree(LivePids', store["hmis"], store["hmis"])
    BY AgreeWithItself
  <2> QED
    BY <1>1, <2>3, <2>4 DEF CaughtUp
<1>3. ASSUME "devices" \notin raced'.dumps PROVE CaughtUp("devices")'
  <2>1. CaughtUp("devices")
    BY <1>1, <1>3 DEF FilesCatchUp, Parts
  <2>2. t \in Pending("devices") /\ t \notin Pending("devices")'
    BY <1>1 DEF Pending, Writing, At
  <2>3. CASE \E u \in Threads : DumpsSoon("devices", u)
    <3>1. PICK u \in Threads : DumpsSoon("devices", u)
      BY <2>3
    <3>2. u # t
      BY <1>1, <3>1 DEF DumpsSoon, At
    <3>3. DumpsSoon("devices", u)'
      BY <1>1, <3>1, <3>2, PendingOfOthers
    <3> QED
      BY <3>3 DEF CaughtUp
  <2>4. CASE \E u \in Threads :
               /\ Pending("devices") = {u}
               /\ Agree(LivePids, Head(jobs[u]).dump, store["devices"])
    <3>1. /\ Pending("devices") = {t}
          /\ Agree(LivePids, Head(jobs[t]).dump, store["devices"])
      BY <2>2, <2>4
    <3>2. Pending("devices")' = {}
      BY <1>1, <2>2, <3>1, PendingOfOthers
    <3>3. files'["devices"] = Head(jobs[t]).dump
      BY <1>1 DEF FleetTypes, IsFleet, Parts
    <3>4. LivePids' = LivePids
      BY <1>1 DEF LivePids
    <3> QED
      BY <1>1, <3>1, <3>2, <3>3, <3>4 DEF CaughtUp
  <2> QED
    BY <2>1, <2>2, <2>3, <2>4 DEF CaughtUp
<1> QED
  BY <1>2, <1>3 DEF FilesCatchUp, Parts

LEMMA WriteHmisKeepsCatchUp ==
    ASSUME FleetTypes, FilesCatchUp, NEW t \in Threads, WriteHmis(t)
    PROVE  FilesCatchUp'
<1>1. /\ At(t, "write_hmis")
      /\ jobs'[t] = <<>> \/ Head(jobs'[t]) \in LaterSteps
      /\ \A u \in Threads \ {t} : jobs'[u] = jobs[u]
      /\ files' = [files EXCEPT !.hmis = Head(jobs[t]).dump]
      /\ raced'.dumps = raced.dumps /\ store' = store /\ procs' = procs
  BY WriteHmisFacts
<1>2. jobs'[t] # <<>> => Head(jobs'[t]).do \notin {"write_devices", "write_hmis"}
  BY <1>1, KindsOfSteps
<1>3. LivePids' = LivePids
  BY <1>1 DEF LivePids
<1>4. SUFFICES ASSUME NEW part \in Parts \ raced.dumps
               PROVE  CaughtUp(part)'
  BY <1>1 DEF FilesCatchUp
<1>5. CaughtUp(part)
  BY DEF FilesCatchUp
<1>6. CASE \E u \in Threads : DumpsSoon(part, u)
  <2>1. PICK u \in Threads : DumpsSoon(part, u)
    BY <1>6
  <2>2. u # t
    BY <1>1, <2>1 DEF DumpsSoon, At
  <2>3. DumpsSoon(part, u)'
    BY <1>1, <2>1, <2>2, PendingOfOthers
  <2> QED
    BY <2>3 DEF CaughtUp
<1>7. t \notin Pending(part)'
  BY <1>2 DEF Pending, Writing, At
<1>8. CASE part = "hmis" /\ ~ \E u \in Threads : DumpsSoon(part, u)
  <2>1. t \in Pending(part)
    BY <1>1, <1>8 DEF Pending, Writing
  <2>2. Pending(part) = {t} /\ Agree(LivePids, Head(jobs[t]).dump, store[part])
    BY <1>5, <1>8, <2>1 DEF CaughtUp
  <2>3. Pending(part)' = {}
    BY <1>1, <1>7, <2>2, PendingOfOthers
  <2>4. files'[part] = Head(jobs[t]).dump
    BY <1>1, <1>8 DEF FleetTypes, IsFleet, Parts
  <2> QED
    BY <1>1, <1>3, <2>2, <2>3, <2>4 DEF CaughtUp
<1>9. CASE part = "devices" /\ ~ \E u \in Threads : DumpsSoon(part, u)
  <2>1. t \notin Pending(part)
    BY <1>1, <1>9 DEF Pending, Writing, At
  <2>2. Pending(part)' = Pending(part)
    <3>1. Pending(part)' \ {t} = Pending(part) \ {t}
      BY <1>1, PendingOfOthers
    <3> QED
      BY <1>7, <2>1, <3>1
  <2>3. files'[part] = files[part]
    BY <1>1, <1>9 DEF FleetTypes, IsFleet, Parts
  <2>4. CASE Pending(part) = {}
    BY <1>1, <1>3, <1>5, <1>9, <2>2, <2>3, <2>4 DEF CaughtUp
  <2>5. CASE Pending(part) # {}
    <3>1. PICK u \in Threads :
            Pending(part) = {u} /\ Agree(LivePids, Head(jobs[u]).dump, store[part])
      BY <1>5, <1>9, <2>5 DEF CaughtUp
    <3>2. jobs'[u] = jobs[u]
      BY <1>1, <2>1, <3>1
    <3> QED
      BY <1>1, <1>3, <2>2, <3>1, <3>2 DEF CaughtUp
  <2> QED
    BY <2>4, <2>5
<1> QED
  BY <1>6, <1>8, <1>9 DEF Parts

LEMMA SaveRaisesKeepsCatchUp ==
    ASSUME FleetTypes, FilesCatchUp, NEW t \in Threads, SaveRaises(t)
    PROVE  FilesCatchUp'
<1>1. /\ jobs'[t] = <<>>
      /\ \/ raced'.dumps = Parts
         \/ At(t, "write_hmis") /\ raced'.dumps = raced.dumps \cup {"hmis"}
      /\ \A u \in Threads \ {t} : jobs'[u] = jobs[u]
      /\ LivePids' = LivePids /\ store' = store /\ files' = files
  BY SaveRaisesFacts
<1>2. SUFFICES ASSUME At(t, "write_hmis"), "devices" \notin raced.dumps
               PROVE  CaughtUp("devices")'
  BY <1>1 DEF FilesCatchUp, Parts
<1>3. CaughtUp("devices")
  BY <1>2 DEF FilesCatchUp, Parts
<1>4. t \notin Pending("devices") /\ t \notin Pending("devices")'
  BY <1>1, <1>2 DEF Pending, Writing, At
<1>5. Pending("devices")' = Pending("devices")
  <2>1. Pending("devices")' \ {t} = Pending("devices") \ {t}
    BY <1>1, PendingOfOthers
  <2> QED
    BY <1>4, <2>1
<1>6. CASE \E u \in Threads : DumpsSoon("devices", u)
  <2>1. PICK u \in Threads : DumpsSoon("devices", u)
    BY <1>6
  <2>2. u # t
    BY <1>2, <2>1 DEF DumpsSoon, At
  <2>3. DumpsSoon("devices", u)'
    BY <1>1, <2>1, <2>2, PendingOfOthers
  <2> QED
    BY <2>3 DEF CaughtUp
<1>7. CASE \E u \in Threads :
             /\ Pending("devices") = {u}
             /\ Agree(LivePids, Head(jobs[u]).dump, store["devices"])
  <2>1. PICK u \in Threads :
          /\ Pending("devices") = {u}
          /\ Agree(LivePids, Head(jobs[u]).dump, store["devices"])
    BY <1>7
  <2>2. jobs'[u] = jobs[u]
    BY <1>1, <1>4, <2>1
  <2> QED
    BY <1>1, <1>5, <2>1, <2>2 DEF CaughtUp
<1>8. CASE Pending("devices") = {} /\ Agree(LivePids, files["devices"], store["devices"])
  BY <1>1, <1>5, <1>8 DEF CaughtUp
<1> QED
  BY <1>3, <1>6, <1>7, <1>8 DEF CaughtUp

LEMMA CrashKeepsCatchUp ==
    ASSUME FleetTypes, WebCrash
    PROVE  FilesCatchUp'
<1>1. /\ FleetTypes' /\ LivePids' = LivePids
      /\ \A t \in Threads : jobs'[t] = <<>>
      /\ \A part \in Parts : store'[part] = Loaded(files'[part])
  BY CrashFacts
<1>2. \A part : Pending(part)' = {}
  BY <1>1 DEF Pending, At
<1>3. ASSUME NEW part \in Parts PROVE Agree(LivePids, files'[part], store'[part])
  <2> DEFINE f == files'[part]
  <2>1. IsRegistry(part, f)
    BY <1>1 DEF FleetTypes, IsFleet
  <2>2. store'[part] = Loaded(f)
    BY <1>1
  <2> HIDE DEF f
  <2>3. /\ DOMAIN Loaded(f) = DOMAIN f
        /\ \A id \in DOMAIN f :
              \/ Live(f[id].pid) /\ Loaded(f)[id] = f[id]
              \/ ~ Live(f[id].pid) /\ Loaded(f)[id] = [f[id] EXCEPT !.pid = NoPid]
    BY <2>1, LoadedFacts
  <2>4. \A pid : Live(pid) <=> pid \in LivePids
    BY DEF Live, Alive, LivePids
  <2>5. NoPid \notin LivePids
    BY FleetAssumption DEF LivePids, NoPid, FleetTypes, AreProcesses
  <2>6. ASSUME NEW id \in DOMAIN f, Loaded(f)[id] = [f[id] EXCEPT !.pid = NoPid]
        PROVE  /\ Loaded(f)[id].pid = NoPid
               /\ [f[id] EXCEPT !.pid = NoPid] = [Loaded(f)[id] EXCEPT !.pid = NoPid]
    <3>1. f[id] \in DeviceEntry \/ f[id] \in HmiEntry
      BY <2>1 DEF IsRegistry, EntryOf
    <3>2. CASE f[id] \in DeviceEntry
      BY <2>6, <3>2 DEF DeviceEntry
    <3>3. CASE f[id] \in HmiEntry
      BY <2>6, <3>3 DEF HmiEntry
    <3> QED
      BY <3>1, <3>2, <3>3
  <2>7. Agree(LivePids, f, Loaded(f))
    BY <2>3, <2>4, <2>5, <2>6 DEF Agree
  <2> QED
    BY <2>2, <2>7 DEF f
<1> QED
  BY <1>1, <1>2, <1>3 DEF FilesCatchUp, CaughtUp

LEMMA NextKeepsCatchUp ==
    FleetTypes /\ FilesCatchUp /\ [FleetNext]_fleetVars => FilesCatchUp'
<1> SUFFICES ASSUME FleetTypes, FilesCatchUp, [FleetNext]_fleetVars PROVE FilesCatchUp'
  OBVIOUS
<1>1. CASE UNCHANGED fleetVars
  <2>1. LivePids' = LivePids /\ {} \in SUBSET Threads
    BY <1>1 DEF LivePids, fleetVars
  <2> QED
    BY <1>1, <2>1, QuietStepsKeepCatchUp DEF fleetVars
<1>2. ASSUME NEW t \in Threads, NEW job, IsMove(t, job) PROVE FilesCatchUp'
  <2>1. /\ jobs'[t] = job /\ \A u \in Threads \ {t} : jobs'[u] = jobs[u]
        /\ {t} \in SUBSET Threads
    BY <1>2, ContinueFacts DEF IsMove, FleetTypes
  <2> QED
    BY <1>2, <2>1, QuietStepsKeepCatchUp DEF IsMove
<1>3. ASSUME NEW t \in Threads, NEW op, NEW devices, NEW fresh, NEW job,
             Take(t, op, devices, fresh, job), IsRequest(op, devices, fresh, job)
      PROVE  FilesCatchUp'
  <2>1. /\ jobs[t] = <<>> /\ jobs'[t] = job
        /\ \A u \in Threads \ {t} : jobs'[u] = jobs[u]
        /\ UNCHANGED <<raced, store, files, procs>>
        /\ {t} \in SUBSET Threads
    BY <1>3, TakeFacts
  <2>2. LivePids' = LivePids
    BY <2>1 DEF LivePids
  <2>3. ~ At(t, "save") /\ ~ At(t, "write_devices") /\ ~ At(t, "write_hmis")
    BY <2>1 DEF At
  <2>4. jobs'[t] = <<>> \/ Head(jobs'[t]).do \notin {"write_devices", "write_hmis"}
    BY <1>3, <2>1 DEF IsRequest
  <2> QED
    BY <2>1, <2>2, <2>3, <2>4, QuietStepsKeepCatchUp
<1>4. ASSUME ProcessExit PROVE FilesCatchUp'
  <2>1. /\ LivePids' \subseteq LivePids /\ UNCHANGED <<raced, store, files, jobs>>
        /\ {} \in SUBSET Threads
    BY <1>4, ExitFacts
  <2> QED
    BY <2>1, QuietStepsKeepCatchUp
<1> QED
  BY <1>1, <1>2, <1>3, <1>4, StepsOfFleet, DumpDevicesKeepsCatchUp,
     WriteDevicesKeepsCatchUp, WriteHmisKeepsCatchUp, SaveRaisesKeepsCatchUp,
     CrashKeepsCatchUp

\* Whatever requests overlapped and wherever the web application died: between
\* requests, a file whose saves did not overlap loads as the fleet that is there.
THEOREM RestartsLoseNothing == FleetSpec => []RestartLosesNothing
<1>1. FleetInit => FilesCatchUp
  <2> SUFFICES ASSUME FleetInit PROVE FilesCatchUp
    OBVIOUS
  <2>1. \A part : Pending(part) = {}
    BY DEF FleetInit, Pending, At
  <2>2. \A part \in Parts : files[part] = store[part]
    BY DEF FleetInit
  <2> QED
    BY <2>1, <2>2, AgreeWithItself DEF FilesCatchUp, CaughtUp
<1>2. FleetTypes /\ FilesCatchUp => RestartLosesNothing
  <2> SUFFICES ASSUME FleetTypes, FilesCatchUp, AllIdle, NEW part \in Parts \ raced.dumps
               PROVE  Loaded(files[part]) = Loaded(store[part])
    BY DEF RestartLosesNothing, Parts
  <2> DEFINE f == files[part]
             g == store[part]
  <2>1. CaughtUp(part)
    BY DEF FilesCatchUp
  <2>2. \A t \in Threads : \A do : ~ At(t, do)
    BY DEF AllIdle, Busy, At
  <2>3. Agree(LivePids, f, g)
    BY <2>1, <2>2 DEF CaughtUp, DumpsSoon, Pending
  <2>4. \A pid : Live(pid) <=> pid \in LivePids
    BY DEF Live, Alive, LivePids
  <2> HIDE DEF f, g
  <2>5. Loaded(f) = Loaded(g)
    <3>1. DOMAIN f = DOMAIN g
      BY <2>3 DEF Agree
    <3>2. ASSUME NEW id \in DOMAIN f
          PROVE  (IF Live(f[id].pid) THEN f[id] ELSE [f[id] EXCEPT !.pid = NoPid])
                   = (IF Live(g[id].pid) THEN g[id] ELSE [g[id] EXCEPT !.pid = NoPid])
      BY <2>3, <2>4 DEF Agree
    <3> QED
      BY <3>1, <3>2 DEF Loaded
  <2> QED
    BY <2>5 DEF f, g
<1> QED
  BY <1>1, <1>2, InitTypes, NextKeepsTypes, NextKeepsCatchUp, PTL DEF FleetSpec

-----------------------------------------------------------------------------
\* Devices that share a target.

LEMMA Counting ==
    ASSUME NEW S, IsFiniteSet(S)
    PROVE  /\ Cardinality(S) \in Nat
           /\ \A T \in SUBSET S :
                 /\ IsFiniteSet(T) /\ Cardinality(T) \in Nat
                 /\ Cardinality(T) <= Cardinality(S)
           /\ \A x : IsFiniteSet(S \cup {x}) /\ Cardinality(S \cup {x}) <= Cardinality(S) + 1
           /\ \A x \in S : Cardinality(S \ {x}) = Cardinality(S) - 1
<1>1. Cardinality(S) \in Nat
  BY FS_CardinalityType
<1>2. ASSUME NEW T \in SUBSET S
      PROVE  /\ IsFiniteSet(T) /\ Cardinality(T) \in Nat
             /\ Cardinality(T) <= Cardinality(S)
  BY FS_Subset, FS_CardinalityType
<1>3. ASSUME NEW x
      PROVE  IsFiniteSet(S \cup {x}) /\ Cardinality(S \cup {x}) <= Cardinality(S) + 1
  BY <1>1, FS_AddElement
<1>4. ASSUME NEW x \in S
      PROVE  Cardinality(S \ {x}) = Cardinality(S) - 1
  BY FS_RemoveElement
<1> QED
  BY <1>1, <1>2, <1>3, <1>4

LEMMA FiniteSharing ==
    ASSUME NEW f, IsRegistry("devices", f), NEW x
    PROVE  IsFiniteSet(Sharing(f, x)) /\ Cardinality(Sharing(f, x)) \in Nat
<1>1. Sharing(f, x) \in SUBSET DeviceIds
  BY DEF IsRegistry, IdsOf, Sharing
<1> QED
  BY <1>1, FleetAssumption, Counting

LEMMA FiniteThreads ==
    ASSUME NEW S \in SUBSET Threads
    PROVE  IsFiniteSet(S) /\ Cardinality(S) \in Nat
BY FleetAssumption, Counting

\* Steps that keep the store and insert nothing.
LEMMA SameStoreKeepsFewShare ==
    ASSUME FleetTypes, FewShare, shape' = shape, store' = store,
           Cardinality(BusyThreads') <= shape.users,
           \A x \in Targets : Inserting(x)' \subseteq Inserting(x),
           \A x \in Targets : Cardinality(Sharing(files'.devices, x)) <= shape.users,
           \A t \in Threads : At(t, "write_devices")' =>
              \A x \in Targets : Cardinality(Sharing(Head(jobs'[t]).dump, x)) <= shape.users
    PROVE  FewShare'
<1>1. shape.users \in Nat
  BY FleetAssumption DEF FleetTypes
<1>2. ASSUME NEW x \in Targets
      PROVE  Cardinality(Sharing(store'.devices, x)) + Cardinality(Inserting(x)') <= shape.users
  <2> DEFINE a == Cardinality(Sharing(store.devices, x))
             b == Cardinality(Inserting(x))
             c == Cardinality(Inserting(x)')
  <2>1. a \in Nat
    BY FiniteSharing DEF FleetTypes, IsFleet, Parts
  <2>2. Inserting(x) \in SUBSET Threads
    BY DEF Inserting
  <2>3. IsFiniteSet(Inserting(x)) /\ b \in Nat
    BY <2>2, FiniteThreads
  <2>4. c \in Nat /\ c <= b
    BY <2>3, Counting
  <2>5. a + b <= shape.users
    BY DEF FewShare
  <2>6. Sharing(store'.devices, x) = Sharing(store.devices, x)
    OBVIOUS
  <2> HIDE DEF a, b, c
  <2>7. a + c <= shape.users
    BY <1>1, <2>1, <2>3, <2>4, <2>5
  <2> QED
    BY <2>6, <2>7 DEF a, c
<1> QED
  BY <1>2 DEF FewShare

LEMMA MoveKeepsFewShare ==
    ASSUME FleetTypes, FewShare, NEW t \in Threads, NEW job, IsMove(t, job)
    PROVE  FewShare'
<1>1. /\ jobs'[t] = job /\ \A u \in Threads \ {t} : jobs'[u] = jobs[u]
      /\ shape' = shape /\ files' = files /\ Busy(t) /\ t \in BusyThreads
  BY ContinueFacts DEF IsMove, FleetTypes, BusyThreads
<1>2. /\ IsFiniteSet(BusyThreads) /\ IsFiniteSet(BusyThreads') /\ shape.users \in Nat
      /\ Cardinality(BusyThreads') \in Nat /\ Cardinality(BusyThreads') <= shape.users
  <2>1. BusyThreads' \in SUBSET BusyThreads /\ BusyThreads \in SUBSET Threads
    BY <1>1 DEF BusyThreads, Busy
  <2>2. IsFiniteSet(BusyThreads) /\ Cardinality(BusyThreads) \in Nat
    BY <2>1, FiniteThreads
  <2>3. /\ IsFiniteSet(BusyThreads') /\ Cardinality(BusyThreads') \in Nat
        /\ Cardinality(BusyThreads') <= Cardinality(BusyThreads)
    BY <2>1, <2>2, Counting
  <2>4. Cardinality(BusyThreads) <= shape.users /\ shape.users \in Nat
    BY FleetAssumption DEF FewShare, FleetTypes
  <2> QED
    BY <2>2, <2>3, <2>4
<1>3. \A u \in Threads : At(u, "write_devices")' =>
         \A x \in Targets : Cardinality(Sharing(Head(jobs'[u]).dump, x)) <= shape.users
  <2>1. \A u \in Threads : At(u, "write_devices")' =>
           At(u, "write_devices") /\ jobs'[u] = jobs[u]
    BY <1>1 DEF At, IsMove
  <2> QED
    BY <2>1 DEF FewShare
<1>4. ASSUME NEW x \in Targets
      PROVE  Cardinality(Sharing(store'.devices, x)) + Cardinality(Inserting(x)') <= shape.users
  <2> DEFINE A == Sharing(store.devices, x)
             An == Sharing(store'.devices, x)
             B == Inserting(x)
             Bn == Inserting(x)'
  <2>1. IsFiniteSet(A) /\ Cardinality(A) \in Nat /\ IsFiniteSet(An) /\ Cardinality(An) \in Nat
    BY FiniteSharing DEF FleetTypes, IsMove, IsFleet, Parts
  <2>2. IsFiniteSet(B) /\ Cardinality(B) \in Nat /\ IsFiniteSet(Bn) /\ Cardinality(Bn) \in Nat
    <3>1. B \in SUBSET Threads /\ Bn \in SUBSET Threads
      BY DEF Inserting
    <3> QED
      BY <3>1, FiniteThreads
  <2>3. Cardinality(A) + Cardinality(B) <= shape.users
    BY DEF FewShare
  <2>4. CASE job # <<>> /\ Head(job).do = "insert" /\ Head(job).target = x
    <3>1. An = {}
      BY <2>4 DEF IsMove
    <3>2. Bn \in SUBSET BusyThreads'
      BY DEF Inserting, At, BusyThreads, Busy
    <3>3. Cardinality(An) = 0
      BY <3>1, FS_EmptySet
    <3>4. Cardinality(Bn) <= Cardinality(BusyThreads')
      BY <1>2, <3>2, Counting
    <3> HIDE DEF An, Bn
    <3>5. Cardinality(An) + Cardinality(Bn) <= shape.users
      BY <1>2, <2>2, <3>3, <3>4
    <3> QED
      BY <3>5 DEF An, Bn
  <2>5. CASE ~ (job # <<>> /\ Head(job).do = "insert" /\ Head(job).target = x)
    <3>1. Bn \in SUBSET (B \ {t})
      BY <1>1, <2>5 DEF Inserting, At
    <3>2. Cardinality(Bn) <= Cardinality(B)
      <4>1. Bn \in SUBSET B
        BY <3>1
      <4> QED
        BY <2>2, <4>1, Counting
    <3>3. CASE An \subseteq A
      <4>1. Cardinality(An) <= Cardinality(A)
        BY <2>1, <3>3, Counting
      <4> HIDE DEF A, An, B, Bn
      <4>2. Cardinality(An) + Cardinality(Bn) <= shape.users
        BY <1>2, <2>1, <2>2, <2>3, <3>2, <4>1
      <4> QED
        BY <4>2 DEF An, Bn
    <3>4. CASE t \in B /\ \E id \in DeviceIds : An \subseteq A \cup {id}
      <4>1. PICK id \in DeviceIds : An \subseteq A \cup {id}
        BY <3>4
      <4>2. Cardinality(An) <= Cardinality(A) + 1
        <5> HIDE DEF A, An
        <5>1. /\ IsFiniteSet(A \cup {id})
              /\ Cardinality(A \cup {id}) <= Cardinality(A) + 1
          BY <2>1, Counting
        <5>2. /\ Cardinality(A \cup {id}) \in Nat
              /\ Cardinality(An) <= Cardinality(A \cup {id})
          BY <4>1, <5>1, Counting
        <5> QED
          BY <2>1, <5>1, <5>2
      <4>3. Cardinality(Bn) <= Cardinality(B) - 1
        <5> HIDE DEF B, Bn
        <5>1. /\ IsFiniteSet(B \ {t})
              /\ Cardinality(B \ {t}) = Cardinality(B) - 1
          BY <2>2, <3>4, Counting
        <5>2. Cardinality(Bn) <= Cardinality(B \ {t})
          BY <3>1, <5>1, Counting
        <5> QED
          BY <5>1, <5>2
      <4> HIDE DEF A, An, B, Bn
      <4>4. Cardinality(An) + Cardinality(Bn) <= shape.users
        BY <1>2, <2>1, <2>2, <2>3, <4>2, <4>3
      <4> QED
        BY <4>4 DEF An, Bn
    <3> QED
      BY <3>3, <3>4 DEF IsMove
  <2> QED
    BY <2>4, <2>5
<1>5. \A x \in Targets : Cardinality(Sharing(files'.devices, x)) <= shape.users
  BY <1>1 DEF FewShare
<1> QED
  BY <1>1, <1>2, <1>3, <1>4, <1>5 DEF FewShare

LEMMA FewerBusy ==
    ASSUME FewShare, FleetTypes, BusyThreads' \subseteq BusyThreads
    PROVE  Cardinality(BusyThreads') <= shape.users
<1>1. BusyThreads \in SUBSET Threads /\ BusyThreads' \in SUBSET BusyThreads
  BY DEF BusyThreads
<1>2. IsFiniteSet(BusyThreads) /\ Cardinality(BusyThreads) \in Nat
  BY <1>1, FiniteThreads
<1>3. Cardinality(BusyThreads') \in Nat /\ Cardinality(BusyThreads') <= Cardinality(BusyThreads)
  BY <1>1, <1>2, Counting
<1>4. Cardinality(BusyThreads) <= shape.users /\ shape.users \in Nat
  BY FleetAssumption DEF FewShare, FleetTypes
<1> QED
  BY <1>2, <1>3, <1>4

LEMMA StoreSharesFew ==
    ASSUME FewShare, FleetTypes, NEW x \in Targets
    PROVE  Cardinality(Sharing(store.devices, x)) <= shape.users
<1> DEFINE a == Cardinality(Sharing(store.devices, x))
           b == Cardinality(Inserting(x))
<1>1. a \in Nat
  BY FiniteSharing DEF FleetTypes, IsFleet, Parts
<1>2. b \in Nat
  <2>1. Inserting(x) \in SUBSET Threads
    BY DEF Inserting
  <2> QED
    BY <2>1, FiniteThreads
<1>3. a + b <= shape.users /\ shape.users \in Nat
  BY FleetAssumption DEF FewShare, FleetTypes
<1> HIDE DEF a, b
<1>4. a <= shape.users
  BY <1>1, <1>2, <1>3
<1> QED
  BY <1>4 DEF a

LEMMA SavesKeepFewShare ==
    ASSUME FleetTypes, FewShare, NEW t \in Threads,
           DumpDevices(t) \/ WriteDevices(t) \/ WriteHmis(t) \/ SaveRaises(t)
    PROVE  FewShare'
<1>1. /\ \/ At(t, "save") \/ At(t, "write_devices") \/ At(t, "write_hmis")
      /\ \A u \in Threads \ {t} : jobs'[u] = jobs[u]
      /\ \/ /\ jobs'[t] # <<>> /\ Head(jobs'[t]).do = "write_devices"
            /\ Head(jobs'[t]).dump = store.devices
         \/ jobs'[t] = <<>>
         \/ Head(jobs'[t]).do \notin {"write_devices", "insert"}
      /\ store' = store /\ shape' = shape
  BY DumpDevicesFacts, WriteDevicesFacts, WriteHmisFacts, SaveRaisesFacts, KindsOfSteps
<1>2. Cardinality(BusyThreads') <= shape.users
  <2>1. BusyThreads' \subseteq BusyThreads
    BY <1>1 DEF BusyThreads, Busy, At
  <2> QED
    BY <2>1, FewerBusy
<1>3. \A x \in Targets : Inserting(x)' \subseteq Inserting(x)
  BY <1>1 DEF Inserting, At
<1>4. \A x \in Targets : Cardinality(Sharing(files'.devices, x)) <= shape.users
  <2>1. \/ files'["devices"] = files["devices"]
        \/ At(t, "write_devices") /\ files'["devices"] = Head(jobs[t]).dump
    <3>1. DOMAIN files = Parts
      BY DEF FleetTypes, IsFleet
    <3>2. CASE DumpDevices(t)
      BY <3>2, DumpDevicesFacts
    <3>3. CASE WriteDevices(t)
      BY <3>1, <3>3, WriteDevicesFacts DEF Parts
    <3>4. CASE WriteHmis(t)
      BY <3>1, <3>4, WriteHmisFacts DEF Parts
    <3>5. CASE SaveRaises(t)
      BY <3>5, SaveRaisesFacts
    <3> QED
      BY <3>2, <3>3, <3>4, <3>5
  <2> QED
    BY <2>1 DEF FewShare
<1>5. ASSUME NEW u \in Threads, At(u, "write_devices")', NEW x \in Targets
      PROVE  Cardinality(Sharing(Head(jobs'[u]).dump, x)) <= shape.users
  <2>1. CASE u = t
    <3>1. Head(jobs'[t]).dump = store.devices
      BY <1>1, <1>5, <2>1 DEF At
    <3> QED
      BY <2>1, <3>1, StoreSharesFew
  <2>2. CASE u # t
    <3>1. jobs'[u] = jobs[u] /\ At(u, "write_devices")
      BY <1>1, <1>5, <2>2 DEF At
    <3> QED
      BY <3>1 DEF FewShare
  <2> QED
    BY <2>1, <2>2
<1> QED
  BY <1>1, <1>2, <1>3, <1>4, <1>5, SameStoreKeepsFewShare

LEMMA TakeKeepsFewShare ==
    ASSUME FleetTypes, FewShare, NEW t \in Threads,
           NEW op, NEW devices, NEW fresh, NEW job,
           Take(t, op, devices, fresh, job), IsRequest(op, devices, fresh, job)
    PROVE  FewShare'
<1>1. /\ jobs'[t] = job
      /\ \A u \in Threads \ {t} : jobs'[u] = jobs[u]
      /\ Cardinality(BusyThreads) < shape.users
      /\ shape' = shape /\ store' = store /\ files' = files
  BY TakeFacts
<1>2. job # <<>> => Head(job).do \notin {"write_devices", "insert"}
  BY DEF IsRequest
<1>3. Cardinality(BusyThreads') <= shape.users
  <2>1. BusyThreads' \in SUBSET (BusyThreads \cup {t}) /\ BusyThreads \in SUBSET Threads
    BY <1>1 DEF BusyThreads, Busy
  <2>2. IsFiniteSet(BusyThreads) /\ Cardinality(BusyThreads) \in Nat
    BY <2>1, FiniteThreads
  <2>3. /\ IsFiniteSet(BusyThreads \cup {t})
        /\ Cardinality(BusyThreads \cup {t}) <= Cardinality(BusyThreads) + 1
    BY <2>2, Counting
  <2>4. /\ Cardinality(BusyThreads') \in Nat
        /\ Cardinality(BusyThreads \cup {t}) \in Nat
        /\ Cardinality(BusyThreads') <= Cardinality(BusyThreads \cup {t})
    BY <2>1, <2>3, Counting
  <2>5. shape.users \in Nat
    BY FleetAssumption DEF FleetTypes
  <2> QED
    BY <1>1, <2>2, <2>3, <2>4, <2>5
<1>4. \A x \in Targets : Inserting(x)' \subseteq Inserting(x)
  BY <1>1, <1>2 DEF Inserting, At
<1>5. \A x \in Targets : Cardinality(Sharing(files'.devices, x)) <= shape.users
  BY <1>1 DEF FewShare
<1>6. \A u \in Threads : At(u, "write_devices")' =>
         \A x \in Targets : Cardinality(Sharing(Head(jobs'[u]).dump, x)) <= shape.users
  <2>1. \A u \in Threads : At(u, "write_devices")' =>
           At(u, "write_devices") /\ jobs'[u] = jobs[u]
    BY <1>1, <1>2 DEF At
  <2> QED
    BY <2>1 DEF FewShare
<1> QED
  BY <1>1, <1>3, <1>4, <1>5, <1>6, SameStoreKeepsFewShare

LEMMA CrashKeepsFewShare ==
    ASSUME FleetTypes, FewShare, WebCrash
    PROVE  FewShare'
<1>1. /\ FleetTypes'
      /\ \A t \in Threads : jobs'[t] = <<>>
      /\ files'["devices"] \in {files["devices"], <<>>}
      /\ store'["devices"] = Loaded(files'["devices"])
      /\ shape' = shape
  BY CrashFacts DEF Parts
<1>2. shape.users \in Nat
  BY FleetAssumption DEF FleetTypes
<1>3. BusyThreads' = {} /\ \A x : Inserting(x)' = {}
  BY <1>1 DEF BusyThreads, Busy, Inserting, At
<1>4. Cardinality(BusyThreads') <= shape.users
  BY <1>2, <1>3, FS_EmptySet
<1>5. ASSUME NEW x \in Targets
      PROVE  Cardinality(Sharing(files'.devices, x)) <= shape.users
  <2>1. CASE files'["devices"] = files["devices"]
    BY <2>1 DEF FewShare
  <2>2. CASE files'["devices"] = <<>>
    <3>1. Sharing(files'.devices, x) = {}
      BY <2>2 DEF Sharing
    <3> QED
      BY <1>2, <3>1, FS_EmptySet
  <2> QED
    BY <1>1, <2>1, <2>2
<1>6. ASSUME NEW x \in Targets
      PROVE  Cardinality(Sharing(store'.devices, x)) + Cardinality(Inserting(x)') <= shape.users
  <2> DEFINE f == files'["devices"]
             a == Cardinality(Sharing(f, x))
  <2>1. IsRegistry("devices", f)
    BY <1>1 DEF FleetTypes, IsFleet, Parts
  <2>2. store'["devices"] = Loaded(f)
    BY <1>1
  <2>3. a <= shape.users
    BY <1>5
  <2> HIDE DEF f
  <2>4. Sharing(Loaded(f), x) = Sharing(f, x) /\ a \in Nat
    BY <2>1, LoadedFacts, FiniteSharing DEF Parts
  <2>5. Cardinality(Inserting(x)') = 0
    BY <1>3, FS_EmptySet
  <2>6. Cardinality(Sharing(store'.devices, x)) = a
    BY <2>2, <2>4
  <2> HIDE DEF a
  <2> QED
    BY <1>2, <2>3, <2>4, <2>5, <2>6
<1>7. \A t \in Threads : ~ At(t, "write_devices")'
  BY <1>1 DEF At
<1> QED
  BY <1>1, <1>4, <1>5, <1>6, <1>7 DEF FewShare

LEMMA NextKeepsFewShare ==
    FleetTypes /\ FewShare /\ [FleetNext]_fleetVars => FewShare'
<1> SUFFICES ASSUME FleetTypes, FewShare, [FleetNext]_fleetVars PROVE FewShare'
  OBVIOUS
<1>1. ASSUME UNCHANGED <<shape, store, files, jobs>>
      PROVE  FewShare'
  BY <1>1 DEF FewShare, BusyThreads, Busy, Inserting, At
<1>2. ASSUME ProcessExit PROVE FewShare'
  BY <1>1, <1>2, ExitFacts
<1>3. ASSUME UNCHANGED fleetVars PROVE FewShare'
  BY <1>1, <1>3 DEF fleetVars
<1> QED
  BY <1>2, <1>3, StepsOfFleet, MoveKeepsFewShare, SavesKeepFewShare, TakeKeepsFewShare,
     CrashKeepsFewShare

\* However requests, saves, crashes and restarts come between each other, a
\* target has at most as many devices as there are requests served at once: one
\* user at a time never gives a target twice.
THEOREM TargetsStayDistinct == FleetSpec => []TargetsAreDistinct
<1>1. FleetInit => FewShare
  <2> SUFFICES ASSUME FleetInit PROVE FewShare
    OBVIOUS
  <2>1. shape.users \in Nat
    BY FleetAssumption DEF FleetInit
  <2>2. BusyThreads = {} /\ \A x : Inserting(x) = {}
    BY DEF FleetInit, BusyThreads, Busy, Inserting, At
  <2>3. \A x : Sharing(store.devices, x) = {} /\ Sharing(files.devices, x) = {}
    BY DEF FleetInit, Sharing
  <2>4. \A t \in Threads : ~ At(t, "write_devices")
    BY DEF FleetInit, At
  <2> QED
    BY <2>1, <2>2, <2>3, <2>4, FS_EmptySet DEF FewShare
<1>2. FleetTypes /\ FewShare => TargetsAreDistinct
  BY StoreSharesFew DEF TargetsAreDistinct, TargetsAreShared, Sharing
<1> QED
  BY <1>1, <1>2, InitTypes, NextKeepsTypes, NextKeepsFewShare, PTL DEF FleetSpec

-----------------------------------------------------------------------------
\* Requests and what they are about.

\* The devices and HMIs that a step names.
Names(s) ==
    IF s.do = "delete" THEN s.ids
    ELSE IF s.do \in {"save", "write_devices", "write_hmis"} THEN {}
    ELSE {s.id}
JobNames(job) == UNION {Names(s) : s \in Range(job)}

\* A device of t's request or, if it is in the store, an HMI of one.
Within(t, id) ==
    IF id \in HmiIds
    THEN id \in DOMAIN store.hmis => store.hmis[id].device \in request[t].devices
    ELSE id \in request[t].devices

StepsAreWithin == \A t \in Threads : \A id \in JobNames(jobs[t]) : Within(t, id)

\* The HMI to be inserted is new to everybody else, and its device is there.
InsertionsFit ==
    \A t \in Threads : At(t, "insert_hmi") =>
        LET s == Head(jobs[t])
        IN  /\ s.device \in request[t].devices
            /\ s.device \in DOMAIN store.devices \cup suspect
            /\ s.id \notin DOMAIN store.hmis
            /\ \A u \in Threads \ {t} : s.id \notin JobNames(jobs[u])

RequestsOverlap ==
    \A t, u \in Threads :
        t # u => request[t].devices \cap request[u].devices \subseteq suspect

\* A step before the k-th one of a job removes h.
RemovesAny(s) == s.do \in {"remove", "delete"}
GoesBefore(job, k, h) ==
    \E j \in 1 .. (k - 1) : RemovesAny(job[j]) /\ h \in Names(job[j])

RemovesDevice(s) == s.do = "remove" /\ s.id \in DeviceIds

HmisGoFirst ==
    \A t \in Threads : \A k \in DOMAIN jobs[t] :
        RemovesDevice(jobs[t][k]) /\ jobs[t][k].id \notin suspect =>
            \A h \in HmisOf(jobs[t][k].id) : GoesBefore(jobs[t], k, h)

\* The entries of a part that are about a device.
About(part, f, i) ==
    IF part = "hmis" THEN {h \in DOMAIN f : f[h].device = i} ELSE {i} \cap DOMAIN f

\* Two dictionaries have the same entries about a device, and name the same of the
\* processes that live.
SameAbout(alive, part, f, g, i) ==
    /\ About(part, f, i) = About(part, g, i)
    /\ \A id \in About(part, f, i) :
          f[id].pid \in alive \/ g[id].pid \in alive => f[id].pid = g[id].pid

\* A file has the entries about a device that the store has, unless a request
\* about it is going to save, or saves that overlapped have left it behind.
KeepsUp(part, i) ==
    \/ \E t \in Threads : i \in request[t].devices /\ DumpsSoon(part, t)
    \/ /\ part \notin raced.dumps =>
             \A t \in Pending(part) :
                SameAbout(LivePids, part, Head(jobs[t]).dump, store[part], i)
       /\ \/ part \in raced.files
          \/ \E t \in Pending(part) : i \in request[t].devices
          \/ SameAbout(LivePids, part, files[part], store[part], i)
FilesKeepUp == \A part \in Parts, i \in DeviceIds : KeepsUp(part, i)

JobsKeepOrder == StepsAreWithin /\ InsertionsFit /\ RequestsOverlap /\ HmisGoFirst

\* What a step of t may name next.
Reach(t) ==
    JobNames(jobs[t]) \cup request[t].devices
    \cup {h \in DOMAIN store.hmis : store.hmis[h].device \in JobNames(jobs[t])}

\* A job goes on within reach, and removes a device only after its HMIs.
KeepsJob(t) ==
    /\ JobNames(jobs'[t]) \subseteq Reach(t)
    /\ jobs'[t] # <<>> => Head(jobs'[t]).do # "insert_hmi"
    /\ \A k \in DOMAIN jobs'[t] : RemovesDevice(jobs'[t][k]) =>
          \/ \A h \in DOMAIN store'.hmis :
                store'.hmis[h].device = jobs'[t][k].id => GoesBefore(jobs'[t], k, h)
          \/ \E n \in DOMAIN jobs[t] :
                /\ jobs[t][n] = jobs'[t][k]
                /\ \A h \in DOMAIN store'.hmis :
                      GoesBefore(jobs[t], n, h) => GoesBefore(jobs'[t], k, h)

\* A step inserts and removes only entries that its job names.
KeepsStore(t) ==
    /\ \A h \in DOMAIN store'.hmis :
          \/ h \in DOMAIN store.hmis /\ store'.hmis[h].device = store.hmis[h].device
          \/ /\ At(t, "insert_hmi") /\ h = Head(jobs[t]).id
             /\ store'.hmis[h].device = Head(jobs[t]).device
    /\ \A h \in DOMAIN store.hmis : h \in DOMAIN store'.hmis \cup JobNames(jobs[t])
    /\ \A i \in DeviceIds \ JobNames(jobs[t]) :
          i \in DOMAIN store'.devices <=> i \in DOMAIN store.devices
    /\ \A i \in DOMAIN store.devices :
          i \in DOMAIN store'.devices \/ (At(t, "remove") /\ i = Head(jobs[t]).id)

LEMMA CallFacts ==
    ASSUME HasJobs, NEW t \in Threads, Busy(t), NEW S, NEW steps \in Seq(S),
           jobs'[t] = steps \o Tail(jobs[t])
    PROVE  LET job == jobs[t]
               n == Len(steps)
           IN  /\ n \in Nat /\ Len(job) \in Nat \ {0}
               /\ DOMAIN steps = 1 .. n /\ DOMAIN job = 1 .. Len(job)
               /\ DOMAIN jobs'[t] = 1 .. (n + Len(job) - 1)
               /\ \A k \in 1 .. n : jobs'[t][k] = steps[k]
               /\ \A k \in 2 .. Len(job) : jobs'[t][n + k - 1] = job[k]
<1> DEFINE job == jobs[t]
           rest == Tail(job)
           next == jobs'[t]
           T == S \cup LaterSteps
<1>1. /\ Len(job) \in Nat \ {0} /\ DOMAIN job = 1 .. Len(job)
      /\ rest \in Seq(LaterSteps) /\ Len(rest) = Len(job) - 1
      /\ \A k \in 1 .. (Len(job) - 1) : rest[k] = job[k + 1]
  BY JobShape
<1> HIDE DEF job, rest, T
<1>2. rest \in Seq(T) /\ steps \in Seq(T)
  BY <1>1, SeqMonotonic DEF T
<1>3. next = steps \o rest
  BY DEF rest, job
<1> HIDE DEF next
<1>4. /\ Len(steps) \in Nat /\ DOMAIN steps = 1 .. Len(steps)
      /\ DOMAIN next = 1 .. (Len(steps) + Len(rest))
      /\ \A k \in 1 .. Len(steps) : next[k] = steps[k]
      /\ \A k \in 1 .. Len(rest) : next[Len(steps) + k] = rest[k]
  BY <1>2, <1>3
<1>5. ASSUME NEW k \in 2 .. Len(job) PROVE next[Len(steps) + k - 1] = job[k]
  <2>1. k - 1 \in 1 .. Len(rest) /\ (k - 1) + 1 = k
    BY <1>1
  <2>2. next[Len(steps) + (k - 1)] = rest[k - 1] /\ rest[k - 1] = job[(k - 1) + 1]
    BY <1>1, <1>4, <2>1
  <2>3. Len(steps) + (k - 1) = Len(steps) + k - 1
    BY <1>4, <2>1
  <2> QED
    BY <2>1, <2>2, <2>3
<1> QED
  BY <1>1, <1>4, <1>5 DEF job, next

\* A job that goes on with steps and then with the rest of what it was.
LEMMA CallKeepsJob ==
    ASSUME HasJobs, NEW t \in Threads, Busy(t), NEW S, NEW steps \in Seq(S),
           jobs'[t] = steps \o Tail(jobs[t]),
           \A k \in DOMAIN steps : Names(steps[k]) \subseteq Reach(t),
           \A k \in DOMAIN steps : steps[k].do # "insert_hmi",
           \A k \in DOMAIN steps : RemovesDevice(steps[k]) =>
              \A h \in DOMAIN store'.hmis :
                 store'.hmis[h].device = steps[k].id => GoesBefore(steps, k, h),
           RemovesAny(Head(jobs[t])) =>
              \A h \in Names(Head(jobs[t])) \cap DOMAIN store'.hmis :
                 \E k \in DOMAIN steps : RemovesAny(steps[k]) /\ h \in Names(steps[k])
    PROVE  KeepsJob(t)
<1> DEFINE job == jobs[t]
           next == jobs'[t]
           n == Len(steps)
<1>1. /\ n \in Nat /\ Len(job) \in Nat \ {0}
      /\ DOMAIN steps = 1 .. n /\ DOMAIN job = 1 .. Len(job)
      /\ DOMAIN next = 1 .. (n + Len(job) - 1)
      /\ \A k \in 1 .. n : next[k] = steps[k]
      /\ \A k \in 2 .. Len(job) : next[n + k - 1] = job[k]
  BY CallFacts, SMTT(30)
<1>2. job[1] = Head(job)
  BY JobShape
<1> HIDE DEF job, next, n
<1>3. ASSUME NEW k \in DOMAIN next, ~ k \in 1 .. n
      PROVE  k - n + 1 \in 2 .. Len(job) /\ next[k] = job[k - n + 1]
  <2>1. k - n + 1 \in 2 .. Len(job) /\ n + (k - n + 1) - 1 = k
    BY <1>1, <1>3
  <2> QED
    BY <1>1, <2>1
<1>4. ASSUME NEW k \in DOMAIN next PROVE Names(next[k]) \subseteq Reach(t)
  <2>1. CASE k \in 1 .. n
    BY <1>1, <2>1
  <2>2. CASE ~ k \in 1 .. n
    <3>1. next[k] \in Range(job)
      BY <1>1, <1>3, <2>2 DEF Range
    <3> QED
      BY <3>1 DEF Reach, JobNames, job
  <2> QED
    BY <2>1, <2>2
<1>5. JobNames(next) \subseteq Reach(t)
  BY <1>4 DEF JobNames, Range
<1>6. ASSUME NEW k \in DOMAIN next, RemovesDevice(next[k])
      PROVE  \/ \A h \in DOMAIN store'.hmis :
                   store'.hmis[h].device = next[k].id => GoesBefore(next, k, h)
             \/ \E m \in DOMAIN job :
                   /\ job[m] = next[k]
                   /\ \A h \in DOMAIN store'.hmis : GoesBefore(job, m, h) => GoesBefore(next, k, h)
  <2>1. CASE k \in 1 .. n
    <3>1. next[k] = steps[k] /\ k \in DOMAIN steps
      BY <1>1, <2>1
    <3>2. \A j \in 1 .. (k - 1) : next[j] = steps[j]
      BY <1>1, <2>1
    <3>3. ASSUME NEW h \in DOMAIN store'.hmis, store'.hmis[h].device = next[k].id
          PROVE  GoesBefore(next, k, h)
      <4>1. GoesBefore(steps, k, h)
        BY <1>6, <3>1, <3>3
      <4> QED
        BY <3>2, <4>1 DEF GoesBefore
    <3> QED
      BY <3>3
  <2>2. CASE ~ k \in 1 .. n
    <3> DEFINE m == k - n + 1
    <3>1. m \in 2 .. Len(job) /\ next[k] = job[m]
      BY <1>3, <2>2
    <3>2. ASSUME NEW h \in DOMAIN store'.hmis, NEW j \in 1 .. (m - 1),
                 RemovesAny(job[j]), h \in Names(job[j])
          PROVE  GoesBefore(next, k, h)
      <4>1. CASE j = 1
        <5>1. PICK x \in DOMAIN steps : RemovesAny(steps[x]) /\ h \in Names(steps[x])
          BY <1>2, <3>2, <4>1 DEF job
        <5>2. x \in 1 .. (k - 1) /\ next[x] = steps[x]
          BY <1>1, <2>2, <5>1
        <5> QED
          BY <5>1, <5>2 DEF GoesBefore
      <4>2. CASE j # 1
        <5>1. j \in 2 .. Len(job) /\ n + j - 1 \in 1 .. (k - 1)
          BY <1>1, <3>1, <4>2
        <5>2. next[n + j - 1] = job[j]
          BY <1>1, <5>1
        <5> QED
          BY <3>2, <5>1, <5>2 DEF GoesBefore
      <4> QED
        BY <4>1, <4>2
    <3>3. \A h \in DOMAIN store'.hmis : GoesBefore(job, m, h) => GoesBefore(next, k, h)
      BY <3>2 DEF GoesBefore
    <3>4. m \in DOMAIN job
      BY <1>1, <3>1
    <3> HIDE DEF m
    <3> QED
      BY <3>1, <3>3, <3>4
  <2> QED
    BY <2>1, <2>2
<1>7. ASSUME next # <<>> PROVE Head(next).do # "insert_hmi"
  <2>1. Head(next) = next[1] /\ 1 \in DOMAIN next
    <3>1. next \in Seq(S \cup LaterSteps)
      <4>1. Tail(jobs[t]) \in Seq(LaterSteps)
        BY JobShape
      <4>2. Tail(jobs[t]) \in Seq(S \cup LaterSteps) /\ steps \in Seq(S \cup LaterSteps)
        BY <4>1, SeqMonotonic
      <4> QED
        BY <4>2 DEF next
    <3> QED
      BY <1>7, <3>1
  <2>2. CASE 1 \in 1 .. n
    BY <1>1, <2>1, <2>2
  <2>3. CASE ~ 1 \in 1 .. n
    <3>1. 2 \in 2 .. Len(job) /\ next[1] = job[2]
      BY <1>1, <2>1, <2>3
    <3>2. job[2] \in LaterSteps
      <4>1. /\ Tail(job) \in Seq(LaterSteps) /\ Len(Tail(job)) = Len(job) - 1
            /\ \A k \in 1 .. (Len(job) - 1) : Tail(job)[k] = job[k + 1]
        BY JobShape DEF job
      <4>2. 1 \in 1 .. (Len(job) - 1)
        BY <1>1, <3>1
      <4> QED
        BY <4>1, <4>2
    <3> QED
      BY <2>1, <3>1, <3>2, KindsOfSteps
  <2> QED
    BY <2>2, <2>3
<1> QED
  BY <1>5, <1>6, <1>7 DEF KeepsJob, job, next
LEMMA EndKeepsJob ==
    ASSUME NEW t \in Threads, jobs'[t] = <<>>
    PROVE  KeepsJob(t)
BY DEF KeepsJob, JobNames, Range

LEMMA DeletesKeepJob ==
    ASSUME NEW t \in Threads, NEW ids, ids \subseteq Reach(t), jobs'[t] = DeleteEach(ids)
    PROVE  KeepsJob(t)
<1>1. CASE ids = {}
  BY <1>1, EndKeepsJob DEF DeleteEach
<1>2. CASE ids # {}
  <2> DEFINE s == [do |-> "delete", ids |-> ids]
  <2>1. jobs'[t] = <<s>>
    BY <1>2 DEF DeleteEach
  <2>2. /\ DOMAIN jobs'[t] = {1} /\ jobs'[t][1] = s /\ Head(jobs'[t]) = s
        /\ Range(jobs'[t]) = {s}
    BY <2>1 DEF Range
  <2>3. Names(s) = ids /\ ~ RemovesDevice(s) /\ s.do # "insert_hmi"
    BY DEF Names, RemovesDevice
  <2> HIDE DEF s
  <2>4. JobNames(jobs'[t]) \subseteq Reach(t)
    BY <2>2, <2>3 DEF JobNames
  <2>5. \A k \in DOMAIN jobs'[t] : ~ RemovesDevice(jobs'[t][k])
    BY <2>2, <2>3
  <2> QED
    BY <2>2, <2>3, <2>4, <2>5 DEF KeepsJob
<1> QED
  BY <1>1, <1>2

\* A job that goes on with nothing, a step, a save, or a save and a step.
LEMMA StepKeepsJob ==
    ASSUME HasJobs, NEW t \in Threads, Busy(t),
           NEW s, Names(s) \subseteq Reach(t), s.do \notin {"insert_hmi", "remove", "delete"},
           NEW steps \in {<<>>, <<s>>, Save, Save \o <<s>>}, Call(t, steps),
           RemovesAny(Head(jobs[t])) =>
              Names(Head(jobs[t])) \cap DOMAIN store'.hmis = {}
    PROVE  KeepsJob(t)
<1> DEFINE save == [do |-> "save"]
           S == {s, save}
<1>1. /\ Names(save) = {} /\ save.do = "save"
  BY DEF Names
<1>2. \A x \in S : Names(x) \subseteq Reach(t) /\ x.do \notin {"insert_hmi", "remove", "delete"}
  BY <1>1
<1>3. save \in S /\ s \in S
  OBVIOUS
<1> HIDE DEF save, S
<1>4. steps \in Seq(S)
  <2>1. Save = <<save>>
    BY DEF Save, save
  <2>2. <<save>> \in Seq(S) /\ <<s>> \in Seq(S) /\ <<>> \in Seq(S)
    BY <1>3
  <2>3. <<save>> \o <<s>> \in Seq(S)
    BY <2>2, ConcatProperties
  <2> QED
    BY <2>1, <2>2, <2>3
<1>5. \A k \in DOMAIN steps : steps[k] \in S
  BY <1>4
<1>6. jobs'[t] = steps \o Tail(jobs[t])
  BY DEF Call, Continue, HasJobs
<1>7. \A k \in DOMAIN steps :
         /\ Names(steps[k]) \subseteq Reach(t) /\ steps[k].do # "insert_hmi"
         /\ ~ RemovesDevice(steps[k])
  <2> SUFFICES ASSUME NEW k \in DOMAIN steps
               PROVE  /\ Names(steps[k]) \subseteq Reach(t)
                      /\ steps[k].do \notin {"insert_hmi", "remove"}
    BY DEF RemovesDevice
  <2> QED
    BY <1>2, <1>5
<1> QED
  BY <1>4, <1>6, <1>7, CallKeepsJob

\* A job that only goes on.
LEMMA RestKeepsJob ==
    ASSUME HasJobs, NEW t \in Threads, Busy(t), Call(t, <<>>) \/ Call(t, Save),
           ~ RemovesAny(Head(jobs[t]))
    PROVE  KeepsJob(t)
<1> DEFINE s == [do |-> "save"]
<1>1. Names(s) \subseteq Reach(t) /\ s.do \notin {"insert_hmi", "remove", "delete"}
  BY DEF Names
<1> HIDE DEF s
<1> QED
  BY <1>1, StepKeepsJob

\* What a job's next step names is within reach.
LEMMA HeadIsInReach ==
    ASSUME HasJobs, NEW t \in Threads, Busy(t)
    PROVE  Names(Head(jobs[t])) \subseteq JobNames(jobs[t]) /\ JobNames(jobs[t]) \subseteq Reach(t)
BY JobShape DEF JobNames, Reach

LEMMA SameStoreKeepsStore ==
    ASSUME NEW t \in Threads, store' = store
    PROVE  KeepsStore(t)
BY DEF KeepsStore

LEMMA PidKeepsStore ==
    ASSUME IsFleet(store), NEW t \in Threads, NEW id \in Ids, NEW pid \in Pids \cup {NoPid},
           store' = PutPid(id, pid)
    PROVE  KeepsStore(t)
<1>1. CASE ~ Known(id)
  BY <1>1, SameStoreKeepsStore DEF PutPid
<1>2. CASE Known(id)
  <2> DEFINE entry == [Entry(id) EXCEPT !.pid = pid]
  <2>1. Entry(id) \in EntryOf(Part(id)) /\ id \in DOMAIN store[Part(id)]
    BY <1>2, PartOfId DEF IsFleet, IsRegistry, Known, Entry
  <2>2. entry \in EntryOf(Part(id)) /\ (id \in HmiIds => entry.device = Entry(id).device)
    <3>1. CASE id \in HmiIds
      BY <3>1, <2>1, PartOfId, FleetAssumption DEF EntryOf, HmiEntry
    <3>2. CASE id \in DeviceIds
      BY <3>2, <2>1, PartOfId, FleetAssumption DEF EntryOf, DeviceEntry
    <3> QED
      BY <3>1, <3>2 DEF Ids
  <2> HIDE DEF entry
  <2>3. store' = Put(id, entry)
    BY <1>2 DEF PutPid, entry
  <2>4. /\ store'[Part(id)] = With(store[Part(id)], id, entry)
        /\ \A part \in Parts \ {Part(id)} : store'[part] = store[part]
    BY <2>2, <2>3, PutFacts
  <2>5. \A part \in Parts : DOMAIN store'[part] = DOMAIN store[part]
    BY <2>1, <2>4 DEF With
  <2>6. \A h \in DOMAIN store.hmis : store'.hmis[h].device = store.hmis[h].device
    <3>1. CASE id \in HmiIds
      BY <3>1, <2>2, <2>4, PartOfId DEF With, Entry
    <3>2. CASE id \in DeviceIds
      BY <3>2, <2>4, PartOfId DEF Parts
    <3> QED
      BY <3>1, <3>2 DEF Ids
  <2> QED
    BY <2>5, <2>6 DEF KeepsStore, Parts
<1> QED
  BY <1>1, <1>2

\* What a step does to its job and to the entries.
Keeps(t) == KeepsJob(t) /\ KeepsStore(t)

LEMMA NameOfHead ==
    ASSUME HasJobs, NEW t \in Threads, NEW do, At(t, do),
           do \notin {"delete", "save", "write_devices", "write_hmis"}
    PROVE  LET s == Head(jobs[t])
           IN  /\ Busy(t) /\ s.do = do /\ Names(s) = {s.id}
               /\ s.id \in JobNames(jobs[t]) /\ s.id \in Reach(t)
<1>1. Busy(t) /\ Head(jobs[t]).do = do
  BY DEF At, Busy
<1>2. Names(Head(jobs[t])) = {Head(jobs[t]).id}
  BY <1>1 DEF Names
<1> QED
  BY <1>1, <1>2, HeadIsInReach

LEMMA StartKeeps ==
    ASSUME FleetState, NEW t \in Threads, Start(t)
    PROVE  Keeps(t)
<1> DEFINE id == Head(jobs[t]).id
           s == [do |-> "spawn", id |-> id, entry |-> Entry(id)]
<1>1. /\ HasJobs /\ At(t, "start") /\ Busy(t) /\ id \in Reach(t)
      /\ Head(jobs[t]).do = "start"
  BY NameOfHead DEF Start, FleetState
<1>2. KeepsStore(t)
  BY SameStoreKeepsStore DEF Start
<1>3. ~ RemovesAny(Head(jobs[t]))
  BY <1>1 DEF RemovesAny
<1>4. CASE KeyError(t)
  BY <1>1, <1>2, <1>4, EndKeepsJob DEF KeyError, Continue, HasJobs, Keeps
<1>5. CASE Call(t, <<>>)
  BY <1>1, <1>2, <1>3, <1>5, RestKeepsJob DEF Keeps
<1>6. CASE Call(t, <<s>>)
  <2>1. Names(s) \subseteq Reach(t) /\ s.do = "spawn"
    BY <1>1 DEF Names
  <2> HIDE DEF s
  <2> QED
    BY <1>1, <1>2, <1>3, <1>6, <2>1, StepKeepsJob DEF Keeps
<1> QED
  BY <1>4, <1>5, <1>6 DEF Start

LEMMA SpawnKeeps ==
    ASSUME FleetState, NEW t \in Threads, Spawn(t)
    PROVE  Keeps(t)
<1> DEFINE id == Head(jobs[t]).id
           pid == CHOOSE p \in FreePids : \A q \in FreePids : p <= q
           s == [do |-> "record", id |-> id, pid |-> pid]
<1>1. /\ HasJobs /\ At(t, "spawn") /\ Busy(t) /\ id \in Reach(t)
      /\ Head(jobs[t]).do = "spawn"
  BY NameOfHead DEF Spawn, FleetState
<1>2. KeepsStore(t)
  BY SameStoreKeepsStore DEF Spawn
<1>3. ~ RemovesAny(Head(jobs[t]))
  BY <1>1 DEF RemovesAny
<1>4. CASE Call(t, <<>>)
  BY <1>1, <1>2, <1>3, <1>4, RestKeepsJob DEF Keeps
<1>5. CASE Call(t, <<s>>)
  <2>1. Names(s) \subseteq Reach(t) /\ s.do = "record"
    BY <1>1 DEF Names
  <2> HIDE DEF s
  <2> QED
    BY <1>1, <1>2, <1>3, <1>5, <2>1, StepKeepsJob DEF Keeps
<1> QED
  BY <1>4, <1>5 DEF Spawn

LEMMA RecordKeeps ==
    ASSUME FleetState, NEW t \in Threads, Record(t)
    PROVE  Keeps(t)
<1> DEFINE s == Head(jobs[t])
           next == [s EXCEPT !.do = "confirm"]
<1>1. /\ HasJobs /\ At(t, "record") /\ Busy(t) /\ s.id \in Reach(t) /\ s.do = "record"
      /\ s \in [do : {"record"}, id : Ids, pid : Pids]
  BY NameOfHead, NextOfJob DEF Record, FleetState
<1>2. store' = PutPid(s.id, s.pid) /\ Call(t, Save \o <<next>>)
  BY DEF Record
<1>3. s.id \in Ids /\ s.pid \in Pids \cup {NoPid}
  BY <1>1
<1>4. Names(next) \subseteq Reach(t) /\ next.do = "confirm" /\ ~ RemovesAny(s)
  BY <1>1 DEF Names, RemovesAny
<1> HIDE DEF next
<1>5. KeepsStore(t)
  BY <1>2, <1>3, PidKeepsStore DEF FleetState
<1> QED
  BY <1>1, <1>2, <1>4, <1>5, StepKeepsJob DEF Keeps

LEMMA ConfirmKeeps ==
    ASSUME FleetState, NEW t \in Threads, Confirm(t)
    PROVE  Keeps(t)
<1> DEFINE s == Head(jobs[t])
<1>1. HasJobs /\ At(t, "confirm") /\ Busy(t) /\ s.do = "confirm" /\ s.id \in Ids
  BY NameOfHead, NextOfJob DEF Confirm, FleetState
<1>2. KeepsStore(t)
  BY <1>1, SameStoreKeepsStore, PidKeepsStore DEF Confirm, FleetState
<1>3. KeepsJob(t)
  BY <1>1, RestKeepsJob DEF Confirm, RemovesAny
<1> QED
  BY <1>2, <1>3 DEF Keeps

LEMMA StopKeeps ==
    ASSUME FleetState, NEW t \in Threads, Stop(t)
    PROVE  Keeps(t)
<1> DEFINE id == Head(jobs[t]).id
           s == Step("forget", id)
<1>1. /\ HasJobs /\ At(t, "stop") /\ Busy(t) /\ id \in Reach(t) /\ id \in Ids
      /\ Head(jobs[t]).do = "stop"
  BY NameOfHead, NextOfJob DEF Stop, FleetState
<1>2. KeepsStore(t)
  BY <1>1, SameStoreKeepsStore, PidKeepsStore DEF Stop, FleetState
<1>3. ~ RemovesAny(Head(jobs[t]))
  BY <1>1 DEF RemovesAny
<1>4. CASE KeyError(t)
  BY <1>1, <1>2, <1>4, EndKeepsJob DEF KeyError, Continue, HasJobs, Keeps
<1>5. CASE Call(t, Save)
  BY <1>1, <1>2, <1>3, <1>5, RestKeepsJob DEF Keeps
<1>6. CASE Call(t, <<s>>)
  <2>1. Names(s) \subseteq Reach(t) /\ s.do = "forget"
    BY <1>1 DEF Names, Step
  <2> HIDE DEF s
  <2> QED
    BY <1>1, <1>2, <1>3, <1>6, <2>1, StepKeepsJob DEF Keeps
<1> QED
  BY <1>4, <1>5, <1>6 DEF Stop

LEMMA ForgetKeeps ==
    ASSUME FleetState, NEW t \in Threads, Forget(t)
    PROVE  Keeps(t)
<1> DEFINE s == Head(jobs[t])
<1>1. HasJobs /\ At(t, "forget") /\ Busy(t) /\ s.do = "forget" /\ s.id \in Ids
  BY NameOfHead, NextOfJob DEF Forget, FleetState
<1>2. KeepsStore(t)
  BY <1>1, PidKeepsStore DEF Forget, FleetState
<1>3. KeepsJob(t)
  BY <1>1, RestKeepsJob DEF Forget, RemovesAny
<1> QED
  BY <1>2, <1>3 DEF Keeps

LEMMA CreateKeeps ==
    ASSUME FleetState, NEW t \in Threads, Create(t)
    PROVE  Keeps(t)
<1> DEFINE head == Head(jobs[t])
           s == [head EXCEPT !.do = "insert"]
<1>1. /\ HasJobs /\ At(t, "create") /\ Busy(t) /\ head.id \in Reach(t) /\ head.do = "create"
      /\ head \in [do : {"create"}, id : DeviceIds, target : Targets,
                   facility : {None, "facility"}, autostart : BOOLEAN]
  BY NameOfHead, NextOfJob DEF Create, FleetState
<1>2. KeepsStore(t)
  BY SameStoreKeepsStore DEF Create
<1>3. CASE Continue(t, Rollback(t))
  <2>1. jobs'[t] = Rollback(t)
    BY <1>1, <1>3 DEF Continue, HasJobs
  <2>2. request[t].devices \subseteq Reach(t)
    BY DEF Reach
  <2>3. jobs'[t] = <<>> \/ jobs'[t] = DeleteEach(request[t].devices)
    BY <2>1 DEF Rollback
  <2> QED
    BY <1>2, <2>2, <2>3, EndKeepsJob, DeletesKeepJob DEF Keeps
<1>4. CASE Call(t, <<s>>)
  <2>1. Names(s) \subseteq Reach(t) /\ s.do = "insert" /\ ~ RemovesAny(head)
    BY <1>1 DEF Names, RemovesAny
  <2> HIDE DEF s
  <2> QED
    BY <1>1, <1>2, <1>4, <2>1, StepKeepsJob DEF Keeps
<1> QED
  BY <1>3, <1>4 DEF Create

LEMMA RemoveEntryKeeps ==
    ASSUME FleetState, IsFleet(store'), NEW t \in Threads, RemoveEntry(t)
    PROVE  Keeps(t)
<1> DEFINE id == Head(jobs[t]).id
<1>1. /\ HasJobs /\ At(t, "remove") /\ Busy(t) /\ id \in JobNames(jobs[t]) /\ id \in Ids
      /\ Head(jobs[t]).do = "remove" /\ Names(Head(jobs[t])) = {id}
  BY NameOfHead, NextOfJob DEF RemoveEntry, FleetState
<1>2. CASE ~ Known(id)
  <2>1. KeyError(t) /\ store' = store
    BY <1>2 DEF RemoveEntry
  <2>2. KeepsJob(t)
    BY <1>1, <2>1, EndKeepsJob DEF KeyError, Continue, HasJobs
  <2> QED
    BY <2>1, <2>2, SameStoreKeepsStore DEF Keeps
<1>3. CASE Known(id)
  <2>1. store' = [store EXCEPT ![Part(id)] = Without(@, id)] /\ Call(t, Save)
    BY <1>3 DEF RemoveEntry
  <2>2. /\ store'[Part(id)] = Without(store[Part(id)], id)
        /\ \A part \in Parts \ {Part(id)} : store'[part] = store[part]
    BY <1>1, <2>1, PartOfId DEF FleetState, IsFleet
  <2>3. /\ DOMAIN Without(store[Part(id)], id) = DOMAIN store[Part(id)] \ {id}
        /\ \A x \in DOMAIN store[Part(id)] \ {id} :
              Without(store[Part(id)], id)[x] = store[Part(id)][x]
    BY DEF Without, Restrict
  <2>4. DOMAIN store'.hmis \subseteq HmiIds
    BY DEF IsFleet, IsRegistry, IdsOf, Parts
  <2>5. KeepsStore(t) /\ id \notin DOMAIN store'.hmis
    <3>1. CASE id \in HmiIds
      <4>1. Part(id) = "hmis" /\ id \notin DeviceIds
        BY <3>1, PartOfId, FleetAssumption
      <4>2. store'.devices = store.devices
        BY <2>2, <4>1 DEF Parts
      <4> QED
        BY <1>1, <2>2, <2>3, <4>1, <4>2 DEF KeepsStore
    <3>2. CASE id \in DeviceIds
      <4>1. Part(id) = "devices" /\ id \notin HmiIds
        BY <3>2, PartOfId, FleetAssumption
      <4>2. store'.hmis = store.hmis
        BY <2>2, <4>1 DEF Parts
      <4> QED
        BY <1>1, <2>2, <2>3, <2>4, <4>1, <4>2 DEF KeepsStore
    <3> QED
      BY <1>1, <3>1, <3>2 DEF Ids
  <2> DEFINE s == [do |-> "save"]
  <2>6. Names(s) \subseteq Reach(t) /\ s.do \notin {"insert_hmi", "remove", "delete"}
    BY DEF Names
  <2> HIDE DEF s
  <2>7. Names(Head(jobs[t])) \cap DOMAIN store'.hmis = {}
    BY <1>1, <2>5
  <2>8. KeepsJob(t)
    BY <1>1, <2>1, <2>6, <2>7, StepKeepsJob
  <2> QED
    BY <2>5, <2>8 DEF Keeps
<1> QED
  BY <1>2, <1>3

LEMMA InsertEntryKeeps ==
    ASSUME FleetState, NEW t \in Threads, InsertEntry(t)
    PROVE  Keeps(t)
<1> DEFINE s == Head(jobs[t])
           entry == [target |-> s.target, facility |-> s.facility, pid |-> NoPid]
           start == Step("start", s.id)
<1>1. /\ HasJobs /\ At(t, "insert") /\ Busy(t) /\ s.do = "insert"
      /\ s.id \in JobNames(jobs[t]) /\ s.id \in Reach(t)
      /\ s \in [do : {"insert"}, id : DeviceIds, target : Targets,
                facility : {None, "facility"}, autostart : BOOLEAN]
  BY NameOfHead, NextOfJob DEF InsertEntry, FleetState
<1>2. store' = Put(s.id, entry) /\ Call(t, Save \o IF s.autostart THEN <<start>> ELSE <<>>)
  BY DEF InsertEntry
<1>3. KeepsStore(t)
  <2>1. s.id \in DeviceIds /\ Part(s.id) = "devices"
    BY <1>1, PartOfId
  <2>2. entry \in EntryOf(Part(s.id)) /\ s.id \in Ids
    BY <1>1, <2>1 DEF EntryOf, DeviceEntry, Ids
  <2> HIDE DEF entry
  <2>3. store'.devices = With(store.devices, s.id, entry) /\ store'.hmis = store.hmis
    BY <1>2, <2>1, <2>2, PutFacts DEF FleetState, Parts
  <2>4. DOMAIN store'.devices = DOMAIN store.devices \cup {s.id}
    BY <2>3 DEF With
  <2> QED
    BY <1>1, <2>3, <2>4 DEF KeepsStore
<1>4. Names(start) \subseteq Reach(t) /\ start.do = "start" /\ ~ RemovesAny(s)
  BY <1>1 DEF Names, Step, RemovesAny
<1> HIDE DEF start
<1>5. Save \o <<>> = Save
  BY DEF Save
<1>6. Call(t, Save) \/ Call(t, Save \o <<start>>)
  BY <1>2, <1>5
<1> QED
  BY <1>1, <1>3, <1>4, <1>6, StepKeepsJob DEF Keeps

LEMMA InsertHmiKeeps ==
    ASSUME FleetState, NEW t \in Threads, InsertHmi(t)
    PROVE  Keeps(t)
<1> DEFINE s == Head(jobs[t])
<1>1. /\ HasJobs /\ At(t, "insert_hmi") /\ Busy(t) /\ s.do = "insert_hmi"
      /\ s.id \in JobNames(jobs[t])
      /\ s \in [do : {"insert_hmi"}, id : HmiIds, device : DeviceIds]
  BY NameOfHead, NextOfJob DEF InsertHmi, FleetState, IsHmiInsertion
<1>2. store' = Put(s.id, NewHmi(s.device)) /\ Call(t, <<>>)
  BY DEF InsertHmi
<1>3. KeepsStore(t)
  <2>1. s.id \in HmiIds /\ Part(s.id) = "hmis" /\ s.id \notin DeviceIds
    BY <1>1, PartOfId, FleetAssumption
  <2>2. /\ NewHmi(s.device) \in EntryOf(Part(s.id)) /\ s.id \in Ids
        /\ NewHmi(s.device).device = s.device
    BY <1>1, <2>1 DEF EntryOf, HmiEntry, Ids, NewHmi
  <2>3. store'.hmis = With(store.hmis, s.id, NewHmi(s.device)) /\ store'.devices = store.devices
    BY <1>2, <2>1, <2>2, PutFacts DEF FleetState, Parts
  <2>4. /\ DOMAIN store'.hmis = DOMAIN store.hmis \cup {s.id}
        /\ store'.hmis[s.id].device = s.device
        /\ \A h \in DOMAIN store.hmis \ {s.id} : store'.hmis[h] = store.hmis[h]
    BY <2>2, <2>3 DEF With
  <2> QED
    BY <1>1, <2>3, <2>4 DEF KeepsStore
<1>4. KeepsJob(t)
  BY <1>1, <1>2, RestKeepsJob DEF RemovesAny
<1> QED
  BY <1>3, <1>4 DEF Keeps

LEMMA SavesKeep ==
    ASSUME FleetState, NEW t \in Threads, DumpDevices(t) \/ WriteDevices(t) \/ WriteHmis(t)
    PROVE  Keeps(t)
<1>1. HasJobs /\ Busy(t) /\ ~ RemovesAny(Head(jobs[t]))
  BY DEF FleetState, DumpDevices, WriteDevices, WriteHmis, At, Busy, RemovesAny
<1>2. KeepsStore(t)
  BY SameStoreKeepsStore DEF DumpDevices, WriteDevices, WriteHmis
<1>3. CASE Call(t, <<>>)
  BY <1>1, <1>2, <1>3, RestKeepsJob DEF Keeps
<1>4. ASSUME NEW part \in Parts, Call(t, <<WriteStep(part, Dump(part))>>)
      PROVE  Keeps(t)
  <2> DEFINE s == WriteStep(part, Dump(part))
  <2>1. Names(s) \subseteq Reach(t) /\ s.do \notin {"insert_hmi", "remove", "delete"}
    BY DEF Names, WriteStep, Writing
  <2> HIDE DEF s
  <2> QED
    BY <1>1, <1>2, <1>4, <2>1, StepKeepsJob DEF Keeps, s
<1> QED
  BY <1>3, <1>4 DEF DumpDevices, WriteDevices, WriteHmis, Parts

LEMMA RaisesKeep ==
    ASSUME FleetState, NEW t \in Threads, Raise(t) \/ SaveRaises(t)
    PROVE  Keeps(t)
<1>1. store' = store /\ Continue(t, <<>>)
  BY DEF Raise, SaveRaises
<1>2. jobs'[t] = <<>>
  BY <1>1 DEF Continue, FleetState, HasJobs
<1> QED
  BY <1>1, <1>2, SameStoreKeepsStore, EndKeepsJob DEF Keeps

LEMMA DeleteKeeps ==
    ASSUME FleetState, NEW t \in Threads, Delete(t)
    PROVE  Keeps(t)
<1> DEFINE ids == Head(jobs[t]).ids
<1>1. /\ HasJobs /\ At(t, "delete") /\ Busy(t) /\ ids \in SUBSET Ids
      /\ Head(jobs[t]).do = "delete"
  BY NextOfJob DEF Delete, FleetState, At, Busy
<1>2. store' = store
  BY DEF Delete
<1>3. PICK id \in ids :
        Call(t, (IF Known(id)
                 THEN DeleteEach(IF id \in DeviceIds THEN Attached(id) ELSE {})
                      \o <<Step("stop", id), Step("remove", id)>>
                 ELSE <<>>)
                \o DeleteEach(ids \ {id}))
  BY DEF Delete
<1> DEFINE hmis == IF id \in DeviceIds THEN Attached(id) ELSE {}
           others == ids \ {id}
           first == DeleteEach(hmis)
           stop == Step("stop", id)
           remove == Step("remove", id)
           last == DeleteEach(others)
           own == <<stop, remove>>
           all == first \o own
           steps == (IF Known(id) THEN all ELSE <<>>) \o last
<1>4. Names(Head(jobs[t])) = ids /\ ids \subseteq JobNames(jobs[t]) /\ JobNames(jobs[t]) \subseteq Reach(t)
  BY <1>1, HeadIsInReach DEF Names
<1>5. hmis \subseteq Reach(t) /\ others \subseteq Reach(t) /\ id \in Reach(t)
  BY <1>4 DEF Attached, HmisOf, Reach
<1>6. \A h \in DOMAIN store.hmis : store.hmis[h].device = id => h \in hmis
  <2>1. \A h \in DOMAIN store.hmis : store.hmis[h].device \in DeviceIds
    BY DEF FleetState, IsFleet, IsRegistry, Parts, EntryOf, HmiEntry
  <2> QED
    BY <2>1 DEF Attached, HmisOf
<1> DEFINE one == [do |-> "delete", ids |-> hmis]
           rest == [do |-> "delete", ids |-> others]
           S == {one, stop, remove, rest}
<1>7. /\ Names(one) = hmis /\ Names(rest) = others /\ Names(stop) = {id} /\ Names(remove) = {id}
      /\ one.do = "delete" /\ rest.do = "delete" /\ stop.do = "stop" /\ remove.do = "remove"
      /\ remove.id = id
  BY DEF Names, Step
<1>8. first = (IF hmis = {} THEN <<>> ELSE <<one>>) /\ last = (IF others = {} THEN <<>> ELSE <<rest>>)
  BY DEF DeleteEach
<1>9. Call(t, steps)
  BY <1>3
<1>10. own = <<stop, remove>> /\ all = first \o own
  OBVIOUS
<1>11. jobs'[t] = steps \o Tail(jobs[t])
  BY <1>1, <1>9 DEF Call, Continue, HasJobs
<1>12. hmis = {} \/ hmis # {}
  OBVIOUS
<1>13. Known(id) \/ id \notin DOMAIN store.hmis
  <2>1. id \in DOMAIN store.hmis => id \in HmiIds
    BY DEF FleetState, IsFleet, IsRegistry, Parts, IdsOf
  <2> QED
    BY <2>1, PartOfId DEF Known
<1> HIDE DEF stop, remove, one, rest, hmis, others, first, last, own, all
<1>14. own \in Seq(S) /\ Len(own) = 2 /\ own[1] = stop /\ own[2] = remove
  BY <1>10
<1>15. first \in Seq(S) /\ last \in Seq(S)
  <2>1. one \in S /\ rest \in S
    OBVIOUS
  <2> HIDE DEF S
  <2>2. <<one>> \in Seq(S) /\ <<rest>> \in Seq(S) /\ <<>> \in Seq(S)
    BY <2>1
  <2> QED
    BY <1>8, <2>2
<1>16. /\ Len(last) = (IF others = {} THEN 0 ELSE 1)
       /\ others # {} => last[1] = rest
       /\ Len(first) = (IF hmis = {} THEN 0 ELSE 1)
       /\ hmis # {} => first[1] = one
  BY <1>8
<1> DEFINE n == Len(first)
<1>17. CASE Known(id)
  <2>1. steps = all \o last
    BY <1>17
  <2>2. /\ all \in Seq(S) /\ Len(all) = n + 2
        /\ \A k \in 1 .. n : all[k] = first[k]
        /\ all[n + 1] = stop /\ all[n + 2] = remove
    <3> HIDE DEF S
    <3>1. n \in {0, 1} /\ n \in Nat
      BY <1>16
    <3>2. all \in Seq(S) /\ Len(all) = n + 2
      BY <1>10, <1>14, <1>15, <3>1
    <3>3. all[n + 1] = own[1] /\ all[n + 2] = own[2] /\ \A k \in 1 .. n : all[k] = first[k]
      BY <1>10, <1>14, <1>15, <3>1
    <3> QED
      BY <1>14, <3>2, <3>3
  <2>3. /\ steps \in Seq(S) /\ Len(steps) = n + 2 + Len(last)
        /\ \A k \in 1 .. (n + 2) : steps[k] = all[k]
        /\ others # {} => steps[n + 3] = rest
    <3> HIDE DEF S, steps
    <3>1. n \in {0, 1} /\ n \in Nat /\ Len(last) \in Nat
      BY <1>16
    <3>2. steps \in Seq(S) /\ Len(steps) = n + 2 + Len(last)
      BY <1>15, <2>1, <2>2, <3>1
    <3>3. \A k \in 1 .. (n + 2) : steps[k] = all[k]
      BY <1>15, <2>1, <2>2, <3>1
    <3>4. ASSUME others # {} PROVE steps[n + 3] = rest
      <4>1. Len(last) = 1 /\ last[1] = rest
        BY <1>16, <3>4
      <4>2. steps[Len(all) + 1] = last[1]
        <5>1. Len(all) \in Nat /\ 1 \in 1 .. Len(last)
          BY <2>2, <3>1, <4>1
        <5> QED
          BY <1>15, <2>1, <2>2, <5>1
      <4> QED
        BY <2>2, <3>1, <4>1, <4>2
    <3> QED
      BY <3>2, <3>3, <3>4
  <2> HIDE DEF steps
  <2>4. ASSUME NEW k \in DOMAIN steps
        PROVE  /\ Names(steps[k]) \subseteq Reach(t) /\ steps[k].do # "insert_hmi"
               /\ steps[k].do = "remove" =>
                     steps[k].id = id /\ \A h \in hmis : GoesBefore(steps, k, h)
    <3>1. n \in {0, 1} /\ k \in Nat /\ k >= 1 /\ k <= n + 3 /\ (k = n + 3 => others # {})
      BY <1>16, <2>3
    <3>2. CASE k \in 1 .. n
      <4>1. steps[k] = one
        BY <1>16, <2>2, <2>3, <3>1, <3>2
      <4> QED
        BY <1>5, <1>7, <4>1
    <3>3. CASE k = n + 1
      <4>1. steps[k] = stop
        BY <2>2, <2>3, <3>1, <3>3
      <4> QED
        BY <1>5, <1>7, <4>1
    <3>4. CASE k = n + 2
      <4>1. steps[k] = remove
        BY <2>2, <2>3, <3>1, <3>4
      <4>2. ASSUME NEW h \in hmis PROVE GoesBefore(steps, k, h)
        <5>1. n = 1 /\ first[1] = one
          BY <1>16, <4>2
        <5>2. steps[1] = one /\ 1 \in 1 .. (k - 1)
          BY <2>2, <2>3, <3>4, <5>1
        <5> QED
          BY <1>7, <5>2 DEF GoesBefore, RemovesAny
      <4> QED
        BY <1>5, <1>7, <4>1, <4>2
    <3>5. CASE k = n + 3
      <4>1. steps[k] = rest
        BY <2>3, <3>1, <3>5
      <4> QED
        BY <1>5, <1>7, <4>1
    <3> QED
      BY <3>1, <3>2, <3>3, <3>4, <3>5
  <2>5. ASSUME NEW h \in ids
        PROVE  \E k \in DOMAIN steps : RemovesAny(steps[k]) /\ h \in Names(steps[k])
    <3>1. n \in {0, 1} /\ Len(last) \in Nat
      BY <1>16
    <3>2. CASE h = id
      <4>1. n + 2 \in DOMAIN steps /\ steps[n + 2] = remove
        BY <2>2, <2>3, <3>1
      <4> QED
        BY <1>7, <3>2, <4>1 DEF RemovesAny
    <3>3. CASE h # id
      <4>1. h \in others
        BY <3>3 DEF others
      <4>2. n + 3 \in DOMAIN steps /\ steps[n + 3] = rest
        BY <1>16, <2>3, <3>1, <4>1
      <4> QED
        BY <1>7, <4>1, <4>2 DEF RemovesAny
    <3> QED
      BY <3>2, <3>3
  <2>6. \A k \in DOMAIN steps : RemovesDevice(steps[k]) =>
           \A h \in DOMAIN store'.hmis :
              store'.hmis[h].device = steps[k].id => GoesBefore(steps, k, h)
    BY <1>2, <1>6, <2>4 DEF RemovesDevice
  <2>7. KeepsJob(t)
    <3> HIDE DEF S
    <3> QED
      BY <1>1, <1>4, <1>11, <2>3, <2>4, <2>5, <2>6, CallKeepsJob
  <2> QED
    BY <1>2, <2>7, SameStoreKeepsStore DEF Keeps
<1>18. CASE ~ Known(id)
  <2>1. steps = last
    <3> HIDE DEF S
    <3> QED
      BY <1>15, <1>18
  <2> HIDE DEF steps
  <2>2. \A k \in DOMAIN steps : k = 1 /\ others # {} /\ steps[k] = rest
    BY <1>16, <1>15, <2>1
  <2>3. ASSUME NEW h \in ids \cap DOMAIN store'.hmis
        PROVE  \E k \in DOMAIN steps : RemovesAny(steps[k]) /\ h \in Names(steps[k])
    <3>1. h \in others
      BY <1>2, <1>13, <1>18 DEF others
    <3>2. 1 \in DOMAIN steps /\ steps[1] = rest
      BY <1>15, <1>16, <2>1, <3>1
    <3> QED
      BY <1>7, <3>1, <3>2 DEF RemovesAny
  <2>4. \A k \in DOMAIN steps :
           /\ Names(steps[k]) \subseteq Reach(t) /\ steps[k].do # "insert_hmi"
           /\ ~ RemovesDevice(steps[k])
    BY <1>5, <1>7, <2>2 DEF RemovesDevice
  <2>5. KeepsJob(t)
    <3> HIDE DEF S
    <3> QED
      BY <1>1, <1>4, <1>11, <1>15, <2>1, <2>3, <2>4, CallKeepsJob
  <2> QED
    BY <1>2, <2>5, SameStoreKeepsStore DEF Keeps
<1> QED
  BY <1>17, <1>18

LEMMA WorkKeeps ==
    ASSUME FleetState, IsFleet(store'), NEW t \in Threads, Work(t)
    PROVE  Keeps(t)
BY StartKeeps, SpawnKeeps, RecordKeeps, ConfirmKeeps, StopKeeps, ForgetKeeps, DeleteKeeps,
   RemoveEntryKeeps, CreateKeeps, InsertEntryKeeps, InsertHmiKeeps, SavesKeep, RaisesKeep
   DEF Work

-----------------------------------------------------------------------------
\* Steps keep to their request.

IsStepOf(t) ==
    /\ Keeps(t) /\ Busy(t) /\ suspect' = suspect
    /\ \A u \in Threads \ {t} : jobs'[u] = jobs[u] /\ request'[u] = request[u]
    /\ request'[t] = IF jobs'[t] = <<>> THEN NoRequest ELSE request[t]

LEMMA WorkIsAStep ==
    ASSUME FleetTypes, FleetTypes', NEW t \in Threads, Work(t)
    PROVE  IsStepOf(t)
<1>1. PICK job : Continue(t, job)
  BY DEF Work, DumpDevices, WriteDevices, WriteHmis, Start, Spawn, Record, Confirm, Stop,
         Forget, Delete, RemoveEntry, Create, InsertEntry, InsertHmi, Call, KeyError,
         SaveRaises, Raise
<1>2. Busy(t) /\ suspect' = suspect
  BY DEF Work, DumpDevices, WriteDevices, WriteHmis, Start, Spawn, Record, Confirm, Stop,
         Forget, Delete, RemoveEntry, Create, InsertEntry, InsertHmi, At, Busy,
         SaveRaises, Raise
<1>3. Keeps(t)
  BY WorkKeeps, TypesMakeState DEF FleetTypes
<1>4. DOMAIN jobs = Threads /\ DOMAIN request = Threads
  BY DEF FleetTypes, HasJobs, HasRequests
<1> QED
  BY <1>1, <1>2, <1>3, <1>4 DEF Continue, IsStepOf

\* Jobs name devices and HMIs.
LEMMA NamesAreIds ==
    ASSUME HasJobs, NEW t \in Threads
    PROVE  JobNames(jobs[t]) \subseteq Ids
<1>1. CASE ~ Busy(t)
  BY <1>1 DEF Busy, JobNames, Range
<1>2. CASE Busy(t)
  <2> DEFINE job == jobs[t]
  <2>1. job \in Seq(LaterSteps \cup {Head(job)})
    BY <1>2, JobShape
  <2>2. ASSUME NEW s \in LaterSteps PROVE Names(s) \subseteq Ids
    BY <2>2, KindsOfSteps DEF Names, Ids
  <2>3. Names(Head(job)) \subseteq Ids
    <3>1. At(t, Head(job).do)
      BY <1>2 DEF At, Busy
    <3>2. CASE Head(job) \in LaterSteps
      BY <2>2, <3>2
    <3>3. CASE IsNextStep(Head(job))
      BY <3>3, KindsOfSteps DEF Names, Ids
    <3>4. CASE IsHmiInsertion(job)
      BY <3>4 DEF IsHmiInsertion, Names, Ids
    <3> QED
      BY <3>1, <3>2, <3>3, <3>4, JobFacts
  <2> HIDE DEF job
  <2>4. \A s \in Range(job) : Names(s) \subseteq Ids
    <3>1. \A s \in Range(job) : s \in LaterSteps \cup {Head(job)}
      BY <2>1 DEF Range
    <3> QED
      BY <2>2, <2>3, <3>1
  <2> QED
    BY <2>4 DEF JobNames, job
<1> QED
  BY <1>1, <1>2

LEMMA NamesOfStep ==
    ASSUME HasJobs, NEW t \in Threads, NEW k \in DOMAIN jobs[t], RemovesDevice(jobs[t][k])
    PROVE  jobs[t][k].id \in JobNames(jobs[t]) /\ Busy(t)
<1>1. jobs[t][k] \in Range(jobs[t])
  BY DEF Range
<1>2. Names(jobs[t][k]) = {jobs[t][k].id}
  BY DEF Names, RemovesDevice
<1> QED
  BY <1>1, <1>2 DEF JobNames, Busy

\* An HMI in the store is an HMI of a device.
LEMMA HmisInStore ==
    ASSUME IsFleet(store)
    PROVE  /\ DOMAIN store.hmis \subseteq HmiIds /\ DOMAIN store.devices \subseteq DeviceIds
           /\ \A h \in DOMAIN store.hmis :
                 store.hmis[h] \in HmiEntry /\ store.hmis[h].device \in DeviceIds
BY DEF IsFleet, IsRegistry, Parts, IdsOf, EntryOf, HmiEntry

LEMMA StepsStayWithin ==
    ASSUME FleetTypes, FleetTypes', JobsKeepOrder, NEW t \in Threads, IsStepOf(t)
    PROVE  StepsAreWithin'
<1>1. /\ KeepsJob(t) /\ KeepsStore(t)
      /\ \A u \in Threads \ {t} : jobs'[u] = jobs[u] /\ request'[u] = request[u]
      /\ request'[t] = IF jobs'[t] = <<>> THEN NoRequest ELSE request[t]
  BY DEF IsStepOf, Keeps
<1>2. StepsAreWithin /\ InsertionsFit
  BY DEF JobsKeepOrder
<1>3. ASSUME NEW u \in Threads \ {t}, NEW id \in JobNames(jobs'[u])
      PROVE  Within(u, id)'
  <2>1. id \in JobNames(jobs[u]) /\ Within(u, id) /\ request'[u] = request[u]
    BY <1>1, <1>2, <1>3 DEF StepsAreWithin
  <2>2. CASE id \notin HmiIds
    BY <2>1, <2>2 DEF Within
  <2>3. CASE id \in HmiIds /\ id \in DOMAIN store'.hmis
    <3>1. id \in DOMAIN store.hmis /\ store'.hmis[id].device = store.hmis[id].device
      BY <1>1, <1>2, <1>3, <2>1, <2>3 DEF KeepsStore, InsertionsFit
    <3> QED
      BY <2>1, <2>3, <3>1 DEF Within
  <2>4. CASE id \in HmiIds /\ id \notin DOMAIN store'.hmis
    BY <2>4 DEF Within
  <2> QED
    BY <2>2, <2>3, <2>4
<1>4. ASSUME NEW id \in JobNames(jobs'[t])
      PROVE  Within(t, id)'
  <2>1. request'[t] = request[t]
    <3>1. jobs'[t] # <<>>
      BY <1>4 DEF JobNames, Range
    <3> QED
      BY <1>1, <3>1
  <2>2. id \in Reach(t)
    BY <1>1, <1>4 DEF KeepsJob
  <2>3. CASE id \notin HmiIds
    <3>1. id \notin DOMAIN store.hmis
      BY <2>3, HmisInStore DEF FleetTypes
    <3>2. id \in JobNames(jobs[t]) \/ id \in request[t].devices
      BY <2>2, <3>1 DEF Reach
    <3>3. id \in request[t].devices
      BY <1>2, <2>3, <3>2 DEF StepsAreWithin, Within
    <3> QED
      BY <2>1, <2>3, <3>3 DEF Within
  <2>4. CASE id \in HmiIds /\ id \in DOMAIN store'.hmis
    <3>1. CASE At(t, "insert_hmi") /\ id = Head(jobs[t]).id
                  /\ store'.hmis[id].device = Head(jobs[t]).device
      <4>1. store'.hmis[id].device \in request[t].devices
        BY <1>2, <3>1 DEF InsertionsFit
      <4> QED
        BY <2>1, <2>4, <4>1 DEF Within
    <3>2. CASE id \in DOMAIN store.hmis /\ store'.hmis[id].device = store.hmis[id].device
      <4>1. id \notin request[t].devices
        <5>1. request[t].devices \subseteq DeviceIds
          BY DEF FleetTypes, HasRequests
        <5> QED
          BY <2>4, <5>1, FleetAssumption
      <4>2. id \in JobNames(jobs[t]) \/ store.hmis[id].device \in JobNames(jobs[t])
        BY <2>2, <4>1 DEF Reach
      <4>3. store.hmis[id].device \in DeviceIds /\ store.hmis[id].device \notin HmiIds
        BY <3>2, HmisInStore, FleetAssumption DEF FleetTypes
      <4>4. store.hmis[id].device \in request[t].devices
        BY <1>2, <2>4, <3>2, <4>2, <4>3 DEF StepsAreWithin, Within
      <4> QED
        BY <2>1, <2>4, <3>2, <4>4 DEF Within
    <3> QED
      BY <1>1, <2>4, <3>1, <3>2 DEF KeepsStore
  <2>5. CASE id \in HmiIds /\ id \notin DOMAIN store'.hmis
    BY <2>5 DEF Within
  <2> QED
    BY <2>3, <2>4, <2>5
<1> QED
  BY <1>3, <1>4 DEF StepsAreWithin

\* Two requests that name one device, outside suspect, are one.
LEMMA NamedByOne ==
    ASSUME JobsKeepOrder, NEW t \in Threads, NEW u \in Threads, t # u,
           NEW i \in DeviceIds \ suspect, i \in JobNames(jobs[t]) \/ i \in request[t].devices
    PROVE  i \notin JobNames(jobs[u]) /\ i \notin request[u].devices
<1>1. i \notin HmiIds
  BY FleetAssumption
<1>2. \A v \in Threads : i \in JobNames(jobs[v]) => i \in request[v].devices
  BY <1>1 DEF JobsKeepOrder, StepsAreWithin, Within
<1> QED
  BY <1>2 DEF JobsKeepOrder, RequestsOverlap

LEMMA InsertionsStayFit ==
    ASSUME FleetTypes, FleetTypes', JobsKeepOrder, NEW t \in Threads, IsStepOf(t)
    PROVE  InsertionsFit'
<1>1. /\ KeepsJob(t) /\ KeepsStore(t) /\ suspect' = suspect
      /\ \A u \in Threads \ {t} : jobs'[u] = jobs[u] /\ request'[u] = request[u]
  BY DEF IsStepOf, Keeps
<1>2. ~ At(t, "insert_hmi")'
  BY <1>1 DEF KeepsJob, At
<1>3. ASSUME NEW u \in Threads, At(u, "insert_hmi")'
      PROVE  LET s == Head(jobs'[u])
             IN  /\ s.device \in request'[u].devices
                 /\ s.device \in DOMAIN store'.devices \cup suspect'
                 /\ s.id \notin DOMAIN store'.hmis
                 /\ \A v \in Threads \ {u} : s.id \notin JobNames(jobs'[v])
  <2> DEFINE s == Head(jobs[u])
  <2>1. u # t /\ At(u, "insert_hmi") /\ Head(jobs'[u]) = s /\ request'[u] = request[u]
    BY <1>1, <1>2, <1>3 DEF At
  <2>2. /\ s.device \in request[u].devices
        /\ s.device \in DOMAIN store.devices \cup suspect
        /\ s.id \notin DOMAIN store.hmis
        /\ \A v \in Threads \ {u} : s.id \notin JobNames(jobs[v])
    BY <2>1 DEF JobsKeepOrder, InsertionsFit
  <2>3. s.device \in DeviceIds /\ s.id \in HmiIds
    BY <2>1, NextOfJob DEF FleetTypes, IsHmiInsertion
  <2> HIDE DEF s
  <2>4. s.device \in DOMAIN store'.devices \cup suspect'
    <3>1. ASSUME At(t, "remove"), s.device = Head(jobs[t]).id PROVE s.device \in suspect
      <4>1. s.device \in JobNames(jobs[t])
        BY <3>1, NameOfHead DEF FleetTypes
      <4> QED
        BY <2>1, <2>2, <2>3, <4>1, NamedByOne
    <3> QED
      BY <1>1, <2>2, <3>1 DEF KeepsStore
  <2>5. s.id \notin DOMAIN store'.hmis
    <3>1. ASSUME At(t, "insert_hmi") PROVE Head(jobs[t]).id \in JobNames(jobs[t])
      BY <3>1, NameOfHead DEF FleetTypes
    <3> QED
      BY <1>1, <2>1, <2>2, <3>1 DEF KeepsStore
  <2>6. s.id \notin JobNames(jobs'[t])
    <3>1. s.id \notin request[t].devices
      BY <2>3, FleetAssumption DEF FleetTypes, HasRequests
    <3> QED
      BY <1>1, <2>1, <2>2, <3>1 DEF KeepsJob, Reach
  <2> QED
    BY <1>1, <2>1, <2>2, <2>4, <2>5, <2>6
<1> QED
  BY <1>3 DEF InsertionsFit

LEMMA RequestsStillOverlap ==
    ASSUME FleetTypes, JobsKeepOrder, NEW t \in Threads, IsStepOf(t)
    PROVE  RequestsOverlap'
<1>1. \A u \in Threads : request'[u] = request[u] \/ request'[u].devices = {}
  BY DEF IsStepOf, NoRequest
<1> QED
  BY <1>1 DEF JobsKeepOrder, RequestsOverlap, IsStepOf

LEMMA HmisStillGoFirst ==
    ASSUME FleetTypes, FleetTypes', JobsKeepOrder, NEW t \in Threads, IsStepOf(t)
    PROVE  HmisGoFirst'
<1>1. /\ KeepsJob(t) /\ KeepsStore(t) /\ suspect' = suspect
      /\ \A u \in Threads \ {t} : jobs'[u] = jobs[u] /\ request'[u] = request[u]
  BY DEF IsStepOf, Keeps
<1>2. HmisGoFirst /\ InsertionsFit
  BY DEF JobsKeepOrder
<1>3. ASSUME NEW u \in Threads, NEW k \in DOMAIN jobs[u], RemovesDevice(jobs[u][k]),
             jobs[u][k].id \notin suspect, NEW h \in DOMAIN store'.hmis,
             store'.hmis[h].device = jobs[u][k].id, u # t \/ ~ At(t, "insert_hmi")
      PROVE  GoesBefore(jobs[u], k, h)
  <2> DEFINE i == jobs[u][k].id
  <2>1. i \in DeviceIds \ suspect /\ i \in JobNames(jobs[u])
    BY <1>3, NamesOfStep DEF RemovesDevice, FleetTypes
  <2>2. h \in DOMAIN store.hmis /\ store.hmis[h].device = i
    <3>1. ASSUME At(t, "insert_hmi"), i = Head(jobs[t]).device PROVE FALSE
      <4>1. i \in request[t].devices /\ u # t
        BY <1>2, <1>3, <3>1 DEF InsertionsFit
      <4> QED
        BY <2>1, <4>1, NamedByOne
    <3> QED
      BY <1>1, <1>3, <3>1 DEF KeepsStore
  <2> QED
    BY <1>2, <1>3, <2>2 DEF HmisGoFirst, HmisOf
<1>4. ASSUME NEW k \in DOMAIN jobs'[t], RemovesDevice(jobs'[t][k]),
             jobs'[t][k].id \notin suspect, NEW h \in DOMAIN store'.hmis,
             store'.hmis[h].device = jobs'[t][k].id
      PROVE  GoesBefore(jobs'[t], k, h)
  <2>1. CASE GoesBefore(jobs'[t], k, h)
    BY <2>1
  <2>2. ASSUME NEW n \in DOMAIN jobs[t], jobs[t][n] = jobs'[t][k],
               GoesBefore(jobs[t], n, h) => GoesBefore(jobs'[t], k, h)
        PROVE  GoesBefore(jobs'[t], k, h)
    <3>1. ~ At(t, "insert_hmi")
      <4>1. SUFFICES ASSUME At(t, "insert_hmi") PROVE FALSE
        OBVIOUS
      <4>2. /\ Busy(t) /\ Head(jobs[t]).do = "insert_hmi"
            /\ IsHmiInsertion(jobs[t])
        BY <4>1, NextOfJob DEF FleetTypes, At, Busy
      <4>3. Tail(jobs[t]) = Save \o <<Step("start", Head(jobs[t]).id)>> /\ Head(jobs[t]).id \in HmiIds
        BY <4>2 DEF IsHmiInsertion
      <4> DEFINE rest == Save \o <<Step("start", Head(jobs[t]).id)>>
      <4>4. DOMAIN rest = {1, 2} /\ rest[1].do = "save" /\ rest[2].do = "start"
        BY <4>3, HmiStartsAfterSaving DEF Step
      <4> HIDE DEF rest
      <4>5. /\ DOMAIN jobs[t] = 1 .. Len(jobs[t]) /\ Len(jobs[t]) \in Nat \ {0}
            /\ jobs[t][1] = Head(jobs[t])
            /\ rest \in Seq(LaterSteps) /\ Len(rest) = Len(jobs[t]) - 1
            /\ \A x \in 1 .. (Len(jobs[t]) - 1) : rest[x] = jobs[t][x + 1]
        BY <4>2, <4>3, JobShape DEF rest, FleetTypes
      <4>6. CASE n = 1
        BY <2>2, <1>4, <4>2, <4>5, <4>6 DEF RemovesDevice
      <4>7. CASE n # 1
        <5>1. n - 1 \in DOMAIN rest /\ (n - 1) + 1 = n /\ n - 1 \in 1 .. (Len(jobs[t]) - 1)
          BY <4>5, <4>7
        <5>2. rest[n - 1] = jobs[t][n]
          BY <4>5, <5>1
        <5>3. jobs[t][n].do \in {"save", "start"}
          BY <4>4, <5>1, <5>2
        <5> QED
          BY <1>4, <2>2, <5>3 DEF RemovesDevice
      <4> QED
        BY <4>6, <4>7
    <3> QED
      BY <1>3, <1>4, <2>2, <3>1
  <2> QED
    BY <1>1, <1>4, <2>1, <2>2 DEF KeepsJob
<1>5. ASSUME NEW u \in Threads, NEW k \in DOMAIN jobs'[u], RemovesDevice(jobs'[u][k]),
             jobs'[u][k].id \notin suspect', NEW h \in DOMAIN store'.hmis,
             store'.hmis[h].device = jobs'[u][k].id
      PROVE  GoesBefore(jobs'[u], k, h)
  BY <1>1, <1>3, <1>4, <1>5
<1> QED
  BY <1>5 DEF HmisGoFirst, HmisOf, GoesBefore, RemovesDevice

LEMMA DevicesOutliveHmis ==
    ASSUME FleetTypes, JobsKeepOrder, HmisHaveTheirDevice, NEW t \in Threads, IsStepOf(t)
    PROVE  HmisHaveTheirDevice'
<1> SUFFICES ASSUME NEW h \in DOMAIN store'.hmis
             PROVE  store'.hmis[h].device \in DOMAIN store'.devices \cup suspect'
  BY DEF HmisHaveTheirDevice
<1> DEFINE i == store'.hmis[h].device
<1>1. KeepsStore(t) /\ suspect' = suspect
  BY DEF IsStepOf, Keeps
<1>2. CASE At(t, "insert_hmi") /\ h = Head(jobs[t]).id /\ i = Head(jobs[t]).device
  <2>1. i \in DOMAIN store.devices \cup suspect
    BY <1>2 DEF JobsKeepOrder, InsertionsFit
  <2>2. ~ At(t, "remove")
    BY <1>2 DEF At
  <2> QED
    BY <1>1, <2>1, <2>2 DEF KeepsStore
<1>3. CASE h \in DOMAIN store.hmis /\ i = store.hmis[h].device
  <2>1. i \in DOMAIN store.devices \cup suspect
    BY <1>3 DEF HmisHaveTheirDevice
  <2>2. ASSUME At(t, "remove"), i = Head(jobs[t]).id PROVE i \in suspect
    <3>1. i \in DeviceIds
      BY <1>3, HmisInStore DEF FleetTypes
    <3>2. /\ Len(jobs[t]) \in Nat \ {0} /\ DOMAIN jobs[t] = 1 .. Len(jobs[t])
          /\ jobs[t][1] = Head(jobs[t])
      BY <2>2, JobShape DEF At, Busy, FleetTypes
    <3>3. 1 \in DOMAIN jobs[t] /\ RemovesDevice(jobs[t][1]) /\ jobs[t][1].id = i
      BY <2>2, <3>1, <3>2 DEF RemovesDevice, At
    <3>4. h \in HmisOf(i)
      BY <1>3 DEF HmisOf
    <3>5. ~ GoesBefore(jobs[t], 1, h)
      BY DEF GoesBefore
    <3> QED
      BY <3>3, <3>4, <3>5 DEF JobsKeepOrder, HmisGoFirst
  <2> QED
    BY <1>1, <2>1, <2>2 DEF KeepsStore
<1> QED
  BY <1>1, <1>2, <1>3 DEF KeepsStore

-----------------------------------------------------------------------------
\* What a step does to the entries.

\* Every entry but one is as it was.
KeepsEntries(x) ==
    \A id \in Ids \ {x} :
        /\ id \in DOMAIN store'[Part(id)] <=> id \in DOMAIN store[Part(id)]
        /\ id \in DOMAIN store[Part(id)] => store'[Part(id)][id] = store[Part(id)][id]

LEMMA SameStoreKeepsEntries ==
    ASSUME store' = store, NEW x
    PROVE  KeepsEntries(x)
BY DEF KeepsEntries

LEMMA PutKeepsEntries ==
    ASSUME IsFleet(store), NEW id \in Ids, NEW entry \in EntryOf(Part(id)),
           store' = Put(id, entry)
    PROVE  KeepsEntries(id) /\ id \in DOMAIN store'[Part(id)] /\ store'[Part(id)][id] = entry
<1>1. /\ store'[Part(id)] = With(store[Part(id)], id, entry)
      /\ \A part \in Parts \ {Part(id)} : store'[part] = store[part]
  BY PutFacts
<1>2. \A x \in Ids : Part(x) \in Parts
  BY PartOfId
<1>3. ASSUME NEW x \in Ids \ {id}
      PROVE  /\ x \in DOMAIN store'[Part(x)] <=> x \in DOMAIN store[Part(x)]
             /\ x \in DOMAIN store[Part(x)] => store'[Part(x)][x] = store[Part(x)][x]
  <2>1. CASE Part(x) = Part(id)
    BY <1>1, <2>1 DEF With
  <2>2. CASE Part(x) # Part(id)
    BY <1>1, <1>2, <2>2
  <2> QED
    BY <2>1, <2>2
<1> QED
  BY <1>1, <1>3 DEF KeepsEntries, With

LEMMA PutPidKeepsEntries ==
    ASSUME IsFleet(store), NEW id \in Ids, NEW pid \in Pids \cup {NoPid},
           store' = PutPid(id, pid)
    PROVE  /\ KeepsEntries(id)
           /\ Known(id) <=> id \in DOMAIN store'[Part(id)]
           /\ Known(id) => /\ store'[Part(id)][id].pid = pid
                           /\ id \in HmiIds =>
                                 store'[Part(id)][id].device = store[Part(id)][id].device
<1>1. CASE ~ Known(id)
  BY <1>1, SameStoreKeepsEntries DEF PutPid, Known
<1>2. CASE Known(id)
  <2> DEFINE entry == [Entry(id) EXCEPT !.pid = pid]
  <2>1. Entry(id) \in EntryOf(Part(id)) /\ id \in DOMAIN store[Part(id)]
    BY <1>2, PartOfId DEF IsFleet, IsRegistry, Known, Entry
  <2>2. /\ entry \in EntryOf(Part(id)) /\ entry.pid = pid
        /\ id \in HmiIds => entry.device = Entry(id).device
    <3>1. CASE id \in HmiIds
      BY <3>1, <2>1, PartOfId, FleetAssumption DEF EntryOf, HmiEntry
    <3>2. CASE id \in DeviceIds
      BY <3>2, <2>1, PartOfId, FleetAssumption DEF EntryOf, DeviceEntry
    <3> QED
      BY <3>1, <3>2 DEF Ids
  <2> HIDE DEF entry
  <2>3. store' = Put(id, entry)
    BY <1>2 DEF PutPid, entry
  <2>4. KeepsEntries(id) /\ id \in DOMAIN store'[Part(id)] /\ store'[Part(id)][id] = entry
    BY <2>2, <2>3, PutKeepsEntries
  <2> QED
    BY <1>2, <2>2, <2>4 DEF Entry
<1> QED
  BY <1>1, <1>2

LEMMA RemovalKeepsEntries ==
    ASSUME IsFleet(store), NEW id \in Ids,
           store' = [store EXCEPT ![Part(id)] = Without(@, id)]
    PROVE  KeepsEntries(id)
<1>1. /\ store'[Part(id)] = Without(store[Part(id)], id)
      /\ \A part \in Parts \ {Part(id)} : store'[part] = store[part]
  BY PartOfId DEF IsFleet
<1>2. \A x \in Ids : Part(x) \in Parts
  BY PartOfId
<1>3. ASSUME NEW x \in Ids \ {id}
      PROVE  /\ x \in DOMAIN store'[Part(x)] <=> x \in DOMAIN store[Part(x)]
             /\ x \in DOMAIN store[Part(x)] => store'[Part(x)][x] = store[Part(x)][x]
  <2>1. CASE Part(x) = Part(id)
    BY <1>1, <2>1 DEF Without, Restrict
  <2>2. CASE Part(x) # Part(id)
    BY <1>1, <1>2, <2>2
  <2> QED
    BY <2>1, <2>2
<1> QED
  BY <1>3 DEF KeepsEntries

\* A step changes at most one entry, one that its job names.
LEMMA WorkKeepsEntries ==
    ASSUME FleetTypes, NEW t \in Threads, Work(t)
    PROVE  \E x : KeepsEntries(x) /\ (store' = store \/ x \in JobNames(jobs[t]))
<1> DEFINE s == Head(jobs[t])
           kept == \E x : KeepsEntries(x) /\ (store' = store \/ x \in JobNames(jobs[t]))
<1>1. ASSUME store' = store PROVE kept
  BY <1>1, SameStoreKeepsEntries
<1>2. ASSUME NEW do \in {"record", "confirm", "stop", "forget"}, At(t, do),
             NEW pid \in Pids \cup {NoPid}, store' = PutPid(s.id, pid)
      PROVE  kept
  <2>1. s.id \in Ids /\ s.id \in JobNames(jobs[t])
    BY <1>2, NextOfJob, NameOfHead DEF FleetTypes
  <2> QED
    BY <1>2, <2>1, PutPidKeepsEntries DEF FleetTypes
<1>3. ASSUME RemoveEntry(t) PROVE kept
  <2>1. s.id \in Ids /\ s.id \in JobNames(jobs[t])
    BY <1>3, NextOfJob, NameOfHead DEF FleetTypes, RemoveEntry
  <2> QED
    BY <1>1, <1>3, <2>1, RemovalKeepsEntries DEF FleetTypes, RemoveEntry
<1>4. ASSUME InsertEntry(t) PROVE kept
  <2> DEFINE entry == [target |-> s.target, facility |-> s.facility, pid |-> NoPid]
  <2>1. /\ s.id \in Ids /\ s.id \in JobNames(jobs[t])
        /\ s \in [do : {"insert"}, id : DeviceIds, target : Targets,
                  facility : {None, "facility"}, autostart : BOOLEAN]
    BY <1>4, NextOfJob, NameOfHead DEF FleetTypes, InsertEntry, Ids
  <2>2. entry \in EntryOf(Part(s.id)) /\ store' = Put(s.id, entry)
    BY <1>4, <2>1, PartOfId, FleetAssumption DEF EntryOf, DeviceEntry, InsertEntry
  <2> HIDE DEF entry
  <2> QED
    BY <2>1, <2>2, PutKeepsEntries DEF FleetTypes
<1>5. ASSUME InsertHmi(t) PROVE kept
  <2>1. /\ s.id \in Ids /\ s.id \in JobNames(jobs[t])
        /\ s \in [do : {"insert_hmi"}, id : HmiIds, device : DeviceIds]
    BY <1>5, NextOfJob, NameOfHead DEF FleetTypes, InsertHmi, IsHmiInsertion, Ids
  <2>2. NewHmi(s.device) \in EntryOf(Part(s.id)) /\ store' = Put(s.id, NewHmi(s.device))
    BY <1>5, <2>1, PartOfId DEF EntryOf, HmiEntry, NewHmi, InsertHmi
  <2> QED
    BY <2>1, <2>2, PutKeepsEntries DEF FleetTypes
<1>6. ASSUME Record(t) PROVE kept
  <2>1. At(t, "record") /\ s.pid \in Pids /\ store' = PutPid(s.id, s.pid)
    BY <1>6, NextOfJob DEF FleetTypes, Record
  <2> QED
    BY <1>2, <2>1
<1>7. CASE Confirm(t) \/ Stop(t) \/ Forget(t)
  BY <1>1, <1>2, <1>7 DEF Confirm, Stop, Forget
<1>8. CASE DumpDevices(t) \/ WriteDevices(t) \/ WriteHmis(t) \/ Start(t) \/ Spawn(t)
           \/ Delete(t) \/ Create(t) \/ SaveRaises(t) \/ Raise(t)
  BY <1>1, <1>8 DEF DumpDevices, WriteDevices, WriteHmis, Start, Spawn, Delete, Create,
                    SaveRaises, Raise
<1> QED
  BY <1>3, <1>4, <1>5, <1>6, <1>7, <1>8 DEF Work

-----------------------------------------------------------------------------
\* The files keep up with what requests changed.

\* The entries about a device are as they were.
LeftAlone(part, i) ==
    /\ About(part, store'[part], i) = About(part, store[part], i)
    /\ \A id \in About(part, store[part], i) : store'[part][id] = store[part][id]

LEMMA StepsLeaveAlone ==
    ASSUME FleetTypes, FleetTypes', JobsKeepOrder, NEW t \in Threads, IsStepOf(t),
           NEW x, KeepsEntries(x), store' = store \/ x \in JobNames(jobs[t]),
           NEW part \in Parts, NEW i \in DeviceIds \ request[t].devices
    PROVE  LeftAlone(part, i)
<1>1. KeepsStore(t) /\ StepsAreWithin /\ InsertionsFit
  BY DEF IsStepOf, Keeps, JobsKeepOrder
<1>2. i \notin JobNames(jobs[t])
  BY <1>1, FleetAssumption DEF StepsAreWithin, Within
<1>3. CASE part = "devices"
  <2>1. About(part, store'[part], i) = About(part, store[part], i)
    BY <1>1, <1>2, <1>3 DEF KeepsStore, About
  <2>2. ASSUME NEW id \in About(part, store[part], i) PROVE store'[part][id] = store[part][id]
    <3>1. id = i /\ i \in DOMAIN store.devices /\ Part(i) = "devices"
      BY <1>3, <2>2, PartOfId DEF About
    <3>2. store' = store \/ i # x
      BY <1>2
    <3> QED
      BY <1>3, <3>1, <3>2 DEF KeepsEntries, Ids
  <2> QED
    BY <2>1, <2>2 DEF LeftAlone
<1>4. CASE part = "hmis"
  <2>1. ASSUME NEW h \in DOMAIN store'.hmis, store'.hmis[h].device = i
        PROVE  h \in DOMAIN store.hmis /\ store.hmis[h].device = i
    BY <1>1, <2>1 DEF KeepsStore, InsertionsFit
  <2>2. ASSUME NEW h \in DOMAIN store.hmis, store.hmis[h].device = i
        PROVE  h \in DOMAIN store'.hmis /\ store'.hmis[h].device = i
    <3>1. h \in HmiIds
      BY HmisInStore DEF FleetTypes
    <3>2. h \notin JobNames(jobs[t])
      BY <1>1, <2>2, <3>1 DEF StepsAreWithin, Within
    <3>3. h \in DOMAIN store'.hmis
      BY <1>1, <3>2 DEF KeepsStore
    <3>4. ~ (At(t, "insert_hmi") /\ h = Head(jobs[t]).id)
      BY <1>1, <2>2 DEF InsertionsFit
    <3> QED
      BY <1>1, <2>2, <3>3, <3>4 DEF KeepsStore
  <2>3. About(part, store'[part], i) = About(part, store[part], i)
    BY <1>4, <2>1, <2>2 DEF About
  <2>4. ASSUME NEW id \in About(part, store[part], i) PROVE store'[part][id] = store[part][id]
    <3>1. /\ id \in DOMAIN store.hmis /\ store.hmis[id].device = i
          /\ id \in HmiIds /\ Part(id) = "hmis"
      BY <1>4, <2>4, HmisInStore, PartOfId DEF About, FleetTypes
    <3>2. id \notin JobNames(jobs[t])
      BY <1>1, <3>1 DEF StepsAreWithin, Within
    <3>3. store' = store \/ id # x
      BY <3>2
    <3> QED
      BY <1>4, <3>1, <3>3 DEF KeepsEntries, Ids
  <2> QED
    BY <2>3, <2>4 DEF LeftAlone
<1> QED
  BY <1>3, <1>4 DEF Parts

\* No process comes to life under a pid that is recorded somewhere.
NoRecordedRevives == \A p \in LivePids' : p \in LivePids \/ p \notin Recorded

LEMMA StillSame ==
    ASSUME NoRecordedRevives, NEW part \in Parts, NEW i, NEW f, LeftAlone(part, i),
           \A id \in About(part, f, i) : f[id].pid \in Recorded,
           \A id \in About(part, store[part], i) : store[part][id].pid \in Recorded,
           SameAbout(LivePids, part, f, store[part], i)
    PROVE  SameAbout(LivePids', part, f, store'[part], i)
BY DEF SameAbout, LeftAlone, NoRecordedRevives

\* Steps other than those of a save.
LEMMA QuietStepsKeepUp ==
    ASSUME FleetTypes, NEW part \in Parts, NEW i \in DeviceIds, KeepsUp(part, i),
           NEW movers \in SUBSET Threads,
           \A u \in Threads \ movers : jobs'[u] = jobs[u] /\ request'[u] = request[u],
           \A u \in movers :
              /\ ~ At(u, "save") /\ ~ At(u, "write_devices") /\ ~ At(u, "write_hmis")
              /\ jobs'[u] = <<>> \/ Head(jobs'[u]).do \notin {"write_devices", "write_hmis"},
           \/ LeftAlone(part, i)
           \/ \E u \in movers : /\ jobs'[u] # <<>> /\ Head(jobs'[u]).do = "save"
                                /\ i \in request'[u].devices,
           NoRecordedRevives, UNCHANGED <<files, raced>>
    PROVE  KeepsUp(part, i)'
<1>1. Pending(part)' = Pending(part) /\ Pending(part) \cap movers = {}
  <2>1. \A u \in Threads : At(u, Writing(part))' <=> At(u, Writing(part))
    BY DEF At, Writing
  <2> QED
    BY <2>1 DEF Pending, At, Writing
<1>2. CASE \E u \in Threads : i \in request[u].devices /\ DumpsSoon(part, u)
  <2>1. PICK u \in Threads : i \in request[u].devices /\ DumpsSoon(part, u)
    BY <1>2
  <2>2. u \notin movers
    BY <2>1 DEF DumpsSoon
  <2>3. i \in request'[u].devices /\ DumpsSoon(part, u)'
    BY <2>1, <2>2 DEF DumpsSoon, At
  <2> QED
    BY <2>3 DEF KeepsUp
<1>3. CASE \E u \in movers : /\ jobs'[u] # <<>> /\ Head(jobs'[u]).do = "save"
                             /\ i \in request'[u].devices
  <2>1. \E u \in Threads : i \in request'[u].devices /\ DumpsSoon(part, u)'
    BY <1>3 DEF DumpsSoon, At
  <2> QED
    BY <2>1 DEF KeepsUp
<1>4. CASE /\ ~ \E u \in Threads : i \in request[u].devices /\ DumpsSoon(part, u)
           /\ LeftAlone(part, i)
  <2>1. /\ part \notin raced.dumps =>
              \A u \in Pending(part) :
                 SameAbout(LivePids, part, Head(jobs[u]).dump, store[part], i)
        /\ \/ part \in raced.files
           \/ \E u \in Pending(part) : i \in request[u].devices
           \/ SameAbout(LivePids, part, files[part], store[part], i)
    BY <1>4 DEF KeepsUp
  <2>2. \A u \in Pending(part) : jobs'[u] = jobs[u] /\ request'[u] = request[u]
    BY <1>1 DEF Pending
  <2>3. /\ part \notin raced'.dumps =>
              \A u \in Pending(part)' :
                 SameAbout(LivePids', part, Head(jobs'[u]).dump, store'[part], i)
        /\ \/ part \in raced'.files
           \/ \E u \in Pending(part)' : i \in request'[u].devices
           \/ SameAbout(LivePids', part, files'[part], store'[part], i)
    <3>1. /\ \A id \in About(part, store[part], i) : store[part][id].pid \in Recorded
          /\ \A id \in About(part, files[part], i) : files[part][id].pid \in Recorded
          /\ \A u \in Pending(part) : \A id \in About(part, Head(jobs[u]).dump, i) :
                Head(jobs[u]).dump[id].pid \in Recorded
      BY RecordedFacts DEF About
    <3>2. \A u \in Pending(part) :
             SameAbout(LivePids, part, Head(jobs[u]).dump, store[part], i) =>
                SameAbout(LivePids', part, Head(jobs[u]).dump, store'[part], i)
      BY <1>4, <3>1, StillSame
    <3>3. SameAbout(LivePids, part, files[part], store[part], i) =>
             SameAbout(LivePids', part, files'[part], store'[part], i)
      BY <1>4, <3>1, StillSame
    <3> QED
      BY <1>1, <1>4, <2>1, <2>2, <3>2, <3>3
  <2> QED
    BY <2>3 DEF KeepsUp
<1> QED
  BY <1>2, <1>3, <1>4

\* A dump of a part is of the store; it races only with dumps that are pending.
LEMMA DumpKeepsUp ==
    ASSUME FleetTypes, NEW part \in Parts, NEW i \in DeviceIds, KeepsUp(part, i),
           NEW t \in Threads, t \notin Pending(part), t \in Pending(part)',
           DumpsSoon(part, t),
           \A u \in Threads : request'[u] = request[u], Head(jobs'[t]).dump = store[part],
           \A u \in Threads \ {t} : jobs'[u] = jobs[u],
           store'[part] = store[part], files'[part] = files[part], LivePids' = LivePids,
           Pending(part) = {} => part \notin raced'.dumps,
           Pending(part) # {} => part \in raced'.dumps /\ part \in raced'.files,
           part \in raced.files => part \in raced'.files
    PROVE  KeepsUp(part, i)'
<1>1. Pending(part)' = Pending(part) \cup {t}
  BY PendingOfOthers
<1>2. CASE Pending(part) # {}
  BY <1>2 DEF KeepsUp
<1>3. CASE Pending(part) = {}
  <2>1. \A u \in Pending(part)' :
           SameAbout(LivePids', part, Head(jobs'[u]).dump, store'[part], i)
    BY <1>1, <1>3 DEF SameAbout
  <2>2. \/ \E u \in Threads \ {t} : i \in request[u].devices /\ DumpsSoon(part, u)
        \/ i \in request[t].devices
        \/ part \in raced.files
        \/ SameAbout(LivePids, part, files[part], store[part], i)
    BY <1>3 DEF KeepsUp
  <2>3. \/ \E u \in Threads : i \in request'[u].devices /\ DumpsSoon(part, u)'
        \/ \E u \in Pending(part)' : i \in request'[u].devices
        \/ part \in raced'.files
        \/ SameAbout(LivePids', part, files'[part], store'[part], i)
    BY <1>1, <2>2, PendingOfOthers
  <2>4. \/ \E u \in Threads : i \in request'[u].devices /\ DumpsSoon(part, u)'
        \/ /\ part \notin raced'.dumps =>
                 \A u \in Pending(part)' :
                    SameAbout(LivePids', part, Head(jobs'[u]).dump, store'[part], i)
           /\ \/ part \in raced'.files
              \/ \E u \in Pending(part)' : i \in request'[u].devices
              \/ SameAbout(LivePids', part, files'[part], store'[part], i)
    BY <2>1, <2>3
  <2> QED
    BY <2>4 DEF KeepsUp
<1> QED
  BY <1>2, <1>3

\* A file that is rewritten from a dump that did not race is the store's.
LEMMA WriteKeepsUp ==
    ASSUME FleetTypes, NEW part \in Parts, NEW i \in DeviceIds, KeepsUp(part, i),
           NEW t \in Pending(part), t \notin Pending(part)', ~ DumpsSoon(part, t),
           \A u \in Threads \ {t} : jobs'[u] = jobs[u] /\ request'[u] = request[u],
           store'[part] = store[part], files'[part] = Head(jobs[t]).dump, LivePids' = LivePids,
           part \in raced'.dumps <=> part \in raced.dumps,
           part \in raced.dumps => part \in raced'.files
    PROVE  KeepsUp(part, i)'
<1>1. Pending(part)' = Pending(part) \ {t}
  <2>1. t \in Threads
    BY DEF Pending
  <2> QED
    BY <2>1, PendingOfOthers
<1>2. CASE \E u \in Threads : i \in request[u].devices /\ DumpsSoon(part, u)
  <2>1. PICK u \in Threads : i \in request[u].devices /\ DumpsSoon(part, u)
    BY <1>2
  <2>2. u # t /\ t \in Threads
    BY <2>1 DEF Pending
  <2>3. i \in request'[u].devices /\ DumpsSoon(part, u)'
    BY <2>1, <2>2, PendingOfOthers
  <2> QED
    BY <2>3 DEF KeepsUp
<1>3. CASE part \in raced.dumps
  BY <1>3 DEF KeepsUp
<1>4. CASE /\ part \notin raced.dumps
           /\ ~ \E u \in Threads : i \in request[u].devices /\ DumpsSoon(part, u)
  <2>1. \A u \in Pending(part) :
           SameAbout(LivePids, part, Head(jobs[u]).dump, store[part], i)
    BY <1>4 DEF KeepsUp
  <2>2. \A u \in Pending(part)' : u \in Pending(part) /\ jobs'[u] = jobs[u]
    BY <1>1 DEF Pending
  <2>3. /\ \A u \in Pending(part)' :
              SameAbout(LivePids', part, Head(jobs'[u]).dump, store'[part], i)
        /\ SameAbout(LivePids', part, files'[part], store'[part], i)
    BY <2>1, <2>2
  <2> QED
    BY <2>3 DEF KeepsUp
<1> QED
  BY <1>2, <1>3, <1>4

\* A step that does not concern a part.
LEMMA OtherPartKeepsUp ==
    ASSUME NEW part \in Parts, NEW i \in DeviceIds, KeepsUp(part, i),
           NEW t \in Threads, \A u \in Threads \ {t} : jobs'[u] = jobs[u] /\ request'[u] = request[u],
           t \notin Pending(part), t \notin Pending(part)',
           DumpsSoon(part, t) => DumpsSoon(part, t)' /\ request'[t] = request[t],
           store'[part] = store[part], files'[part] = files[part], LivePids' = LivePids,
           part \in raced'.dumps <=> part \in raced.dumps,
           part \in raced.files => part \in raced'.files
    PROVE  KeepsUp(part, i)'
<1>1. Pending(part)' = Pending(part)
  BY PendingOfOthers
<1>2. CASE \E u \in Threads : i \in request[u].devices /\ DumpsSoon(part, u)
  <2>1. PICK u \in Threads : i \in request[u].devices /\ DumpsSoon(part, u)
    BY <1>2
  <2>2. i \in request'[u].devices /\ DumpsSoon(part, u)'
    BY <2>1, PendingOfOthers
  <2> QED
    BY <2>2 DEF KeepsUp
<1>3. CASE ~ \E u \in Threads : i \in request[u].devices /\ DumpsSoon(part, u)
  <2>1. \A u \in Pending(part) : jobs'[u] = jobs[u] /\ request'[u] = request[u]
    BY DEF Pending
  <2>2. /\ part \notin raced.dumps =>
              \A u \in Pending(part) :
                 SameAbout(LivePids, part, Head(jobs[u]).dump, store[part], i)
        /\ \/ part \in raced.files
           \/ \E u \in Pending(part) : i \in request[u].devices
           \/ SameAbout(LivePids, part, files[part], store[part], i)
    BY <1>3 DEF KeepsUp
  <2>3. /\ part \notin raced'.dumps =>
              \A u \in Pending(part)' :
                 SameAbout(LivePids', part, Head(jobs'[u]).dump, store'[part], i)
        /\ \/ part \in raced'.files
           \/ \E u \in Pending(part)' : i \in request'[u].devices
           \/ SameAbout(LivePids', part, files'[part], store'[part], i)
    BY <1>1, <2>1, <2>2
  <2> QED
    BY <2>3 DEF KeepsUp
<1> QED
  BY <1>2, <1>3

LEMMA RaceOfOtherParts ==
    ASSUME IsRace(raced)
    PROVE  /\ LET r == RacedByDump(raced, "devices")
              IN  /\ "hmis" \in r.dumps <=> "hmis" \in raced.dumps
                  /\ "hmis" \in raced.files => "hmis" \in r.files
                  /\ "devices" \in raced.files => "devices" \in r.files
                  /\ Pending("devices") = {} => "devices" \notin r.dumps
                  /\ Pending("devices") # {} => "devices" \in r.dumps /\ "devices" \in r.files
           /\ LET r == RacedByDump(RacedAfterWrite("devices"), "hmis")
              IN  /\ "devices" \in r.dumps <=> "devices" \in raced.dumps
                  /\ "devices" \in raced.dumps => "devices" \in r.files
                  /\ "hmis" \in raced.files => "hmis" \in r.files
                  /\ Pending("hmis") = {} => "hmis" \notin r.dumps
                  /\ Pending("hmis") # {} => "hmis" \in r.dumps /\ "hmis" \in r.files
           /\ LET r == RacedAfterWrite("hmis")
              IN  /\ r.dumps = raced.dumps
                  /\ "hmis" \in raced.dumps => "hmis" \in r.files
                  /\ "devices" \in raced.files => "devices" \in r.files
BY DEF IsRace, RacedByDump, RacedAfterWrite

LEMMA DumpDevicesKeepsUp ==
    ASSUME FleetTypes, FilesKeepUp, NEW t \in Threads, DumpDevices(t), IsStepOf(t)
    PROVE  FilesKeepUp'
<1>0. LivePids' = LivePids
  BY DEF DumpDevices, LivePids
<1>1. /\ At(t, "save") /\ jobs'[t] # <<>> /\ Head(jobs'[t]).do = "write_devices"
      /\ Head(jobs'[t]).dump = store.devices
      /\ \A u \in Threads \ {t} : jobs'[u] = jobs[u]
      /\ UNCHANGED <<store, files>>
  BY DumpDevicesFacts
<1>2. \A u \in Threads : request'[u] = request[u]
  BY <1>1 DEF IsStepOf
<1>3. raced' = RacedByDump(raced, "devices") /\ IsRace(raced)
  BY DEF DumpDevices, FleetTypes
<1>4. /\ t \notin Pending("devices") /\ t \in Pending("devices")'
      /\ t \notin Pending("hmis") /\ t \notin Pending("hmis")'
      /\ DumpsSoon("devices", t) /\ DumpsSoon("hmis", t) /\ DumpsSoon("hmis", t)'
  BY <1>1 DEF Pending, At, Writing, DumpsSoon
<1>5. ASSUME NEW i \in DeviceIds PROVE KeepsUp("devices", i)'
  <2>1. KeepsUp("devices", i) /\ "devices" \in Parts
    BY DEF FilesKeepUp, Parts
  <2> QED
    BY <1>0, <1>1, <1>2, <1>3, <1>4, <2>1, RaceOfOtherParts, DumpKeepsUp
<1>6. ASSUME NEW i \in DeviceIds PROVE KeepsUp("hmis", i)'
  <2>1. KeepsUp("hmis", i) /\ "hmis" \in Parts
    BY DEF FilesKeepUp, Parts
  <2> QED
    BY <1>0, <1>1, <1>2, <1>3, <1>4, <2>1, RaceOfOtherParts, OtherPartKeepsUp
<1> QED
  BY <1>5, <1>6 DEF FilesKeepUp, Parts

LEMMA WriteDevicesKeepsUp ==
    ASSUME FleetTypes, FilesKeepUp, NEW t \in Threads, WriteDevices(t), IsStepOf(t)
    PROVE  FilesKeepUp'
<1>0. LivePids' = LivePids
  BY DEF WriteDevices, LivePids
<1>1. /\ At(t, "write_devices") /\ jobs'[t] # <<>> /\ Head(jobs'[t]).do = "write_hmis"
      /\ Head(jobs'[t]).dump = store.hmis
      /\ \A u \in Threads \ {t} : jobs'[u] = jobs[u]
      /\ files' = [files EXCEPT !.devices = Head(jobs[t]).dump]
      /\ store' = store
  BY WriteDevicesFacts
<1>2. \A u \in Threads : request'[u] = request[u]
  BY <1>1 DEF IsStepOf
<1>3. raced' = RacedByDump(RacedAfterWrite("devices"), "hmis") /\ IsRace(raced)
  BY DEF WriteDevices, FleetTypes
<1>4. /\ t \in Pending("devices") /\ t \notin Pending("devices")' /\ ~ DumpsSoon("devices", t)
      /\ t \notin Pending("hmis") /\ t \in Pending("hmis")' /\ DumpsSoon("hmis", t)
  BY <1>1 DEF Pending, At, Writing, DumpsSoon
<1>5. files'["devices"] = Head(jobs[t]).dump /\ files'["hmis"] = files["hmis"]
  BY <1>1 DEF FleetTypes, IsFleet, Parts
<1>6. ASSUME NEW i \in DeviceIds PROVE KeepsUp("devices", i)'
  <2>1. KeepsUp("devices", i) /\ "devices" \in Parts
    BY DEF FilesKeepUp, Parts
  <2> QED
    BY <1>0, <1>1, <1>2, <1>3, <1>4, <1>5, <2>1, RaceOfOtherParts, WriteKeepsUp
<1>7. ASSUME NEW i \in DeviceIds PROVE KeepsUp("hmis", i)'
  <2>1. KeepsUp("hmis", i) /\ "hmis" \in Parts
    BY DEF FilesKeepUp, Parts
  <2> QED
    BY <1>0, <1>1, <1>2, <1>3, <1>4, <1>5, <2>1, RaceOfOtherParts, DumpKeepsUp
<1> QED
  BY <1>6, <1>7 DEF FilesKeepUp, Parts

LEMMA WriteHmisKeepsUp ==
    ASSUME FleetTypes, FilesKeepUp, NEW t \in Threads, WriteHmis(t), IsStepOf(t)
    PROVE  FilesKeepUp'
<1>0. LivePids' = LivePids
  BY DEF WriteHmis, LivePids
<1>1. /\ At(t, "write_hmis") /\ (jobs'[t] = <<>> \/ Head(jobs'[t]) \in LaterSteps)
      /\ files' = [files EXCEPT !.hmis = Head(jobs[t]).dump]
      /\ store' = store
  BY WriteHmisFacts
<1>2. \A u \in Threads \ {t} : jobs'[u] = jobs[u] /\ request'[u] = request[u]
  BY DEF IsStepOf
<1>3. raced' = RacedAfterWrite("hmis") /\ IsRace(raced)
  BY DEF WriteHmis, FleetTypes
<1>4. jobs'[t] # <<>> => Head(jobs'[t]).do \notin {"write_devices", "write_hmis"}
  BY <1>1, KindsOfSteps
<1>5. /\ t \in Pending("hmis") /\ t \notin Pending("hmis")' /\ ~ DumpsSoon("hmis", t)
      /\ t \notin Pending("devices") /\ t \notin Pending("devices")'
      /\ ~ DumpsSoon("devices", t)
  BY <1>1, <1>4 DEF Pending, At, Writing, DumpsSoon
<1>6. files'["hmis"] = Head(jobs[t]).dump /\ files'["devices"] = files["devices"]
  BY <1>1 DEF FleetTypes, IsFleet, Parts
<1>7. ASSUME NEW i \in DeviceIds PROVE KeepsUp("hmis", i)'
  <2>1. KeepsUp("hmis", i) /\ "hmis" \in Parts
    BY DEF FilesKeepUp, Parts
  <2> QED
    BY <1>0, <1>1, <1>2, <1>3, <1>5, <1>6, <2>1, RaceOfOtherParts, WriteKeepsUp
<1>8. ASSUME NEW i \in DeviceIds PROVE KeepsUp("devices", i)'
  <2>1. KeepsUp("devices", i) /\ "devices" \in Parts
    BY DEF FilesKeepUp, Parts
  <2> QED
    BY <1>0, <1>1, <1>2, <1>3, <1>5, <1>6, <2>1, RaceOfOtherParts, OtherPartKeepsUp
<1> QED
  BY <1>7, <1>8 DEF FilesKeepUp, Parts

LEMMA SaveRaisesKeepsUp ==
    ASSUME FleetTypes, FilesKeepUp, NEW t \in Threads, SaveRaises(t), IsStepOf(t)
    PROVE  FilesKeepUp'
<1>1. /\ jobs'[t] = <<>>
      /\ \/ raced'.dumps = Parts /\ raced'.files = Parts
         \/ /\ At(t, "write_hmis")
            /\ raced'.dumps = raced.dumps \cup {"hmis"}
            /\ raced'.files = raced.files \cup {"hmis"}
      /\ LivePids' = LivePids /\ store' = store /\ files' = files
  BY SaveRaisesFacts
<1>2. \A u \in Threads \ {t} : jobs'[u] = jobs[u] /\ request'[u] = request[u]
  BY DEF IsStepOf
<1>3. ASSUME NEW part \in Parts, NEW i \in DeviceIds,
             part \in raced'.dumps, part \in raced'.files
      PROVE  KeepsUp(part, i)'
  BY <1>3 DEF KeepsUp
<1>4. ASSUME NEW i \in DeviceIds, At(t, "write_hmis"),
             raced'.dumps = raced.dumps \cup {"hmis"}, raced'.files = raced.files \cup {"hmis"}
      PROVE  KeepsUp("devices", i)'
  <2>1. KeepsUp("devices", i) /\ "devices" \in Parts
    BY DEF FilesKeepUp, Parts
  <2>2. t \notin Pending("devices") /\ t \notin Pending("devices")' /\ ~ DumpsSoon("devices", t)
    BY <1>1, <1>4 DEF Pending, At, Writing, DumpsSoon
  <2> QED
    BY <1>1, <1>2, <1>4, <2>1, <2>2, OtherPartKeepsUp
<1> QED
  BY <1>1, <1>3, <1>4 DEF FilesKeepUp, Parts

LEMMA MoveKeepsUp ==
    ASSUME FleetTypes, FleetTypes', JobsKeepOrder, FilesKeepUp,
           NEW t \in Threads, IsStepOf(t), Work(t), NEW job, IsMove(t, job)
    PROVE  FilesKeepUp'
<1> SUFFICES ASSUME NEW part \in Parts, NEW i \in DeviceIds PROVE KeepsUp(part, i)'
  BY DEF FilesKeepUp
<1>1. KeepsUp(part, i)
  BY DEF FilesKeepUp
<1>2. /\ ~ At(t, "save") /\ ~ At(t, "write_devices") /\ ~ At(t, "write_hmis")
      /\ job = <<>> \/ Head(job).do \notin {"write_devices", "write_hmis"}
      /\ store' = store \/ (job # <<>> /\ Head(job).do = "save")
      /\ NoRecordedRevives /\ UNCHANGED <<raced, files>>
  BY DEF IsMove, NoRecordedRevives
<1>3. jobs'[t] = job
  BY ContinueFacts DEF IsMove, FleetTypes
<1>4. /\ \A u \in Threads \ {t} : jobs'[u] = jobs[u] /\ request'[u] = request[u]
      /\ request'[t] = IF jobs'[t] = <<>> THEN NoRequest ELSE request[t]
  BY DEF IsStepOf
<1>5. \/ LeftAlone(part, i)
      \/ jobs'[t] # <<>> /\ Head(jobs'[t]).do = "save" /\ i \in request'[t].devices
  <2>1. \E x : KeepsEntries(x) /\ (store' = store \/ x \in JobNames(jobs[t]))
    BY WorkKeepsEntries
  <2>2. i \notin request[t].devices => LeftAlone(part, i)
    BY <2>1, StepsLeaveAlone
  <2>3. store' = store => LeftAlone(part, i)
    BY DEF LeftAlone
  <2> QED
    BY <1>2, <1>3, <1>4, <2>2, <2>3
<1> DEFINE movers == {t}
<1>6. /\ movers \in SUBSET Threads
      /\ \A u \in Threads \ movers : jobs'[u] = jobs[u] /\ request'[u] = request[u]
      /\ \A u \in movers :
            /\ ~ At(u, "save") /\ ~ At(u, "write_devices") /\ ~ At(u, "write_hmis")
            /\ jobs'[u] = <<>> \/ Head(jobs'[u]).do \notin {"write_devices", "write_hmis"}
      /\ \/ LeftAlone(part, i)
         \/ \E u \in movers : /\ jobs'[u] # <<>> /\ Head(jobs'[u]).do = "save"
                              /\ i \in request'[u].devices
  BY <1>2, <1>3, <1>4, <1>5
<1> HIDE DEF movers
<1> QED
  BY <1>1, <1>2, <1>6, QuietStepsKeepUp

LEMMA WorkKeepsUp ==
    ASSUME FleetTypes, FleetTypes', JobsKeepOrder, FilesKeepUp, NEW t \in Threads, Work(t),
           IsStepOf(t)
    PROVE  FilesKeepUp'
<1>1. \/ DumpDevices(t) \/ WriteDevices(t) \/ WriteHmis(t) \/ SaveRaises(t)
      \/ \E job : IsMove(t, job)
  <2>1. \/ DumpDevices(t) \/ WriteDevices(t) \/ WriteHmis(t) \/ SaveRaises(t)
        \/ Moving(t)
    BY DEF Work, Moving
  <2> QED
    BY <2>1, WorkMoves, TypesMakeState
<1> QED
  BY <1>1, DumpDevicesKeepsUp, WriteDevicesKeepsUp, WriteHmisKeepsUp, SaveRaisesKeepsUp,
     MoveKeepsUp

-----------------------------------------------------------------------------
\* What jobs do in order.

Saving == {"save", "write_devices", "write_hmis"}
Building == {"create", "insert", "insert_hmi", "start", "spawn", "record", "confirm"}
Removing == {"delete", "stop", "remove", "forget"}

\* A job builds or removes, creates nothing that it names twice, and looks at a child
\* after the save that follows its record.
NeverMixes(job) ==
    \A k, m \in DOMAIN job : ~ (job[k].do \in Building /\ job[m].do \in Removing)
CreatesOnce(job) ==
    \A k, m \in DOMAIN job :
        job[m].do = "create" /\ k # m => job[m].id \notin Names(job[k])
ConfirmsSoon(job) ==
    \A k \in DOMAIN job :
        job[k].do = "confirm" => k = 1 \/ (k = 2 /\ job[1].do \in Saving)
Sorted(job) == NeverMixes(job) /\ CreatesOnce(job) /\ ConfirmsSoon(job)
JobsAreSorted == \A t \in Threads : Sorted(jobs[t])

-----------------------------------------------------------------------------
\* New requests.

\* A new request names its devices, their HMIs, and what is new to everybody.
NameFits(devices, id) ==
    IF id \in HmiIds
    THEN (id \in DOMAIN store.hmis /\ store.hmis[id].device \in devices) \/ id \notin Used
    ELSE id \in devices

StepFits(devices, s) ==
    /\ s.do \in {"save", "start", "stop", "delete", "create", "insert_hmi"}
    /\ \A id \in Names(s) : NameFits(devices, id)
    /\ s.do \in {"create", "insert_hmi"} => s.id \notin Used
    /\ s.do = "insert_hmi" =>
          s.device \in devices \cap DOMAIN store.devices /\ s.id \in HmiIds

Fits(devices, fresh, job) ==
    /\ fresh \cap Used = {} /\ Sorted(job)
    /\ \A k \in DOMAIN job : StepFits(devices, job[k])

LEMMA FreshAreUnused ==
    FreshDevices \cap Used = {} /\ FreshHmis \cap Used = {}
BY DEF FreshDevices, FreshHmis

LEMMA PlainJobsAreSorted ==
    ASSUME NEW job, \A k \in DOMAIN job : job[k].do \notin Removing \cup {"create", "confirm"}
    PROVE  Sorted(job)
BY DEF Sorted, NeverMixes, CreatesOnce, ConfirmsSoon

LEMMA OneStepIsSorted ==
    ASSUME NEW s, s.do # "confirm"
    PROVE  Sorted(<<s>>)
<1>1. DOMAIN <<s>> = {1} /\ <<s>>[1] = s
  OBVIOUS
<1> QED
  BY <1>1 DEF Sorted, NeverMixes, CreatesOnce, ConfirmsSoon, Building, Removing

LEMMA DeletesFit ==
    ASSUME NEW devices, NEW ids, \A id \in ids : NameFits(devices, id)
    PROVE  Fits(devices, {}, DeleteEach(ids))
<1>1. CASE ids = {}
  <2>1. DOMAIN DeleteEach(ids) = {}
    BY <1>1 DEF DeleteEach
  <2> QED
    BY <2>1, PlainJobsAreSorted DEF Fits
<1>2. CASE ids # {}
  <2> DEFINE s == [do |-> "delete", ids |-> ids]
  <2>1. DeleteEach(ids) = <<s>>
    BY <1>2 DEF DeleteEach
  <2>2. Names(s) = ids /\ s.do = "delete"
    BY DEF Names
  <2> HIDE DEF s
  <2>3. StepFits(devices, s)
    BY <2>2 DEF StepFits
  <2> QED
    BY <2>1, <2>2, <2>3, OneStepIsSorted DEF Fits
<1> QED
  BY <1>1, <1>2

LEMMA OneStepFits ==
    ASSUME NEW devices, NEW fresh, fresh \cap Used = {}, NEW s, NEW id,
           Names(s) = {id}, s.do \in {"start", "stop", "create"},
           s.do = "create" => s.id \notin Used, NameFits(devices, id)
    PROVE  Fits(devices, fresh, <<s>>)
<1>1. StepFits(devices, s)
  BY DEF StepFits
<1>2. Sorted(<<s>>)
  BY OneStepIsSorted
<1> QED
  BY <1>1, <1>2 DEF Fits

\* What a request about an entry of the store names.
LEMMA StoredFits ==
    ASSUME FleetTypes, NEW id \in DOMAIN store.devices \cup DOMAIN store.hmis
    PROVE  NameFits({DeviceOf(id)}, id)
<1>1. /\ DOMAIN store.hmis \subseteq HmiIds /\ DOMAIN store.devices \subseteq DeviceIds
  BY HmisInStore DEF FleetTypes
<1>2. CASE id \in HmiIds
  <2>1. id \in DOMAIN store.hmis /\ Part(id) = "hmis"
    BY <1>1, <1>2, FleetAssumption DEF Part
  <2> QED
    BY <1>2, <2>1 DEF NameFits, DeviceOf, Entry
<1>3. CASE id \notin HmiIds
  BY <1>3 DEF NameFits, DeviceOf
<1> QED
  BY <1>2, <1>3

LEMMA RequestsFit ==
    ASSUME FleetTypes, NEW t \in Threads, Requests(t)
    PROVE  \E op, devices, fresh, job :
              Take(t, op, devices, fresh, job) /\ Fits(devices, fresh, job)
<1> DEFINE Taken == \E op, devices, fresh, job :
                      Take(t, op, devices, fresh, job) /\ Fits(devices, fresh, job)
<1>0. \A i \in DeviceIds : i \notin HmiIds
  BY FleetAssumption
<1>1. ASSUME TakeCreate(t) PROVE Taken
  <2>1. PICK id \in FreshDevices, target \in Targets, autostart \in BOOLEAN :
          Take(t, "create", {id}, {id}, <<CreateStep(id, target, None, autostart)>>)
    BY <1>1 DEF TakeCreate
  <2> DEFINE s == CreateStep(id, target, None, autostart)
  <2>2. Names(s) = {id} /\ s.do = "create" /\ s.id = id
    BY DEF Names, CreateStep
  <2> HIDE DEF s
  <2>3. {id} \cap Used = {} /\ NameFits({id}, id)
    BY <1>0, FreshAreUnused, FreshFacts DEF NameFits
  <2>4. Fits({id}, {id}, <<s>>)
    BY <2>2, <2>3, OneStepFits
  <2> QED
    BY <2>1, <2>4 DEF s
<1>2. ASSUME TakeLaunch(t) PROVE Taken
  <2> DEFINE Launch(ids) == [n \in DOMAIN Facility |->
                               CreateStep(ids[n], Facility[n], "facility", TRUE)]
  <2>1. PICK ids \in [DOMAIN Facility -> DeviceIds \ Used] :
          IsInjective(ids) /\ Take(t, "launch", Range(ids), Range(ids), Launch(ids))
    BY <1>2, Zenon DEF TakeLaunch
  <2>2. Range(ids) \cap Used = {} /\ Range(ids) \subseteq DeviceIds
        /\ \A n \in DOMAIN Facility : ids[n] \in Range(ids)
    BY <2>1 DEF Range
  <2>3. \A n \in DOMAIN Facility :
           /\ Names(CreateStep(ids[n], Facility[n], "facility", TRUE)) = {ids[n]}
           /\ CreateStep(ids[n], Facility[n], "facility", TRUE).do = "create"
           /\ CreateStep(ids[n], Facility[n], "facility", TRUE).id = ids[n]
    BY DEF Names, CreateStep
  <2>4. \A n \in DOMAIN Facility : NameFits(Range(ids), ids[n])
    BY <1>0, <2>2 DEF NameFits
  <2>5. \A n \in DOMAIN Facility :
           StepFits(Range(ids), CreateStep(ids[n], Facility[n], "facility", TRUE))
    BY <2>1, <2>3, <2>4 DEF StepFits
  <2>6. Sorted(Launch(ids))
    <3>1. \A n, m \in DOMAIN Facility : n # m => ids[n] # ids[m]
      BY <2>1 DEF IsInjective
    <3>2. \A n \in DOMAIN Launch(ids) :
             /\ n \in DOMAIN Facility /\ Launch(ids)[n].do = "create"
             /\ Launch(ids)[n].id = ids[n] /\ Names(Launch(ids)[n]) = {ids[n]}
      BY <2>3
    <3> HIDE DEF Launch
    <3> QED
      BY <3>1, <3>2 DEF Sorted, NeverMixes, CreatesOnce, ConfirmsSoon, Removing
  <2>7. Fits(Range(ids), Range(ids), Launch(ids))
    BY <2>2, <2>5, <2>6 DEF Fits
  <2> QED
    BY <2>1, <2>7
<1>3. ASSUME TakeStopFacility(t) PROVE Taken
  <2>1. PICK tagged \in SUBSET DOMAIN store.devices :
          Take(t, "stop_facility", tagged, {}, DeleteEach(tagged))
    BY <1>3 DEF TakeStopFacility
  <2>2. \A id \in tagged : NameFits(tagged, id)
    BY <1>0, <2>1, StoredFacts DEF NameFits
  <2> QED
    BY <2>1, <2>2, DeletesFit
<1>4. ASSUME TakeStart(t) PROVE Taken
  <2>1. PICK i \in DOMAIN store.devices : Take(t, "start", {i}, {}, <<Step("start", i)>>)
    BY <1>4 DEF TakeStart
  <2>2. NameFits({i}, i) /\ Names(Step("start", i)) = {i} /\ Step("start", i).do = "start"
    BY <1>0, <2>1, StoredFacts DEF NameFits, Names, Step
  <2>3. Fits({i}, {}, <<Step("start", i)>>)
    BY <2>2, OneStepFits
  <2> QED
    BY <2>1, <2>3
<1>5. ASSUME TakeStop(t) PROVE Taken
  <2>1. PICK id \in DOMAIN store.devices \cup DOMAIN store.hmis :
          Take(t, "stop", {DeviceOf(id)}, {}, <<Step("stop", id)>>)
    BY <1>5 DEF TakeStop
  <2>2. NameFits({DeviceOf(id)}, id) /\ Names(Step("stop", id)) = {id}
        /\ Step("stop", id).do = "stop"
    BY <2>1, StoredFits DEF Names, Step
  <2>3. Fits({DeviceOf(id)}, {}, <<Step("stop", id)>>)
    BY <2>2, OneStepFits
  <2> QED
    BY <2>1, <2>3
<1>6. ASSUME TakeDelete(t) PROVE Taken
  <2>1. PICK id \in DOMAIN store.devices \cup DOMAIN store.hmis :
          Take(t, "delete", {DeviceOf(id)}, {}, DeleteEach({id}))
    BY <1>6 DEF TakeDelete
  <2>2. \A x \in {id} : NameFits({DeviceOf(id)}, x)
    BY <2>1, StoredFits
  <2> QED
    BY <2>1, <2>2, DeletesFit
<1>7. ASSUME TakeOpenHmi(t) PROVE Taken
  <2> DEFINE First(i, h) == IF HmisOf(i) # {} THEN <<>>
                            ELSE <<[do |-> "insert_hmi", id |-> h, device |-> i]>>
             Job(i, h) == First(i, h) \o Save \o <<Step("start", h)>>
  <2>1. PICK i \in DOMAIN store.devices :
          \E h \in IF HmisOf(i) = {} THEN FreshHmis ELSE HmisOf(i) :
             Take(t, "open_hmi", {i}, {}, Job(i, h))
    BY <1>7, Zenon DEF TakeOpenHmi
  <2>2. PICK h \in IF HmisOf(i) = {} THEN FreshHmis ELSE HmisOf(i) :
             Take(t, "open_hmi", {i}, {}, Job(i, h))
    BY <2>1
  <2>3. h \in HmiIds /\ NameFits({i}, h) /\ (HmisOf(i) = {} => h \notin Used)
    BY <2>2, FreshAreUnused, FreshFacts, StoredFacts DEF NameFits, HmisOf
  <2> DEFINE insert == [do |-> "insert_hmi", id |-> h, device |-> i]
             save == [do |-> "save"]
             start == Step("start", h)
             S == {x \in {insert, save, start} : x.do = "insert_hmi" => HmisOf(i) = {}}
  <2>4. /\ insert.do = "insert_hmi" /\ insert.device = i /\ insert.id = h /\ Names(insert) = {h}
        /\ save.do = "save" /\ Names(save) = {}
        /\ start.do = "start" /\ Names(start) = {h}
    BY DEF Names, Step
  <2>5. /\ Job(i, h) = First(i, h) \o Save \o <<start>> /\ Save = <<save>>
        /\ First(i, h) = IF HmisOf(i) # {} THEN <<>> ELSE <<insert>>
    BY DEF Save
  <2> DEFINE job == Job(i, h)
             first == First(i, h)
  <2>6. job = first \o Save \o <<start>> /\ first = IF HmisOf(i) # {} THEN <<>> ELSE <<insert>>
    BY <2>5
  <2>7. Take(t, "open_hmi", {i}, {}, job)
    BY <2>2
  <2> HIDE DEF insert, save, start, job, first, First, Job
  <2>8. save \in S /\ start \in S /\ (HmisOf(i) = {} => insert \in S)
    BY <2>4
  <2>9. \A x \in S : StepFits({i}, x)
    BY <2>1, <2>3, <2>4 DEF StepFits
  <2>10. \A x \in S : x.do \in {"insert_hmi", "save", "start"}
    BY <2>4
  <2> HIDE DEF S
  <2>11. first \in Seq(S) /\ <<save>> \in Seq(S) /\ <<start>> \in Seq(S)
    BY <2>6, <2>8
  <2>12. job \in Seq(S)
    BY <2>5, <2>6, <2>11, ConcatProperties
  <2>13. \A k \in DOMAIN job : job[k] \in S
    BY <2>12
  <2>14. Sorted(job)
    BY <2>13, <2>10, PlainJobsAreSorted DEF Removing
  <2>15. Fits({i}, {}, job)
    BY <2>9, <2>13, <2>14 DEF Fits
  <2> QED
    BY <2>7, <2>15
<1> QED
  BY <1>1, <1>2, <1>3, <1>4, <1>5, <1>6, <1>7 DEF Requests

\* Whatever the store, the jobs and the requests name is used.
LEMMA NamedAreUsed ==
    ASSUME FleetTypes
    PROVE  /\ Requested \subseteq Used /\ DOMAIN store.hmis \subseteq Used
           /\ \A h \in DOMAIN store.hmis : store.hmis[h].device \in Used
           /\ \A t \in Threads : JobNames(jobs[t]) \subseteq Used
<1>1. Requested \subseteq Used
  BY DEF Used
<1>2. DOMAIN store.hmis \subseteq Used
  <2> DEFINE fs == {store.devices, store.hmis, files.devices, files.hmis} \cup Dumps
  <2>1. store.hmis \in fs
    OBVIOUS
  <2> HIDE DEF fs
  <2>2. DOMAIN store.hmis \subseteq UNION {DOMAIN f : f \in fs}
    BY <2>1
  <2> QED
    BY <2>2 DEF Used, fs
<1>3. \A h \in DOMAIN store.hmis : store.hmis[h].device \in Used
  <2>1. \A h \in DOMAIN store.hmis : store.hmis[h] \in Range(store.hmis) \cup Range(files.hmis)
    BY DEF Range
  <2>2. {e.device : e \in Range(store.hmis) \cup Range(files.hmis)} \subseteq Used
    BY DEF Used
  <2> QED
    BY <2>1, <2>2
<1>4. ASSUME NEW t \in Threads, NEW s \in Range(jobs[t]) PROVE Names(s) \subseteq Used
  <2>1. s \in Steps
    BY <1>4 DEF Steps
  <2>2. /\ "id" \in DOMAIN s => s.id \in Used
        /\ "ids" \in DOMAIN s => s.ids \subseteq Used
    <3>1. \A x \in {y \in Steps : "id" \in DOMAIN y} :
             x.id \in {z.id : z \in {y \in Steps : "id" \in DOMAIN y}}
      OBVIOUS
    <3>2. \A x \in {y \in Steps : "ids" \in DOMAIN y} :
             x.ids \subseteq UNION {z.ids : z \in {y \in Steps : "ids" \in DOMAIN y}}
      OBVIOUS
    <3> QED
      BY <2>1, <3>1, <3>2 DEF Used
  <2>3. /\ s.do = "delete" => "ids" \in DOMAIN s
        /\ s.do \notin {"delete", "save", "write_devices", "write_hmis"} => "id" \in DOMAIN s
    <3>1. Busy(t)
      BY <1>4 DEF Busy, Range
    <3>2. s \in LaterSteps \cup {Head(jobs[t])}
      <4> DEFINE T == LaterSteps \cup {Head(jobs[t])}
      <4>1. jobs[t] \in Seq(T)
        BY <3>1, JobShape DEF FleetTypes
      <4> HIDE DEF T
      <4>2. \A k \in DOMAIN jobs[t] : jobs[t][k] \in T
        BY <4>1
      <4>3. s \in T
        BY <1>4, <4>2 DEF Range
      <4> QED
        BY <4>3 DEF T
    <3>3. CASE s \in LaterSteps
      BY <3>3 DEF LaterSteps
    <3>4. CASE IsNextStep(s)
      BY <3>4 DEF IsNextStep, IsWrite
    <3>5. CASE s \in [do : {"insert_hmi"}, id : HmiIds, device : DeviceIds]
      BY <3>5
    <3> QED
      BY <3>1, <3>2, <3>3, <3>4, <3>5 DEF FleetTypes, HasJobs, IsJob, IsHmiInsertion, Busy
  <2> QED
    BY <2>2, <2>3 DEF Names
<1>5. \A t \in Threads : JobNames(jobs[t]) \subseteq Used
  BY <1>4 DEF JobNames
<1> QED
  BY <1>1, <1>2, <1>3, <1>5

TakesFit(t, devices, fresh, job) ==
    /\ Fits(devices, fresh, job) /\ jobs[t] = <<>> /\ jobs'[t] = job
    /\ request'[t].devices = devices
    /\ \A u \in Threads \ {t} : jobs'[u] = jobs[u] /\ request'[u] = request[u]
    /\ suspect' = (suspect \ fresh) \cup (devices \cap Requested)
    /\ UNCHANGED <<store, files, procs, raced>>
    /\ \A id \in JobNames(job) : NameFits(devices, id)
    /\ job # <<>> => StepFits(devices, Head(job))

LEMMA TakenFits ==
    ASSUME FleetTypes, FleetTypes', NEW t \in Threads, Requests(t)
    PROVE  \E devices, fresh, job : TakesFit(t, devices, fresh, job)
<1>1. PICK op, devices, fresh, job :
        Take(t, op, devices, fresh, job) /\ Fits(devices, fresh, job)
  BY RequestsFit
<1>2. DOMAIN jobs = Threads /\ DOMAIN request = Threads
  BY DEF FleetTypes, HasJobs, HasRequests
<1>3. /\ jobs[t] = <<>> /\ jobs'[t] = job /\ request'[t].devices = devices
      /\ \A u \in Threads \ {t} : jobs'[u] = jobs[u] /\ request'[u] = request[u]
      /\ suspect' = (suspect \ fresh) \cup (devices \cap Requested)
      /\ UNCHANGED <<store, files, procs, raced>>
  BY <1>1, <1>2 DEF Take, Busy
<1>4. IsJob(job)
  BY <1>3 DEF FleetTypes, HasJobs
<1>5. job # <<>> => Head(job) = job[1] /\ 1 \in DOMAIN job
  BY <1>4 DEF IsJob
<1>6. \A id \in JobNames(job) : NameFits(devices, id)
  BY <1>1 DEF JobNames, Range, Fits, StepFits
<1>7. job # <<>> => StepFits(devices, Head(job))
  BY <1>1, <1>5 DEF Fits
<1> QED
  BY <1>1, <1>3, <1>6, <1>7 DEF TakesFit

LEMMA TakeKeepsOrder ==
    ASSUME FleetTypes, FleetTypes', JobsKeepOrder, HmisHaveTheirDevice, FilesKeepUp,
           NEW t \in Threads, NEW devices, NEW fresh, NEW job,
           TakesFit(t, devices, fresh, job)
    PROVE  JobsKeepOrder' /\ HmisHaveTheirDevice' /\ FilesKeepUp'
<1>1. /\ Fits(devices, fresh, job) /\ jobs[t] = <<>> /\ jobs'[t] = job
      /\ request'[t].devices = devices
      /\ \A u \in Threads \ {t} : jobs'[u] = jobs[u] /\ request'[u] = request[u]
      /\ suspect' = (suspect \ fresh) \cup (devices \cap Requested)
      /\ UNCHANGED <<store, files, procs, raced>>
      /\ \A id \in JobNames(job) : NameFits(devices, id)
      /\ job # <<>> => StepFits(devices, Head(job))
  BY DEF TakesFit
<1>2. /\ Requested \subseteq Used /\ DOMAIN store.hmis \subseteq Used
      /\ \A h \in DOMAIN store.hmis : store.hmis[h].device \in Used
      /\ \A u \in Threads : JobNames(jobs[u]) \subseteq Used
      /\ \A u \in Threads : request[u].devices \subseteq Used
      /\ fresh \cap Used = {}
  BY <1>1, NamedAreUsed DEF Fits, Requested
<1>3. suspect \cap Used \subseteq suspect'
  BY <1>1, <1>2
<1>4. StepsAreWithin'
  <2>1. ASSUME NEW u \in Threads \ {t}, NEW id \in JobNames(jobs'[u]) PROVE Within(u, id)'
    BY <1>1, <2>1 DEF JobsKeepOrder, StepsAreWithin, Within
  <2>2. ASSUME NEW id \in JobNames(jobs'[t]) PROVE Within(t, id)'
    <3>1. NameFits(devices, id)
      BY <1>1, <2>2
    <3> QED
      BY <1>1, <1>2, <3>1 DEF NameFits, Within
  <2> QED
    BY <2>1, <2>2 DEF StepsAreWithin
<1>5. InsertionsFit'
  <2>1. ASSUME NEW u \in Threads, At(u, "insert_hmi")'
        PROVE  LET s == Head(jobs'[u])
               IN  /\ s.device \in request'[u].devices
                   /\ s.device \in DOMAIN store'.devices \cup suspect'
                   /\ s.id \notin DOMAIN store'.hmis
                   /\ \A v \in Threads \ {u} : s.id \notin JobNames(jobs'[v])
    <3>1. CASE u = t
      <4>1. job # <<>> /\ Head(job).do = "insert_hmi"
        BY <1>1, <2>1, <3>1 DEF At
      <4>2. /\ Head(job).device \in devices \cap DOMAIN store.devices
            /\ Head(job).id \in HmiIds \ Used
        BY <1>1, <4>1 DEF StepFits
      <4> QED
        BY <1>1, <1>2, <3>1, <4>2
    <3>2. CASE u # t
      <4> DEFINE s == Head(jobs[u])
      <4>1. At(u, "insert_hmi") /\ Head(jobs'[u]) = s /\ request'[u] = request[u]
        BY <1>1, <2>1, <3>2 DEF At
      <4>2. /\ s.device \in request[u].devices
            /\ s.device \in DOMAIN store.devices \cup suspect
            /\ s.id \notin DOMAIN store.hmis
            /\ \A v \in Threads \ {u} : s.id \notin JobNames(jobs[v])
        BY <4>1 DEF JobsKeepOrder, InsertionsFit
      <4>3. s.id \in HmiIds /\ s.id \in Used
        BY <1>2, <4>1, NextOfJob, NameOfHead DEF FleetTypes, IsHmiInsertion
      <4>4. s.id \notin JobNames(job)
        BY <1>1, <4>2, <4>3 DEF NameFits
      <4> HIDE DEF s
      <4>5. s.device \in DOMAIN store'.devices \cup suspect'
        BY <1>1, <1>2, <1>3, <4>2
      <4>6. \A v \in Threads \ {u} : s.id \notin JobNames(jobs'[v])
        BY <1>1, <4>2, <4>4
      <4> QED
        BY <1>1, <4>1, <4>2, <4>5, <4>6
    <3> QED
      BY <3>1, <3>2
  <2> QED
    BY <2>1 DEF InsertionsFit
<1>6. RequestsOverlap'
  <2>1. \A u \in Threads \ {t} : request[u].devices \subseteq Requested
    BY DEF Requested
  <2>2. ASSUME NEW u \in Threads, NEW v \in Threads, u # v
        PROVE  request'[u].devices \cap request'[v].devices \subseteq suspect'
    <3>1. CASE u = t \/ v = t
      BY <1>1, <2>1, <2>2, <3>1
    <3>2. CASE u # t /\ v # t
      BY <1>1, <1>2, <1>3, <2>2, <3>2 DEF JobsKeepOrder, RequestsOverlap
    <3> QED
      BY <3>1, <3>2
  <2> QED
    BY <2>2 DEF RequestsOverlap
<1>7. HmisGoFirst'
  <2>1. ASSUME NEW u \in Threads, NEW k \in DOMAIN jobs'[u], RemovesDevice(jobs'[u][k]),
               jobs'[u][k].id \notin suspect', NEW h \in DOMAIN store'.hmis,
               store'.hmis[h].device = jobs'[u][k].id
        PROVE  GoesBefore(jobs'[u], k, h)
    <3>1. u # t
      BY <1>1, <2>1 DEF Fits, StepFits, RemovesDevice
    <3>2. jobs'[u] = jobs[u]
      BY <1>1, <3>1
    <3>3. jobs[u][k].id \in JobNames(jobs[u])
      BY <2>1, <3>2, NamesOfStep DEF FleetTypes
    <3>4. jobs[u][k].id \notin suspect
      BY <1>2, <1>3, <2>1, <3>2, <3>3
    <3>5. h \in HmisOf(jobs[u][k].id)
      BY <1>1, <2>1, <3>2 DEF HmisOf
    <3>6. GoesBefore(jobs[u], k, h)
      BY <2>1, <3>2, <3>4, <3>5 DEF JobsKeepOrder, HmisGoFirst
    <3> QED
      BY <3>2, <3>6
  <2> QED
    BY <2>1 DEF HmisGoFirst, HmisOf, GoesBefore, RemovesDevice
<1>8. HmisHaveTheirDevice'
  BY <1>1, <1>2, <1>3 DEF HmisHaveTheirDevice
<1>9. FilesKeepUp'
  <2> DEFINE movers == {t}
  <2>1. /\ movers \in SUBSET Threads
        /\ \A u \in Threads \ movers : jobs'[u] = jobs[u] /\ request'[u] = request[u]
    BY <1>1
  <2>2. /\ ~ At(t, "save") /\ ~ At(t, "write_devices") /\ ~ At(t, "write_hmis")
        /\ jobs'[t] = <<>> \/ Head(jobs'[t]).do \notin {"write_devices", "write_hmis"}
    BY <1>1 DEF At, StepFits
  <2>3. \A u \in movers :
           /\ ~ At(u, "save") /\ ~ At(u, "write_devices") /\ ~ At(u, "write_hmis")
           /\ jobs'[u] = <<>> \/ Head(jobs'[u]).do \notin {"write_devices", "write_hmis"}
    BY <2>2
  <2> HIDE DEF movers
  <2>4. ASSUME NEW part \in Parts, NEW i \in DeviceIds PROVE KeepsUp(part, i)'
    <3>1. KeepsUp(part, i) /\ LeftAlone(part, i) /\ NoRecordedRevives
      BY <1>1 DEF FilesKeepUp, LeftAlone, NoRecordedRevives, LivePids
    <3> QED
      BY <1>1, <2>1, <2>3, <3>1, QuietStepsKeepUp
  <2> QED
    BY <2>4 DEF FilesKeepUp
<1> QED
  BY <1>4, <1>5, <1>6, <1>7, <1>8, <1>9 DEF JobsKeepOrder

LEMMA CrashedProcesses ==
    ASSUME FleetTypes, WebCrash
    PROVE  \A p \in LivePids' : /\ p \in LivePids /\ procs'[p].id = procs[p].id
                               /\ procs'[p].device = procs[p].device
<1>1. \A p \in DOMAIN procs : procs[p] \in Process
  BY DEF FleetTypes, AreProcesses
<1>2. ASSUME NEW p \in DOMAIN procs'
      PROVE  /\ p \in LivePids /\ procs'[p].id = procs[p].id
             /\ procs'[p].device = procs[p].device
  <2>1. p \in DOMAIN procs /\ Live(p) /\ procs'[p] = [procs[p] EXCEPT !.child = FALSE, !.held = None]
    BY <1>2 DEF WebCrash
  <2> QED
    BY <1>1, <2>1 DEF Process, LivePids, Live
<1> QED
  BY <1>2 DEF LivePids

\* A crash leaves no jobs; what the files do not have is suspected.
LEMMA CrashKeepsOrder ==
    ASSUME FleetTypes, HmisHaveTheirDevice, FilesKeepUp, WebCrash
    PROVE  JobsKeepOrder' /\ HmisHaveTheirDevice' /\ FilesKeepUp'
<1>1. /\ FleetTypes' /\ \A u \in Threads : jobs'[u] = <<>>
      /\ \A part \in Parts : store'[part] = Loaded(files'[part])
  BY CrashFacts
<1>2. /\ \A u \in Threads : request'[u].devices = {}
      /\ raced' = NoneRaced /\ files' \in {files} \cup TornFiles
      /\ suspect' = suspect \cup Requested
                      \cup IF files' \in TornFiles \/ raced.files # {} THEN DeviceIds ELSE {}
  BY DEF WebCrash, NoRequest
<1>3. /\ \A u \in Threads : JobNames(jobs'[u]) = {} /\ DOMAIN jobs'[u] = {}
      /\ \A part : Pending(part)' = {}
      /\ \A u \in Threads : ~ At(u, "insert_hmi")'
  BY <1>1 DEF JobNames, Range, Pending, At
<1>4. JobsKeepOrder'
  <2>1. StepsAreWithin' /\ InsertionsFit' /\ HmisGoFirst'
    BY <1>3 DEF StepsAreWithin, InsertionsFit, HmisGoFirst
  <2>2. RequestsOverlap'
    BY <1>2 DEF RequestsOverlap
  <2> QED
    BY <2>1, <2>2 DEF JobsKeepOrder
<1>5. \A p \in LivePids' : p \in LivePids /\ procs'[p].id = procs[p].id
                          /\ procs'[p].device = procs[p].device
  BY CrashedProcesses
<1>6. ASSUME NEW part \in Parts
      PROVE  /\ DOMAIN store'[part] = DOMAIN files'[part]
             /\ part = "hmis" => \A h \in DOMAIN files'[part] :
                   store'[part][h].device = files'[part][h].device
             /\ \A id \in DOMAIN files'[part] :
                   files'[part][id].pid \in LivePids' \/ store'[part][id].pid \in LivePids' =>
                      files'[part][id].pid = store'[part][id].pid
  <2> DEFINE f == files'[part]
  <2>1. IsRegistry(part, f) /\ store'[part] = Loaded(f)
    BY <1>1 DEF FleetTypes, IsFleet
  <2>2. /\ DOMAIN Loaded(f) = DOMAIN f
        /\ \A id \in DOMAIN f :
              Loaded(f)[id] = f[id] \/ Loaded(f)[id] = [f[id] EXCEPT !.pid = NoPid]
    <3> HIDE DEF f
    <3> QED
      BY <2>1, LoadedFacts
  <2>3. part = "hmis" => \A h \in DOMAIN f : f[h] \in HmiEntry
    BY <2>1 DEF IsRegistry, EntryOf
  <2>4. part = "hmis" => \A h \in DOMAIN f : Loaded(f)[h].device = f[h].device
    BY <2>2, <2>3 DEF HmiEntry
  <2>5. ASSUME NEW id \in DOMAIN f
        PROVE  f[id].pid \in LivePids' \/ Loaded(f)[id].pid \in LivePids' =>
                  Loaded(f)[id] = f[id]
    <3>1. \A p \in LivePids' : Live(p) /\ p # NoPid
      BY <1>5, FleetAssumption DEF Live, Alive, LivePids, FleetTypes, AreProcesses, NoPid
    <3>2. "pid" \in DOMAIN f[id]
      BY <2>1 DEF IsRegistry, EntryOf, HmiEntry, DeviceEntry
    <3>3. Loaded(f)[id] = IF Live(f[id].pid) THEN f[id] ELSE [f[id] EXCEPT !.pid = NoPid]
      BY DEF Loaded
    <3> HIDE DEF f
    <3>4. ~ Live(f[id].pid) => Loaded(f)[id].pid = NoPid
      BY <3>2, <3>3
    <3> QED
      BY <3>1, <3>3, <3>4
  <2> HIDE DEF f
  <2>6. \A id \in DOMAIN f :
           f[id].pid \in LivePids' \/ Loaded(f)[id].pid \in LivePids' =>
              f[id].pid = Loaded(f)[id].pid
    BY <2>5
  <2> QED
    BY <2>1, <2>2, <2>4, <2>6 DEF f
<1>7. FilesKeepUp'
  <2>1. ASSUME NEW part \in Parts, NEW i \in DeviceIds
        PROVE  SameAbout(LivePids', part, files'[part], store'[part], i)
    <3>1. About(part, files'[part], i) = About(part, store'[part], i)
      BY <1>6 DEF About
    <3>2. About(part, files'[part], i) \subseteq DOMAIN files'[part]
      BY DEF About
    <3> QED
      BY <1>6, <3>1, <3>2 DEF SameAbout
  <2>2. \A part \in Parts, i \in DeviceIds : KeepsUp(part, i)'
    BY <1>3, <2>1 DEF KeepsUp
  <2> QED
    BY <2>2 DEF FilesKeepUp
<1>8. ASSUME NEW h \in DOMAIN store'.hmis, store'.hmis[h].device \notin suspect'
      PROVE  store'.hmis[h].device \in DOMAIN store'.devices
  <2> DEFINE i == store'.hmis[h].device
  <2>1. i \in DeviceIds
    BY <1>1 DEF FleetTypes, IsFleet, IsRegistry, Parts, EntryOf, HmiEntry
  <2>2. files' = files /\ raced.files = {} /\ i \notin suspect /\ i \notin Requested
    BY <1>2, <1>8, <2>1
  <2>3. /\ h \in DOMAIN files.hmis /\ files.hmis[h].device = i
        /\ DOMAIN store'.devices = DOMAIN files.devices
    BY <1>6, <2>2 DEF Parts
  <2> HIDE DEF i
  <2>4. ASSUME NEW part \in Parts
        PROVE  About(part, files[part], i) = About(part, store[part], i)
    <3>1. KeepsUp(part, i)
      BY <2>1 DEF FilesKeepUp
    <3>2. \A u \in Threads : i \notin request[u].devices
      BY <2>2 DEF Requested
    <3>3. Pending(part) \subseteq Threads
      BY DEF Pending
    <3> QED
      BY <2>2, <3>1, <3>2, <3>3 DEF KeepsUp, SameAbout
  <2>5. h \in DOMAIN store.hmis /\ store.hmis[h].device = i
    BY <2>3, <2>4 DEF About, Parts
  <2>6. i \in DOMAIN store.devices
    BY <2>2, <2>5 DEF HmisHaveTheirDevice
  <2>7. i \in DOMAIN files.devices
    BY <2>4, <2>6 DEF About, Parts
  <2> QED
    BY <2>3, <2>7 DEF i
<1>9. HmisHaveTheirDevice'
  BY <1>8 DEF HmisHaveTheirDevice
<1> QED
  BY <1>4, <1>7, <1>9

LEMMA NextKeepsOrder ==
    /\ FleetTypes /\ JobsKeepOrder /\ HmisHaveTheirDevice /\ FilesKeepUp
    /\ [FleetNext]_fleetVars
    => JobsKeepOrder' /\ HmisHaveTheirDevice' /\ FilesKeepUp'
<1> SUFFICES ASSUME FleetTypes, JobsKeepOrder, HmisHaveTheirDevice, FilesKeepUp,
                    [FleetNext]_fleetVars
             PROVE  JobsKeepOrder' /\ HmisHaveTheirDevice' /\ FilesKeepUp'
  OBVIOUS
<1>1. FleetTypes'
  BY NextKeepsTypes
<1>2. ASSUME UNCHANGED <<store, files, jobs, request, suspect, raced>>,
             LivePids' \subseteq LivePids
      PROVE  JobsKeepOrder' /\ HmisHaveTheirDevice' /\ FilesKeepUp'
  <2>1. StepsAreWithin' /\ InsertionsFit' /\ RequestsOverlap' /\ HmisGoFirst'
    BY <1>2 DEF JobsKeepOrder, StepsAreWithin, InsertionsFit, RequestsOverlap, HmisGoFirst,
                Within, At, HmisOf
  <2>2. HmisHaveTheirDevice'
    BY <1>2 DEF HmisHaveTheirDevice
  <2>3. FilesKeepUp'
    <3> DEFINE movers == {}
    <3>1. /\ movers \in SUBSET Threads /\ \A u \in movers : FALSE
          /\ \A u \in Threads \ movers : jobs'[u] = jobs[u] /\ request'[u] = request[u]
      BY <1>2
    <3> HIDE DEF movers
    <3>2. ASSUME NEW part \in Parts, NEW i \in DeviceIds PROVE KeepsUp(part, i)'
      <4>1. KeepsUp(part, i) /\ LeftAlone(part, i) /\ NoRecordedRevives
        BY <1>2 DEF FilesKeepUp, LeftAlone, NoRecordedRevives
      <4> QED
        BY <1>2, <3>1, <4>1, QuietStepsKeepUp
    <3> QED
      BY <3>2 DEF FilesKeepUp
  <2> QED
    BY <2>1, <2>2, <2>3 DEF JobsKeepOrder
<1>3. ASSUME NEW t \in Threads, Work(t)
      PROVE  JobsKeepOrder' /\ HmisHaveTheirDevice' /\ FilesKeepUp'
  <2>1. IsStepOf(t)
    BY <1>1, <1>3, WorkIsAStep
  <2>2. JobsKeepOrder'
    BY <1>1, <2>1, StepsStayWithin, InsertionsStayFit, RequestsStillOverlap, HmisStillGoFirst
       DEF JobsKeepOrder
  <2> QED
    BY <1>1, <1>3, <2>1, <2>2, DevicesOutliveHmis, WorkKeepsUp
<1>4. ASSUME NEW t \in Threads, Requests(t)
      PROVE  JobsKeepOrder' /\ HmisHaveTheirDevice' /\ FilesKeepUp'
  BY <1>1, <1>4, TakenFits, TakeKeepsOrder
<1>5. CASE ProcessExit
  <2>1. LivePids' \subseteq LivePids
    <3>1. PICK p \in DOMAIN procs : procs' = Ended(p)
      BY <1>5 DEF ProcessExit
    <3> QED
      BY <3>1, EndedFacts DEF FleetTypes, LivePids
  <2> QED
    BY <1>2, <1>5, <2>1 DEF ProcessExit
<1>6. CASE WebCrash
  BY <1>6, CrashKeepsOrder
<1>7. CASE UNCHANGED fleetVars
  BY <1>2, <1>7 DEF fleetVars, LivePids
<1> QED
  BY <1>3, <1>4, <1>5, <1>6, <1>7 DEF FleetNext, Done

LEMMA OrderedInit == FleetInit => JobsKeepOrder /\ HmisHaveTheirDevice /\ FilesKeepUp
<1> SUFFICES ASSUME FleetInit PROVE JobsKeepOrder /\ HmisHaveTheirDevice /\ FilesKeepUp
  OBVIOUS
<1>1. /\ store = [devices |-> <<>>, hmis |-> <<>>] /\ files = store
      /\ \A t \in Threads : jobs[t] = <<>> /\ request[t].devices = {}
  BY DEF FleetInit, NoRequest
<1>2. /\ \A t \in Threads : JobNames(jobs[t]) = {} /\ DOMAIN jobs[t] = {}
      /\ \A part : Pending(part) = {}
      /\ \A t \in Threads : ~ At(t, "insert_hmi")
  BY <1>1 DEF JobNames, Range, Pending, At
<1>3. JobsKeepOrder
  BY <1>1, <1>2 DEF JobsKeepOrder, StepsAreWithin, InsertionsFit, RequestsOverlap, HmisGoFirst
<1>4. HmisHaveTheirDevice
  BY <1>1 DEF HmisHaveTheirDevice
<1>5. FilesKeepUp
  <2>1. procs = <<>>
    BY DEF FleetInit
  <2>2. LivePids = {}
    BY <2>1 DEF LivePids
  <2> QED
    BY <1>1, <1>2, <2>2 DEF FilesKeepUp, KeepsUp, SameAbout
<1> QED
  BY <1>3, <1>4, <1>5

\* Deleting a device takes its HMIs along: whatever other requests do meanwhile,
\* and wherever the web application dies, no HMI is left pointing to a device that
\* is gone, unless two requests about that device overlapped or a crash cut one
\* short.
THEOREM HmisKeepTheirDevice == FleetSpec => []HmisHaveTheirDevice
BY OrderedInit, InitTypes, NextKeepsTypes, NextKeepsOrder, PTL DEF FleetSpec

-----------------------------------------------------------------------------
\* Processes stay in sight: the entries name the processes that live.

\* The processes that live for a device or an HMI; those of suspected devices do
\* not count.
Runs ==
    [id \in Ids |-> {p \in LivePids : procs[p].id = id /\ procs[p].device \notin suspect}]

\* What a job knows of the processes for what it names.
StopsBefore(job, k) ==
    \E j \in 1 .. (k - 1) : job[j].do = "stop" /\ job[j].id = job[k].id
IsSound(runs, job, k) ==
    LET s == job[k]
    IN  /\ s.do \in {"record", "confirm"} => runs[s.id] \subseteq {s.pid}
        /\ s.do \in {"spawn", "forget", "create", "insert", "insert_hmi"} => runs[s.id] = {}
        /\ s.do = "remove" => runs[s.id] = {} \/ StopsBefore(job, k)
StepsAreSound == \A t \in Threads : \A k \in DOMAIN jobs[t] : IsSound(Runs, jobs[t], k)

\* The device that a process will be spawned for is the request's, and still there.
SpawnDevice(s) == IF s.id \in HmiIds THEN s.entry.device ELSE s.id
FitsSpawn(t) ==
    At(t, "spawn") =>
        LET s == Head(jobs[t])
        IN  /\ SpawnDevice(s) \in request[t].devices
            /\ SpawnDevice(s) \notin suspect =>
                  Known(s.id) /\ DeviceOf(s.id) = SpawnDevice(s)
SpawnsFit == \A t \in Threads : FitsSpawn(t)

\* An entry names the process, or the thread that spawned it is about to write it.
IsWritten(id, p) ==
    \/ Entry(id).pid = p
    \/ \E t \in Threads : At(t, "record") /\ Head(jobs[t]).id = id /\ Head(jobs[t]).pid = p
AreShown ==
    \A id \in Ids : \A p \in Runs[id] :
        Known(id) /\ DeviceOf(id) = procs[p].device /\ IsWritten(id, p)

ProcessesInSight == JobsAreSorted /\ StepsAreSound /\ SpawnsFit /\ AreShown

LEMMA CallStaysSorted ==
    ASSUME HasJobs, NEW t \in Threads, Busy(t), NEW S, NEW steps \in Seq(S),
           jobs'[t] = steps \o Tail(jobs[t]), Sorted(jobs[t]),
           \A k \in DOMAIN steps :
              /\ steps[k].do \in Building => Head(jobs[t]).do \in Building
              /\ steps[k].do \in Removing => Head(jobs[t]).do \in Removing
              /\ steps[k].do # "create"
              /\ Head(jobs[t]).do \notin Removing => Names(steps[k]) \subseteq Names(Head(jobs[t]))
              /\ steps[k].do = "confirm" => k = 2 /\ steps[1].do \in Saving,
           Head(jobs[t]).do \in Saving =>
              Len(steps) = 0 \/ (Len(steps) = 1 /\ steps[1].do \in Saving)
    PROVE  Sorted(jobs'[t])
<1> DEFINE job == jobs[t]
           next == jobs'[t]
           n == Len(steps)
<1>1. /\ n \in Nat /\ Len(job) \in Nat \ {0}
      /\ DOMAIN steps = 1 .. n /\ DOMAIN job = 1 .. Len(job)
      /\ DOMAIN next = 1 .. (n + Len(job) - 1)
      /\ \A k \in 1 .. n : next[k] = steps[k]
      /\ \A k \in 2 .. Len(job) : next[n + k - 1] = job[k]
  BY CallFacts, SMTT(30)
<1>2. job[1] = Head(job)
  BY JobShape
<1>3. NeverMixes(job) /\ CreatesOnce(job) /\ ConfirmsSoon(job)
  BY DEF Sorted
<1> DEFINE h == Head(job)
<1>4. \A k \in 1 .. n :
         /\ steps[k].do \in Building => h.do \in Building
         /\ steps[k].do \in Removing => h.do \in Removing
         /\ steps[k].do # "create"
         /\ h.do \notin Removing => Names(steps[k]) \subseteq Names(h)
         /\ steps[k].do = "confirm" => k = 2 /\ steps[1].do \in Saving
  BY <1>1
<1>5. h.do \in Saving => n = 0 \/ (n = 1 /\ steps[1].do \in Saving)
  OBVIOUS
<1> HIDE DEF job, next, n, h
<1>6. ASSUME NEW k \in DOMAIN next, ~ k \in 1 .. n
      PROVE  k - n + 1 \in 2 .. Len(job) /\ next[k] = job[k - n + 1] /\ k - n + 1 \in DOMAIN job
  <2>1. k - n + 1 \in 2 .. Len(job) /\ n + (k - n + 1) - 1 = k
    BY <1>1, <1>6
  <2> QED
    BY <1>1, <2>1
<1>7. 1 \in DOMAIN job /\ job[1] = h
  BY <1>1, <1>2 DEF h
<1>8. ASSUME NEW k \in DOMAIN next
      PROVE  /\ next[k].do \in Building => \E j \in DOMAIN job : job[j].do \in Building
             /\ next[k].do \in Removing => \E j \in DOMAIN job : job[j].do \in Removing
  <2>1. CASE k \in 1 .. n
    BY <1>1, <1>4, <1>7, <2>1
  <2>2. CASE ~ k \in 1 .. n
    BY <1>6, <2>2
  <2> QED
    BY <2>1, <2>2
<1>9. NeverMixes(next)
  BY <1>3, <1>8 DEF NeverMixes
<1>10. ASSUME NEW k \in DOMAIN next, NEW m \in DOMAIN next, next[m].do = "create", k # m
       PROVE  next[m].id \notin Names(next[k])
  <2>1. ~ m \in 1 .. n
    BY <1>1, <1>4, <1>10
  <2> DEFINE c == m - n + 1
  <2>2. c \in 2 .. Len(job) /\ c \in DOMAIN job /\ next[m] = job[c]
    BY <1>6, <2>1
  <2>3. CASE k \in 1 .. n
    <3>1. h.do \notin Removing
      BY <1>3, <1>7, <1>10, <2>2 DEF NeverMixes, Building
    <3>2. job[c].id \notin Names(h)
      <4>1. c # 1 /\ job[c].do = "create"
        BY <1>10, <2>2
      <4> QED
        BY <1>3, <1>7, <2>2, <4>1 DEF CreatesOnce
    <3> QED
      BY <1>1, <1>4, <2>2, <2>3, <3>1, <3>2
  <2>4. CASE ~ k \in 1 .. n
    <3>1. k - n + 1 \in DOMAIN job /\ next[k] = job[k - n + 1] /\ k - n + 1 # c
      BY <1>1, <1>6, <1>10, <2>4
    <3> QED
      BY <1>3, <1>10, <2>2, <3>1 DEF CreatesOnce
  <2> QED
    BY <2>3, <2>4
<1>11. CreatesOnce(next)
  BY <1>10 DEF CreatesOnce
<1>12. ASSUME NEW k \in DOMAIN next, next[k].do = "confirm"
       PROVE  k = 1 \/ (k = 2 /\ next[1].do \in Saving)
  <2>1. CASE k \in 1 .. n
    <3>1. k = 2 /\ steps[1].do \in Saving
      BY <1>1, <1>4, <1>12, <2>1
    <3> QED
      BY <1>1, <2>1, <3>1
  <2>2. CASE ~ k \in 1 .. n
    <3> DEFINE c == k - n + 1
    <3>1. c \in 2 .. Len(job) /\ c \in DOMAIN job /\ next[k] = job[c]
      BY <1>6, <2>2
    <3>2. c = 2 /\ h.do \in Saving
      BY <1>1, <1>3, <1>7, <1>12, <3>1 DEF ConfirmsSoon
    <3>3. k = n + 1
      BY <1>1, <3>2
    <3>4. CASE n = 0
      BY <3>3, <3>4
    <3>5. CASE n = 1 /\ steps[1].do \in Saving
      <4>1. next[1] = steps[1] /\ k = 2
        BY <1>1, <3>3, <3>5
      <4> QED
        BY <3>5, <4>1
    <3> QED
      BY <1>5, <3>2, <3>4, <3>5
  <2> QED
    BY <2>1, <2>2
<1>13. ConfirmsSoon(next)
  BY <1>12 DEF ConfirmsSoon
<1> QED
  BY <1>9, <1>11, <1>13 DEF Sorted, next

LEMMA CallStaysSound ==
    ASSUME HasJobs, NEW t \in Threads, Busy(t), NEW S, NEW steps \in Seq(S),
           jobs'[t] = steps \o Tail(jobs[t]),
           \A k \in DOMAIN jobs[t] : IsSound(Runs, jobs[t], k),
           \A k \in DOMAIN steps : IsSound(Runs', steps, k),
           \A k \in 2 .. Len(jobs[t]) :
              jobs[t][k].do \in {"create", "confirm", "remove"} =>
                 Runs'[jobs[t][k].id] \subseteq Runs[jobs[t][k].id],
           Head(jobs[t]).do = "stop" => Runs'[Head(jobs[t]).id] = {}
    PROVE  \A k \in DOMAIN jobs'[t] : IsSound(Runs', jobs'[t], k)
<1> DEFINE job == jobs[t]
           next == jobs'[t]
           n == Len(steps)
           r == Runs
           r2 == Runs'
<1>1. /\ n \in Nat /\ Len(job) \in Nat \ {0}
      /\ DOMAIN steps = 1 .. n /\ DOMAIN job = 1 .. Len(job)
      /\ DOMAIN next = 1 .. (n + Len(job) - 1)
      /\ \A k \in 1 .. n : next[k] = steps[k]
      /\ \A k \in 2 .. Len(job) : next[n + k - 1] = job[k]
  BY CallFacts, SMTT(30)
<1>2. job[1] = Head(job)
  BY JobShape
<1>3. \A k \in 2 .. Len(job) : job[k] \in LaterSteps
  <2>1. /\ Tail(job) \in Seq(LaterSteps) /\ Len(Tail(job)) = Len(job) - 1
        /\ \A k \in 1 .. (Len(job) - 1) : Tail(job)[k] = job[k + 1]
    BY JobShape
  <2> HIDE DEF job
  <2>2. ASSUME NEW k \in 2 .. Len(job) PROVE job[k] \in LaterSteps
    <3>1. k - 1 \in 1 .. (Len(job) - 1) /\ (k - 1) + 1 = k
      BY <1>1
    <3>2. Tail(job)[k - 1] \in LaterSteps
      BY <2>1, <3>1
    <3> QED
      BY <2>1, <3>1, <3>2
  <2> QED
    BY <2>2
<1>4. /\ \A k \in DOMAIN job : IsSound(r, job, k)
      /\ \A k \in DOMAIN steps : IsSound(r2, steps, k)
      /\ \A k \in 2 .. Len(job) :
            job[k].do \in {"create", "confirm", "remove"} => r2[job[k].id] \subseteq r[job[k].id]
      /\ Head(job).do = "stop" => r2[Head(job).id] = {}
  OBVIOUS
<1> HIDE DEF job, next, n, r, r2
<1>5. ASSUME NEW k \in DOMAIN next PROVE IsSound(r2, next, k)
  <2>1. CASE k \in 1 .. n
    <3>1. IsSound(r2, steps, k) /\ next[k] = steps[k]
      BY <1>1, <1>4, <2>1
    <3>2. StopsBefore(steps, k) => StopsBefore(next, k)
      <4>1. \A j \in 1 .. (k - 1) : j \in 1 .. n
        BY <1>1, <2>1
      <4> QED
        BY <1>1, <3>1, <4>1 DEF StopsBefore
    <3> QED
      BY <3>1, <3>2 DEF IsSound
  <2>2. CASE ~ k \in 1 .. n
    <3> DEFINE c == k - n + 1
    <3>1. c \in 2 .. Len(job) /\ n + c - 1 = k /\ c \in DOMAIN job
      BY <1>1, <2>2
    <3>2. next[k] = job[c] /\ job[c] \in LaterSteps /\ IsSound(r, job, c)
      BY <1>1, <1>3, <1>4, <3>1
    <3> DEFINE s == job[c]
    <3>3. s.do \in {"save", "start", "stop", "remove", "confirm", "delete", "create"}
      BY <3>2, KindsOfSteps
    <3>4. s.do \in {"create", "confirm", "remove"} => r2[s.id] \subseteq r[s.id]
      BY <1>4, <3>1
    <3>5. ASSUME s.do = "remove" PROVE r2[s.id] = {} \/ StopsBefore(next, k)
      <4>1. CASE r[s.id] = {}
        BY <3>4, <3>5, <4>1
      <4>2. CASE StopsBefore(job, c)
        <5>1. PICK j \in 1 .. (c - 1) : job[j].do = "stop" /\ job[j].id = s.id
          BY <4>2 DEF StopsBefore
        <5>2. CASE j = 1
          BY <1>2, <1>4, <5>1, <5>2
        <5>3. CASE j # 1
          <6>1. /\ j \in 2 .. Len(job) /\ n + j - 1 \in 1 .. (k - 1)
                /\ next[n + j - 1] = job[j]
            BY <1>1, <3>1, <5>1, <5>3
          <6> QED
            BY <3>2, <5>1, <6>1 DEF StopsBefore
        <5> QED
          BY <5>2, <5>3
      <4> QED
        BY <3>2, <3>5, <4>1, <4>2 DEF IsSound
    <3> HIDE DEF c
    <3>6. /\ s.do = "confirm" => r2[s.id] \subseteq {s.pid}
          /\ s.do = "create" => r2[s.id] = {}
      BY <3>2, <3>4 DEF IsSound
    <3> QED
      BY <3>2, <3>3, <3>5, <3>6 DEF IsSound
  <2> QED
    BY <2>1, <2>2
<1> QED
  BY <1>5 DEF next, r2

\* A job that goes on with nothing, a step, a save, or a save and a step.
LEMMA StepStaysSound ==
    ASSUME HasJobs, NEW t \in Threads, Busy(t), Sorted(jobs[t]),
           \A k \in DOMAIN jobs[t] : IsSound(Runs, jobs[t], k),
           NEW s, NEW steps \in {<<>>, <<s>>, Save, Save \o <<s>>}, Call(t, steps),
           s.do \notin {"create", "remove"},
           s.do \in Building => Head(jobs[t]).do \in Building,
           s.do \in Removing => Head(jobs[t]).do \in Removing,
           Names(s) \subseteq Names(Head(jobs[t])),
           s.do = "confirm" => steps = Save \o <<s>>,
           Head(jobs[t]).do \in Saving => steps \in {<<>>, <<s>>} /\ s.do \in Saving,
           s.do \in {"record", "confirm"} => Runs'[s.id] \subseteq {s.pid},
           s.do \in {"spawn", "forget", "insert", "insert_hmi"} => Runs'[s.id] = {},
           \A k \in 2 .. Len(jobs[t]) :
              jobs[t][k].do \in {"create", "confirm", "remove"} =>
                 Runs'[jobs[t][k].id] \subseteq Runs[jobs[t][k].id],
           Head(jobs[t]).do = "stop" => Runs'[Head(jobs[t]).id] = {}
    PROVE  Sorted(jobs'[t]) /\ \A k \in DOMAIN jobs'[t] : IsSound(Runs', jobs'[t], k)
<1> DEFINE save == [do |-> "save"]
           S == {s, save}
<1>1. Names(save) = {} /\ save.do = "save"
  BY DEF Names
<1>2. save \in S /\ s \in S
  OBVIOUS
<1>3. jobs'[t] = steps \o Tail(jobs[t])
  BY DEF Call, Continue, HasJobs
<1>4. Save = <<save>>
  BY DEF Save
<1> HIDE DEF save, S
<1>5. steps \in Seq(S)
  <2>1. <<save>> \in Seq(S) /\ <<s>> \in Seq(S) /\ <<>> \in Seq(S)
    BY <1>2
  <2>2. <<save>> \o <<s>> \in Seq(S)
    BY <2>1, ConcatProperties
  <2> QED
    BY <1>4, <2>1, <2>2
<1>6. /\ DOMAIN steps = 1 .. Len(steps)
      /\ steps = <<>> => Len(steps) = 0
      /\ steps = <<s>> => steps[1] = s /\ Len(steps) = 1
      /\ steps = Save => steps[1] = save /\ Len(steps) = 1
      /\ steps = Save \o <<s>> => steps[1] = save /\ steps[2] = s /\ Len(steps) = 2
  BY <1>4
<1>7. ASSUME NEW k \in DOMAIN steps
      PROVE  (steps[k] = s \/ steps[k] = save) /\ k \in {1, 2}
  <2>1. CASE steps = <<>>
    BY <1>6, <1>7, <2>1
  <2>2. CASE steps = <<s>>
    BY <1>6, <1>7, <2>2
  <2>3. CASE steps = Save
    BY <1>6, <1>7, <2>3
  <2>4. CASE steps = Save \o <<s>>
    BY <1>6, <1>7, <2>4
  <2> QED
    BY <2>1, <2>2, <2>3, <2>4
<1>8. ASSUME NEW k \in DOMAIN steps PROVE IsSound(Runs', steps, k)
  BY <1>1, <1>7 DEF IsSound
<1>9. ASSUME NEW k \in DOMAIN steps, steps[k].do = "confirm"
      PROVE  k = 2 /\ steps[1].do \in Saving
  <2>1. steps[k] = s /\ steps = Save \o <<s>>
    BY <1>1, <1>7, <1>9
  <2>2. steps[1] = save /\ k \in {1, 2}
    BY <1>6, <1>7, <2>1
  <2> QED
    BY <1>1, <1>9, <2>2 DEF Saving
<1>10. ASSUME NEW k \in DOMAIN steps
       PROVE  /\ steps[k].do \in Building => Head(jobs[t]).do \in Building
              /\ steps[k].do \in Removing => Head(jobs[t]).do \in Removing
              /\ steps[k].do # "create"
              /\ Names(steps[k]) \subseteq Names(Head(jobs[t]))
  BY <1>1, <1>7 DEF Building, Removing
<1>11. Head(jobs[t]).do \in Saving =>
          Len(steps) = 0 \/ (Len(steps) = 1 /\ steps[1].do \in Saving)
  <2>1. ASSUME Head(jobs[t]).do \in Saving
        PROVE  steps = <<>> \/ (steps = <<s>> /\ s.do \in Saving)
    BY <2>1
  <2> QED
    BY <1>6, <2>1
<1>12. Sorted(jobs'[t])
  BY <1>3, <1>5, <1>9, <1>10, <1>11, CallStaysSorted
<1>13. \A k \in DOMAIN jobs'[t] : IsSound(Runs', jobs'[t], k)
  BY <1>3, <1>5, <1>8, CallStaysSound
<1> QED
  BY <1>12, <1>13

\* A job that ends, or is replaced by a removal.
LEMMA DeletesStaySound ==
    ASSUME NEW job, NEW ids, job = DeleteEach(ids), NEW runs
    PROVE  Sorted(job) /\ \A k \in DOMAIN job : IsSound(runs, job, k)
<1>1. CASE ids = {}
  <2>1. DOMAIN job = {}
    BY <1>1 DEF DeleteEach
  <2> QED
    BY <2>1 DEF Sorted, NeverMixes, CreatesOnce, ConfirmsSoon
<1>2. CASE ids # {}
  <2> DEFINE s == [do |-> "delete", ids |-> ids]
  <2>1. job = <<s>>
    BY <1>2 DEF DeleteEach
  <2>2. DOMAIN job = {1} /\ job[1] = s /\ s.do = "delete"
    BY <2>1
  <2> HIDE DEF s
  <2> QED
    BY <2>2 DEF Sorted, NeverMixes, CreatesOnce, ConfirmsSoon, IsSound, Building
<1> QED
  BY <1>1, <1>2

-----------------------------------------------------------------------------
\* What steps do to processes.

NoNewProcess ==
    \A p \in LivePids' :
        p \in LivePids /\ procs'[p].id = procs[p].id /\ procs'[p].device = procs[p].device

LEMMA EndedKeeps ==
    ASSUME AreProcesses(procs), NEW pid \in DOMAIN procs
    PROVE  \A p \in DOMAIN Ended(pid) :
              Ended(pid)[p].live =>
                 /\ p # pid /\ p \in DOMAIN procs /\ procs[p].live
                 /\ Ended(pid)[p].id = procs[p].id /\ Ended(pid)[p].device = procs[p].device
<1>1. \A p \in DOMAIN procs : procs[p] \in Process
  BY DEF AreProcesses
<1>2. CASE procs[pid].child
  <2>1. Ended(pid) = [procs EXCEPT ![pid].live = FALSE]
    BY <1>2 DEF Ended
  <2>2. Ended(pid)[pid].live = FALSE
    BY <1>1, <2>1 DEF Process
  <2>3. \A p \in DOMAIN procs \ {pid} : Ended(pid)[p] = procs[p]
    BY <2>1
  <2> QED
    BY <2>1, <2>2, <2>3
<1>3. CASE ~ procs[pid].child
  BY <1>3 DEF Ended, Without, Restrict
<1> QED
  BY <1>2, <1>3

LEMMA ReleasedKeeps ==
    ASSUME AreProcesses(procs), NEW pid
    PROVE  \A p \in DOMAIN Released(pid) :
              Released(pid)[p].live =>
                 /\ p \in DOMAIN procs /\ procs[p].live
                 /\ Released(pid)[p].id = procs[p].id
                 /\ Released(pid)[p].device = procs[p].device
<1>1. \A p \in DOMAIN procs : procs[p] \in Process
  BY DEF AreProcesses
<1>2. CASE ~ Alive(pid)
  BY <1>2 DEF Released
<1>3. CASE Alive(pid) /\ procs[pid].live
  <2>1. Released(pid) = [procs EXCEPT ![pid].held = None]
    BY <1>3 DEF Released
  <2>2. \A p \in DOMAIN procs :
           /\ Released(pid)[p].live = procs[p].live
           /\ Released(pid)[p].id = procs[p].id /\ Released(pid)[p].device = procs[p].device
    BY <1>1, <2>1 DEF Process
  <2> QED
    BY <2>1, <2>2
<1>4. CASE Alive(pid) /\ ~ procs[pid].live
  BY <1>4 DEF Released, Without, Restrict
<1> QED
  BY <1>2, <1>3, <1>4

LEMMA RunsShrink ==
    ASSUME NoNewProcess,
           \A p \in LivePids : procs[p].device \in suspect => procs[p].device \in suspect'
    PROVE  \A id \in Ids : Runs'[id] \subseteq Runs[id]
BY DEF NoNewProcess, Runs, LivePids

-----------------------------------------------------------------------------
\* A step leaves in sight what was.

\* The device of what a job names and the store knows is the request's.
LEMMA NamedOfRequest ==
    ASSUME StepsAreWithin, NEW t \in Threads, NEW id \in Ids, id \in JobNames(jobs[t]), Known(id)
    PROVE  DeviceOf(id) \in request[t].devices
<1>1. Within(t, id)
  BY DEF StepsAreWithin
<1>2. CASE id \in HmiIds
  BY <1>1, <1>2, PartOfId DEF Within, Known, DeviceOf, Entry
<1>3. CASE id \notin HmiIds
  BY <1>1, <1>3 DEF Within, DeviceOf
<1> QED
  BY <1>2, <1>3

LEMMA KnownByOne ==
    ASSUME JobsKeepOrder, NEW t \in Threads, NEW u \in Threads, t # u, NEW id \in Ids,
           id \in JobNames(jobs[t]), Known(id), DeviceOf(id) \notin suspect
    PROVE  id \notin JobNames(jobs[u]) /\ DeviceOf(id) \notin request[u].devices
<1>1. DeviceOf(id) \in request[t].devices
  BY NamedOfRequest DEF JobsKeepOrder
<1>2. DeviceOf(id) \notin request[u].devices
  BY <1>1 DEF JobsKeepOrder, RequestsOverlap
<1> QED
  BY <1>2, NamedOfRequest DEF JobsKeepOrder

\* Kept entries are known as before.
LEMMA KeptEntries ==
    ASSUME NEW id \in Ids,
           id \in DOMAIN store'[Part(id)] <=> id \in DOMAIN store[Part(id)],
           id \in DOMAIN store[Part(id)] => store'[Part(id)][id] = store[Part(id)][id]
    PROVE  /\ Known(id)' <=> Known(id)
           /\ Known(id) => Entry(id)' = Entry(id) /\ DeviceOf(id)' = DeviceOf(id)
BY DEF Known, Entry, DeviceOf, Part

LEMMA ShownStay ==
    ASSUME FleetTypes, AreShown, NEW t \in Threads, IsStepOf(t), NoNewProcess,
           NEW x, KeepsEntries(x), store' = store \/ (x \in Ids => Runs'[x] = {}),
           ~ At(t, "record")
    PROVE  AreShown'
<1>1. /\ suspect' = suspect /\ \A u \in Threads \ {t} : jobs'[u] = jobs[u]
  BY DEF IsStepOf
<1>2. \A id \in Ids : Runs'[id] \subseteq Runs[id]
  BY <1>1, RunsShrink
<1>3. ASSUME NEW id \in Ids, NEW p \in Runs'[id]
      PROVE  Known(id)' /\ DeviceOf(id)' = procs'[p].device /\ IsWritten(id, p)'
  <2>1. /\ Known(id) /\ DeviceOf(id) = procs[p].device /\ IsWritten(id, p)
        /\ procs'[p].device = procs[p].device
    BY <1>2, <1>3 DEF AreShown, NoNewProcess, Runs
  <2>2. /\ id \in DOMAIN store'[Part(id)] <=> id \in DOMAIN store[Part(id)]
        /\ id \in DOMAIN store[Part(id)] => store'[Part(id)][id] = store[Part(id)][id]
    BY <1>3 DEF KeepsEntries
  <2>3. Known(id)' /\ Entry(id)' = Entry(id) /\ DeviceOf(id)' = DeviceOf(id)
    BY <2>1, <2>2, KeptEntries
  <2>4. IsWritten(id, p)'
    <3>1. CASE Entry(id).pid = p
      BY <2>3, <3>1 DEF IsWritten
    <3>2. ASSUME NEW u \in Threads, At(u, "record"), Head(jobs[u]).id = id, Head(jobs[u]).pid = p
          PROVE  IsWritten(id, p)'
      <4>1. jobs'[u] = jobs[u]
        BY <1>1, <3>2
      <4> QED
        BY <3>2, <4>1 DEF IsWritten, At
    <3> QED
      BY <2>1, <3>1, <3>2 DEF IsWritten
  <2> QED
    BY <2>1, <2>3, <2>4
<1> QED
  BY <1>3 DEF AreShown, Ids

LEMMA SpawnsStayFit ==
    ASSUME FleetTypes, JobsKeepOrder, SpawnsFit, NEW t \in Threads, IsStepOf(t),
           NEW x, KeepsEntries(x), store' = store \/ x \in JobNames(jobs[t]), FitsSpawn(t)'
    PROVE  SpawnsFit'
<1>1. /\ suspect' = suspect
      /\ \A u \in Threads \ {t} : jobs'[u] = jobs[u] /\ request'[u] = request[u]
  BY DEF IsStepOf
<1>2. ASSUME NEW u \in Threads \ {t} PROVE FitsSpawn(u)'
  <2> SUFFICES ASSUME At(u, "spawn")' PROVE FitsSpawn(u)'
    BY DEF FitsSpawn
  <2> DEFINE s == Head(jobs[u])
             id == s.id
             d == SpawnDevice(s)
  <2>1. At(u, "spawn") /\ Head(jobs'[u]) = s /\ request'[u] = request[u]
    BY <1>1 DEF At
  <2>2. d \in request[u].devices /\ (d \notin suspect => Known(id) /\ DeviceOf(id) = d)
    BY <2>1 DEF SpawnsFit, FitsSpawn
  <2>3. id \in Ids /\ id \in JobNames(jobs[u])
    BY <2>1, NextOfJob, NameOfHead DEF FleetTypes, Ids
  <2>4. ASSUME d \notin suspect
        PROVE  /\ id \in DOMAIN store'[Part(id)]
               /\ d = IF id \in HmiIds THEN store'[Part(id)][id].device ELSE id
    <3>1. Known(id) /\ DeviceOf(id) = d
      BY <2>2, <2>4
    <3>2. store' = store \/ id # x
      BY <1>2, <2>3, <2>4, <3>1, KnownByOne
    <3>3. /\ id \in DOMAIN store'[Part(id)] <=> id \in DOMAIN store[Part(id)]
          /\ id \in DOMAIN store[Part(id)] => store'[Part(id)][id] = store[Part(id)][id]
      BY <2>3, <3>2 DEF KeepsEntries
    <3> HIDE DEF id, d
    <3> QED
      BY <3>1, <3>3 DEF Known, Entry, DeviceOf
  <2> QED
    BY <1>1, <2>1, <2>2, <2>4 DEF FitsSpawn, SpawnDevice, Known, DeviceOf, Entry, Part
<1> QED
  BY <1>2 DEF SpawnsFit

\* The steps of other jobs know of no other processes than they did.
LEMMA OthersStaySound ==
    ASSUME FleetTypes, StepsAreSound, NEW t \in Threads,
           \A u \in Threads \ {t} : jobs'[u] = jobs[u],
           \A u \in Threads \ {t} : \A id \in JobNames(jobs[u]) : Runs'[id] \subseteq Runs[id],
           \A k \in DOMAIN jobs'[t] : IsSound(Runs', jobs'[t], k)
    PROVE  StepsAreSound'
<1>1. ASSUME NEW u \in Threads \ {t}, NEW k \in DOMAIN jobs[u]
      PROVE  IsSound(Runs', jobs[u], k)
  <2> DEFINE s == jobs[u][k]
  <2>1. IsSound(Runs, jobs[u], k)
    BY DEF StepsAreSound
  <2>2. s \in Range(jobs[u]) /\ Names(s) \subseteq JobNames(jobs[u])
    BY DEF Range, JobNames
  <2>3. ASSUME s.do \in {"record", "confirm", "spawn", "forget", "create", "insert", "insert_hmi", "remove"}
        PROVE  Runs'[s.id] \subseteq Runs[s.id]
    <3>1. s.id \in Names(s)
      BY <2>3 DEF Names
    <3> QED
      BY <2>2, <3>1
  <2> HIDE DEF s
  <2> QED
    BY <2>1, <2>3 DEF IsSound, s
<1>2. ASSUME NEW u \in Threads, NEW k \in DOMAIN jobs'[u]
      PROVE  IsSound(Runs', jobs'[u], k)
  BY <1>1, <1>2
<1> QED
  BY <1>2 DEF StepsAreSound, IsSound, StopsBefore

LEMMA StepStaysInSight ==
    ASSUME FleetTypes, JobsKeepOrder, ProcessesInSight,
           NEW t \in Threads, IsStepOf(t), NoNewProcess, ~ At(t, "record"),
           NEW x, KeepsEntries(x),
           store' = store \/ (x \in JobNames(jobs[t]) /\ Runs'[x] = {}),
           FitsSpawn(t)', Sorted(jobs'[t]),
           \A k \in DOMAIN jobs'[t] : IsSound(Runs', jobs'[t], k)
    PROVE  ProcessesInSight'
<1>1. /\ suspect' = suspect
      /\ \A u \in Threads \ {t} : jobs'[u] = jobs[u]
  BY DEF IsStepOf
<1>2. \A id \in Ids : Runs'[id] \subseteq Runs[id]
  BY <1>1, RunsShrink
<1>3. \A u \in Threads : JobNames(jobs[u]) \subseteq Ids
  BY NamesAreIds DEF FleetTypes
<1>4. JobsAreSorted'
  BY <1>1 DEF ProcessesInSight, JobsAreSorted, Sorted, NeverMixes, CreatesOnce, ConfirmsSoon
<1>5. StepsAreSound'
  BY <1>1, <1>2, <1>3, OthersStaySound DEF ProcessesInSight
<1>6. SpawnsFit'
  BY SpawnsStayFit DEF ProcessesInSight
<1>7. AreShown'
  BY ShownStay DEF ProcessesInSight
<1> QED
  BY <1>4, <1>5, <1>6, <1>7 DEF ProcessesInSight

LEMMA HeadOfCall ==
    ASSUME HasJobs, NEW t \in Threads, Busy(t),
           NEW s, NEW steps \in {<<>>, <<s>>, Save, Save \o <<s>>}, Call(t, steps),
           s.do # "spawn"
    PROVE  ~ At(t, "spawn")'
<1> DEFINE save == [do |-> "save"]
           S == {s, save}
<1>1. save.do = "save" /\ save \in S /\ s \in S /\ Save = <<save>>
  BY DEF Save
<1>2. jobs'[t] = steps \o Tail(jobs[t])
  BY DEF Call, Continue, HasJobs
<1> HIDE DEF save, S
<1>3. steps \in Seq(S)
  <2>1. <<save>> \in Seq(S) /\ <<s>> \in Seq(S) /\ <<>> \in Seq(S)
    BY <1>1
  <2>2. <<save>> \o <<s>> \in Seq(S)
    BY <2>1, ConcatProperties
  <2> QED
    BY <1>1, <2>1, <2>2
<1> DEFINE T == S \cup LaterSteps
<1>4. steps \in Seq(T) /\ Tail(jobs[t]) \in Seq(T)
  BY <1>3, JobShape, SeqMonotonic
<1>5. \A x \in T : x.do # "spawn"
  BY <1>1, KindsOfSteps DEF S
<1> HIDE DEF T
<1>6. jobs'[t] \in Seq(T)
  BY <1>2, <1>4, ConcatProperties
<1>7. jobs'[t] # <<>> => Head(jobs'[t]) \in T
  BY <1>6
<1> QED
  BY <1>5, <1>7 DEF At

LEMMA CallInSight ==
    ASSUME FleetTypes, JobsKeepOrder, ProcessesInSight,
           NEW t \in Threads, NEW do, At(t, do), do # "record", IsStepOf(t), NoNewProcess,
           NEW x, KeepsEntries(x),
           store' = store \/ (x \in JobNames(jobs[t]) /\ Runs'[x] = {}),
           NEW s, NEW steps \in {<<>>, <<s>>, Save, Save \o <<s>>}, Call(t, steps),
           s.do \notin {"create", "remove"},
           s.do \in Building => do \in Building,
           s.do \in Removing => do \in Removing,
           Names(s) \subseteq Names(Head(jobs[t])),
           s.do = "confirm" => steps = Save \o <<s>>,
           do \in Saving => steps \in {<<>>, <<s>>} /\ s.do \in Saving,
           s.do \in {"record", "confirm"} => Runs'[s.id] \subseteq {s.pid},
           s.do \in {"spawn", "forget", "insert", "insert_hmi"} => Runs'[s.id] = {},
           do = "stop" => Runs'[Head(jobs[t]).id] = {},
           s.do = "spawn" => FitsSpawn(t)'
    PROVE  ProcessesInSight'
<1>1. Busy(t) /\ Head(jobs[t]).do = do
  BY DEF At, Busy
<1>2. HasJobs /\ suspect' = suspect /\ ~ At(t, "record")
  BY DEF FleetTypes, IsStepOf, At
<1>3. Sorted(jobs[t]) /\ \A k \in DOMAIN jobs[t] : IsSound(Runs, jobs[t], k)
  BY DEF ProcessesInSight, JobsAreSorted, StepsAreSound
<1>4. \A id \in Ids : Runs'[id] \subseteq Runs[id]
  BY <1>2, RunsShrink
<1>5. \A k \in 2 .. Len(jobs[t]) :
         jobs[t][k].do \in {"create", "confirm", "remove"} =>
            Runs'[jobs[t][k].id] \subseteq Runs[jobs[t][k].id]
  <2>1. ASSUME NEW k \in 2 .. Len(jobs[t]), jobs[t][k].do \in {"create", "confirm", "remove"}
        PROVE  jobs[t][k].id \in Ids
    <3>1. k \in DOMAIN jobs[t]
      BY <1>1, <1>2, JobShape
    <3>2. jobs[t][k] \in Range(jobs[t]) /\ jobs[t][k].id \in Names(jobs[t][k])
      BY <2>1, <3>1 DEF Range, Names
    <3> QED
      BY <1>2, <3>2, NamesAreIds DEF JobNames
  <2> QED
    BY <1>4, <2>1
<1>6. Sorted(jobs'[t]) /\ \A k \in DOMAIN jobs'[t] : IsSound(Runs', jobs'[t], k)
  BY <1>1, <1>2, <1>3, <1>5, StepStaysSound
<1>7. FitsSpawn(t)'
  BY <1>1, <1>2, HeadOfCall DEF FitsSpawn
<1> QED
  BY <1>2, <1>6, <1>7, StepStaysInSight

LEMMA EndInSight ==
    ASSUME FleetTypes, JobsKeepOrder, ProcessesInSight,
           NEW t \in Threads, IsStepOf(t), NoNewProcess, ~ At(t, "record"), store' = store,
           NEW ids, jobs'[t] = DeleteEach(ids)
    PROVE  ProcessesInSight'
<1>1. Sorted(jobs'[t]) /\ \A k \in DOMAIN jobs'[t] : IsSound(Runs', jobs'[t], k)
  BY DeletesStaySound
<1>2. FitsSpawn(t)'
  BY DEF FitsSpawn, DeleteEach, At
<1>3. KeepsEntries(t)
  BY SameStoreKeepsEntries
<1> QED
  BY <1>1, <1>2, <1>3, StepStaysInSight

\* The processes for what a job is about to work on are those that the entry names.
LEMMA HeadIsWritten ==
    ASSUME FleetTypes, JobsKeepOrder, ProcessesInSight, NEW t \in Threads, NEW do, At(t, do),
           do \notin {"delete", "save", "write_devices", "write_hmis", "record"}
    PROVE  LET id == Head(jobs[t]).id
           IN  id \in Ids /\ id \in JobNames(jobs[t]) /\ Busy(t)
               /\ \A p \in Runs[id] : Known(id) /\ Entry(id).pid = p /\ Live(p)
<1> DEFINE id == Head(jobs[t]).id
<1>1. id \in JobNames(jobs[t]) /\ Busy(t) /\ id \in Ids /\ ~ At(t, "record")
  BY NameOfHead, NamesAreIds DEF FleetTypes, At
<1>2. ASSUME NEW p \in Runs[id] PROVE Known(id) /\ Entry(id).pid = p /\ Live(p)
  <2>1. /\ Known(id) /\ DeviceOf(id) = procs[p].device /\ IsWritten(id, p)
        /\ procs[p].device \notin suspect /\ Live(p)
    BY <1>1, <1>2 DEF ProcessesInSight, AreShown, Runs, LivePids, Live, Alive
  <2>2. ASSUME NEW u \in Threads, At(u, "record"), Head(jobs[u]).id = id PROVE FALSE
    <3>1. id \in JobNames(jobs[u]) /\ u # t
      BY <1>1, <2>2, NameOfHead DEF FleetTypes
    <3> QED
      BY <1>1, <2>1, <3>1, KnownByOne
  <2> QED
    BY <2>1, <2>2 DEF IsWritten
<1> QED
  BY <1>1, <1>2

\* A job that only goes on.
LEMMA RestInSight ==
    ASSUME FleetTypes, JobsKeepOrder, ProcessesInSight,
           NEW t \in Threads, NEW do, At(t, do), do \notin Saving \cup {"record"},
           IsStepOf(t), NoNewProcess,
           NEW x, KeepsEntries(x),
           store' = store \/ (x \in JobNames(jobs[t]) /\ Runs'[x] = {}),
           Call(t, <<>>) \/ Call(t, Save),
           do = "stop" => Runs'[Head(jobs[t]).id] = {}
    PROVE  ProcessesInSight'
<1> DEFINE s == [do |-> "save"]
<1>1. Names(s) = {} /\ s.do = "save"
  BY DEF Names
<1> HIDE DEF s
<1>2. /\ s.do \notin {"create", "remove", "record", "confirm", "spawn", "forget", "insert", "insert_hmi"}
      /\ s.do \notin Building /\ s.do \notin Removing
  BY <1>1 DEF Building, Removing
<1>3. PICK steps \in {<<>>, <<s>>, Save, Save \o <<s>>} : Call(t, steps)
  OBVIOUS
<1> QED
  BY <1>1, <1>2, <1>3, CallInSight

LEMMA SameProcesses ==
    ASSUME procs' = procs
    PROVE  NoNewProcess
BY DEF NoNewProcess, LivePids

LEMMA StartInSight ==
    ASSUME FleetTypes, JobsKeepOrder, ProcessesInSight,
           NEW t \in Threads, Start(t), IsStepOf(t)
    PROVE  ProcessesInSight'
<1> DEFINE id == Head(jobs[t]).id
           s == [do |-> "spawn", id |-> id, entry |-> Entry(id)]
<1>1. At(t, "start") /\ ~ At(t, "record") /\ store' = store /\ procs' = procs
  BY DEF Start, At
<1>2. NoNewProcess /\ KeepsEntries(t) /\ suspect' = suspect
  BY <1>1, SameProcesses, SameStoreKeepsEntries DEF IsStepOf
<1>3. /\ id \in Ids /\ id \in JobNames(jobs[t]) /\ Busy(t)
      /\ \A p \in Runs[id] : Known(id) /\ Entry(id).pid = p /\ Live(p)
  BY <1>1, HeadIsWritten
<1>4. CASE KeyError(t)
  <2>1. jobs'[t] = DeleteEach({})
    BY <1>4 DEF KeyError, Continue, DeleteEach, FleetTypes, HasJobs
  <2> QED
    BY <1>1, <1>2, <2>1, EndInSight
<1>5. CASE Call(t, <<>>)
  BY <1>1, <1>2, <1>5, RestInSight DEF Saving
<1>6. CASE Known(id) /\ ~ Alive(Entry(id).pid) /\ Call(t, <<s>>)
  <2>1. s.do = "spawn" /\ s.id = id /\ s.entry = Entry(id) /\ Names(s) = {id}
    BY DEF Names
  <2>2. Runs[id] = {}
    BY <1>3, <1>6 DEF Live
  <2>3. Runs'[id] = {}
    BY <1>2, <1>3, <2>2, RunsShrink
  <2>4. Names(Head(jobs[t])) = {id}
    BY <1>1, NameOfHead DEF FleetTypes
  <2> HIDE DEF s
  <2>5. FitsSpawn(t)'
    <3>1. jobs'[t] = <<s>> \o Tail(jobs[t]) /\ Tail(jobs[t]) \in Seq(LaterSteps)
      BY <1>1, <1>6, JobFacts DEF Call, Continue, FleetTypes, HasJobs
    <3>2. jobs'[t] # <<>> /\ Head(jobs'[t]) = s
      BY <3>1, Prepended
    <3>3. request'[t] = request[t]
      BY <3>2 DEF IsStepOf
    <3>4. SpawnDevice(s) = DeviceOf(id)
      BY <2>1 DEF SpawnDevice, DeviceOf
    <3>5. DeviceOf(id) \in request[t].devices
      BY <1>3, <1>6, NamedOfRequest DEF JobsKeepOrder
    <3>6. Known(s.id) /\ DeviceOf(s.id) = SpawnDevice(s)
      BY <1>6, <2>1, <3>4
    <3> QED
      BY <1>1, <1>2, <3>2, <3>3, <3>4, <3>5, <3>6
         DEF FitsSpawn, At, SpawnDevice, Known, DeviceOf, Entry, Part
  <2> QED
    <3>1. "spawn" \in Building /\ "start" \in Building
          /\ "start" \notin Saving /\ "spawn" \notin Removing
      BY DEF Building, Removing, Saving
    <3>2. Call(t, <<s>>) /\ s.do = "spawn" /\ s.id = id /\ Names(s) = Names(Head(jobs[t]))
      BY <1>6, <2>1, <2>4
    <3> HIDE DEF s
    <3> QED
      BY <1>1, <1>2, <2>3, <2>5, <3>1, <3>2, CallInSight
<1> QED
  BY <1>4, <1>5, <1>6 DEF Start

\* What a job's next step knows.
LEMMA HeadIsSound ==
    ASSUME FleetTypes, ProcessesInSight, NEW t \in Threads, NEW do, At(t, do)
    PROVE  LET s == Head(jobs[t])
           IN  /\ do \in {"record", "confirm"} => Runs[s.id] \subseteq {s.pid}
               /\ do \in {"spawn", "forget", "create", "insert", "insert_hmi", "remove"} =>
                     Runs[s.id] = {}
<1>1. 1 \in DOMAIN jobs[t] /\ jobs[t][1] = Head(jobs[t]) /\ Head(jobs[t]).do = do
  BY JobShape DEF FleetTypes, At, Busy
<1>2. IsSound(Runs, jobs[t], 1)
  BY <1>1 DEF ProcessesInSight, StepsAreSound
<1>3. ~ StopsBefore(jobs[t], 1)
  BY DEF StopsBefore
<1> QED
  BY <1>1, <1>2, <1>3 DEF IsSound

LEMMA RecordInSight ==
    ASSUME FleetTypes, JobsKeepOrder, ProcessesInSight,
           NEW t \in Threads, Record(t), IsStepOf(t)
    PROVE  ProcessesInSight'
<1> DEFINE s == Head(jobs[t])
           next == [s EXCEPT !.do = "confirm"]
           steps == Save \o <<next>>
<1>1. /\ At(t, "record") /\ procs' = procs /\ store' = PutPid(s.id, s.pid) /\ Call(t, steps)
  BY DEF Record
<1>2. /\ NoNewProcess /\ suspect' = suspect /\ HasJobs
      /\ \A u \in Threads \ {t} : jobs'[u] = jobs[u]
  BY <1>1, SameProcesses DEF IsStepOf, FleetTypes
<1>3. /\ Busy(t) /\ s.do = "record" /\ s \in [do : {"record"}, id : Ids, pid : Pids]
      /\ Names(s) = {s.id} /\ s.id \in JobNames(jobs[t])
  BY <1>1, NameOfHead, NextOfJob DEF FleetTypes
<1>4. \A id \in Ids : Runs'[id] \subseteq Runs[id]
  BY <1>2, RunsShrink
<1>5. Runs[s.id] \subseteq {s.pid}
  BY <1>1, HeadIsSound
<1>6. next.do = "confirm" /\ next.id = s.id /\ next.pid = s.pid /\ Names(next) = {s.id}
  BY <1>3 DEF Names
<1>7. /\ KeepsEntries(s.id)
      /\ Known(s.id) <=> s.id \in DOMAIN store'[Part(s.id)]
      /\ Known(s.id) => /\ store'[Part(s.id)][s.id].pid = s.pid
                        /\ s.id \in HmiIds =>
                              store'[Part(s.id)][s.id].device = store[Part(s.id)][s.id].device
  BY <1>1, <1>3, PutPidKeepsEntries DEF FleetTypes
<1>8. \A u \in Threads : JobNames(jobs[u]) \subseteq Ids
  BY NamesAreIds DEF FleetTypes
<1>9. /\ Sorted(jobs[t]) /\ \A k \in DOMAIN jobs[t] : IsSound(Runs, jobs[t], k)
      /\ \A k \in 2 .. Len(jobs[t]) :
            jobs[t][k].do \in {"create", "confirm", "remove"} =>
               Runs'[jobs[t][k].id] \subseteq Runs[jobs[t][k].id]
  <2>1. \A k \in DOMAIN jobs[t] :
           jobs[t][k].do \in {"create", "confirm", "remove"} => jobs[t][k].id \in Ids
    BY <1>8 DEF JobNames, Names, Range
  <2>2. DOMAIN jobs[t] = 1 .. Len(jobs[t]) /\ Len(jobs[t]) \in Nat
    BY <1>2, <1>3, JobShape
  <2> QED
    BY <1>4, <2>1, <2>2 DEF ProcessesInSight, JobsAreSorted, StepsAreSound
<1> HIDE DEF next
<1>10. /\ Sorted(jobs'[t]) /\ \A k \in DOMAIN jobs'[t] : IsSound(Runs', jobs'[t], k)
       /\ ~ At(t, "spawn")'
  <2>1. /\ next.do \in Building /\ s.do \in Building /\ next.do \notin Removing
        /\ s.do \notin Saving /\ Runs'[next.id] \subseteq {next.pid}
    BY <1>3, <1>4, <1>5, <1>6 DEF Building, Removing, Saving
  <2>2. steps \in {<<>>, <<next>>, Save, Save \o <<next>>} /\ Call(t, steps)
    BY <1>1
  <2> HIDE DEF steps
  <2> QED
    BY <1>2, <1>3, <1>6, <1>9, <2>1, <2>2, StepStaysSound, HeadOfCall DEF steps
<1>11. SpawnsFit'
  BY <1>3, <1>7, <1>10, SpawnsStayFit DEF FitsSpawn, ProcessesInSight
<1>12. JobsAreSorted'
  BY <1>2, <1>10 DEF ProcessesInSight, JobsAreSorted, Sorted, NeverMixes, CreatesOnce, ConfirmsSoon
<1>13. StepsAreSound'
  BY <1>2, <1>4, <1>8, <1>10, OthersStaySound DEF ProcessesInSight
<1>14. ASSUME NEW id \in Ids, NEW p \in Runs'[id]
       PROVE  Known(id)' /\ DeviceOf(id)' = procs'[p].device /\ IsWritten(id, p)'
  <2>1. p \in Runs[id] /\ Known(id) /\ DeviceOf(id) = procs[p].device /\ IsWritten(id, p)
    BY <1>4, <1>14 DEF ProcessesInSight, AreShown
  <2>2. CASE id = s.id
    <3>1. p = s.pid
      BY <1>5, <2>1, <2>2
    <3>2. /\ id \in DOMAIN store'[Part(id)] /\ store'[Part(id)][id].pid = p
          /\ id \in HmiIds => store'[Part(id)][id].device = store[Part(id)][id].device
      BY <1>7, <2>1, <2>2, <3>1
    <3> HIDE DEF s
    <3>3. Known(id)' /\ Entry(id)'.pid = p /\ DeviceOf(id)' = DeviceOf(id)
      BY <3>2 DEF Known, Entry, DeviceOf, Part
    <3> QED
      BY <1>1, <2>1, <3>3 DEF IsWritten
  <2>3. CASE id # s.id
    <3>1. /\ id \in DOMAIN store'[Part(id)] <=> id \in DOMAIN store[Part(id)]
          /\ id \in DOMAIN store[Part(id)] => store'[Part(id)][id] = store[Part(id)][id]
      BY <1>7, <2>3 DEF KeepsEntries
    <3>2. Known(id)' /\ Entry(id)' = Entry(id) /\ DeviceOf(id)' = DeviceOf(id)
      BY <2>1, <3>1, KeptEntries
    <3>3. IsWritten(id, p)'
      <4>1. CASE Entry(id).pid = p
        BY <3>2, <4>1 DEF IsWritten
      <4>2. ASSUME NEW u \in Threads, At(u, "record"), Head(jobs[u]).id = id, Head(jobs[u]).pid = p
            PROVE  IsWritten(id, p)'
        <5>1. jobs'[u] = jobs[u]
          BY <1>2, <2>3, <4>2
        <5> QED
          BY <4>2, <5>1 DEF IsWritten, At
      <4> QED
        BY <2>1, <4>1, <4>2 DEF IsWritten
    <3> QED
      BY <1>1, <2>1, <3>2, <3>3
  <2> QED
    BY <2>2, <2>3
<1>15. AreShown'
  BY <1>14 DEF AreShown, Ids
<1> QED
  BY <1>11, <1>12, <1>13, <1>15 DEF ProcessesInSight

LEMMA ConfirmInSight ==
    ASSUME FleetTypes, JobsKeepOrder, ProcessesInSight,
           NEW t \in Threads, Confirm(t), IsStepOf(t)
    PROVE  ProcessesInSight'
<1> DEFINE s == Head(jobs[t])
<1>1. At(t, "confirm") /\ procs' = Released(s.pid) /\ suspect' = suspect
  BY DEF Confirm
<1>2. NoNewProcess
  BY <1>1, ReleasedKeeps DEF NoNewProcess, LivePids, FleetTypes
<1>3. s.id \in Ids /\ s.id \in JobNames(jobs[t]) /\ Runs[s.id] \subseteq {s.pid}
  BY <1>1, HeadIsWritten, HeadIsSound
<1>4. Runs'[s.id] \subseteq Runs[s.id]
  BY <1>1, <1>2, <1>3, RunsShrink
<1>5. CASE Call(t, <<>>) /\ UNCHANGED store
  <2>1. KeepsEntries(t)
    BY <1>5, SameStoreKeepsEntries
  <2> QED
    BY <1>1, <1>2, <1>5, <2>1, RestInSight DEF Saving
<1>6. CASE ~ Alive(s.pid) /\ Call(t, Save) /\ store' = PutPid(s.id, NoPid)
  <2>1. KeepsEntries(s.id)
    BY <1>3, <1>6, PutPidKeepsEntries DEF FleetTypes
  <2>2. Runs[s.id] = {}
    <3>1. \A p \in Runs[s.id] : Alive(p)
      BY <1>3 DEF Runs, LivePids, Alive
    <3> QED
      BY <1>3, <1>6, <3>1
  <2> QED
    BY <1>1, <1>2, <1>3, <1>4, <1>6, <2>1, <2>2, RestInSight DEF Saving
<1> QED
  BY <1>5, <1>6 DEF Confirm

LEMMA StopInSight ==
    ASSUME FleetTypes, JobsKeepOrder, ProcessesInSight,
           NEW t \in Threads, Stop(t), IsStepOf(t)
    PROVE  ProcessesInSight'
<1> DEFINE id == Head(jobs[t]).id
           pid == Entry(id).pid
           s == Step("forget", id)
<1>1. At(t, "stop") /\ ~ At(t, "record") /\ suspect' = suspect
  BY DEF Stop, At
<1>2. /\ id \in Ids /\ id \in JobNames(jobs[t]) /\ Busy(t)
      /\ \A p \in Runs[id] : Known(id) /\ pid = p /\ Live(p)
  BY <1>1, HeadIsWritten
<1>3. CASE KeyError(t) /\ UNCHANGED <<store, procs>>
  <2>1. jobs'[t] = DeleteEach({})
    BY <1>3 DEF KeyError, Continue, DeleteEach, FleetTypes, HasJobs
  <2> QED
    BY <1>1, <1>3, <2>1, SameProcesses, EndInSight
<1>4. CASE Alive(pid) /\ procs' = Kill(pid) /\ Call(t, <<s>>) /\ UNCHANGED store
  <2>1. NoNewProcess /\ \A p \in LivePids' : p # pid
    BY <1>4, EndedKeeps DEF Kill, Alive, NoNewProcess, LivePids, FleetTypes
  <2>2. Runs'[id] \subseteq Runs[id]
    BY <1>1, <1>2, <2>1, RunsShrink
  <2>3. Runs'[id] = {}
    <3>1. Runs'[id] \subseteq LivePids'
      BY <1>2 DEF Runs
    <3> QED
      BY <1>2, <2>1, <2>2, <3>1
  <2>4. Names(Head(jobs[t])) = {id} /\ KeepsEntries(t)
    BY <1>1, <1>4, NameOfHead, SameStoreKeepsEntries DEF FleetTypes
  <2>5. /\ s.do = "forget" /\ s.id = id /\ Names(s) = {id} /\ s.do \notin Building
        /\ "stop" \in Removing /\ "stop" \notin Saving
    BY DEF Step, Names, Building, Removing, Saving
  <2>6. Call(t, <<s>>) /\ store' = store
    BY <1>4
  <2> HIDE DEF s
  <2>7. <<s>> \in {<<>>, <<s>>, Save, Save \o <<s>>}
    OBVIOUS
  <2> QED
    BY <1>1, <2>1, <2>3, <2>4, <2>5, <2>6, <2>7, CallInSight
<1>5. CASE ~ Alive(pid) /\ store' = PutPid(id, NoPid) /\ Call(t, Save) /\ UNCHANGED procs
  <2>1. NoNewProcess /\ KeepsEntries(id)
    BY <1>2, <1>5, SameProcesses, PutPidKeepsEntries DEF FleetTypes
  <2>2. Runs[id] = {}
    BY <1>2, <1>5 DEF Live
  <2>3. Runs'[id] = {}
    BY <1>1, <1>2, <2>1, <2>2, RunsShrink
  <2> QED
    BY <1>1, <1>2, <1>5, <2>1, <2>3, RestInSight DEF Saving
<1> QED
  BY <1>3, <1>4, <1>5 DEF Stop

LEMMA ForgetInSight ==
    ASSUME FleetTypes, JobsKeepOrder, ProcessesInSight,
           NEW t \in Threads, Forget(t), IsStepOf(t)
    PROVE  ProcessesInSight'
<1> DEFINE id == Head(jobs[t]).id
<1>1. /\ At(t, "forget") /\ procs' = procs /\ suspect' = suspect
      /\ store' = PutPid(id, NoPid) /\ Call(t, Save)
  BY DEF Forget
<1>2. id \in Ids /\ id \in JobNames(jobs[t]) /\ Runs[id] = {}
  BY <1>1, HeadIsWritten, HeadIsSound
<1>3. NoNewProcess /\ KeepsEntries(id)
  BY <1>1, <1>2, SameProcesses, PutPidKeepsEntries DEF FleetTypes
<1>4. Runs'[id] = {}
  BY <1>1, <1>2, <1>3, RunsShrink
<1> QED
  BY <1>1, <1>2, <1>3, <1>4, RestInSight DEF Saving

LEMMA RemoveEntryInSight ==
    ASSUME FleetTypes, JobsKeepOrder, ProcessesInSight,
           NEW t \in Threads, RemoveEntry(t), IsStepOf(t)
    PROVE  ProcessesInSight'
<1> DEFINE id == Head(jobs[t]).id
<1>1. At(t, "remove") /\ ~ At(t, "record") /\ procs' = procs /\ suspect' = suspect
  BY DEF RemoveEntry, At
<1>2. id \in Ids /\ id \in JobNames(jobs[t]) /\ Runs[id] = {} /\ NoNewProcess
  BY <1>1, HeadIsWritten, HeadIsSound, SameProcesses
<1>3. CASE KeyError(t) /\ UNCHANGED store
  <2>1. jobs'[t] = DeleteEach({})
    BY <1>3 DEF KeyError, Continue, DeleteEach, FleetTypes, HasJobs
  <2> QED
    BY <1>1, <1>2, <1>3, <2>1, EndInSight
<1>4. CASE store' = [store EXCEPT ![Part(id)] = Without(@, id)] /\ Call(t, Save)
  <2>1. KeepsEntries(id)
    BY <1>2, <1>4, RemovalKeepsEntries DEF FleetTypes
  <2>2. Runs'[id] = {}
    BY <1>1, <1>2, RunsShrink
  <2> QED
    BY <1>1, <1>2, <1>4, <2>1, <2>2, RestInSight DEF Saving
<1> QED
  BY <1>3, <1>4 DEF RemoveEntry

LEMMA CreateInSight ==
    ASSUME FleetTypes, JobsKeepOrder, ProcessesInSight,
           NEW t \in Threads, Create(t), IsStepOf(t)
    PROVE  ProcessesInSight'
<1> DEFINE head == Head(jobs[t])
           s == [head EXCEPT !.do = "insert"]
<1>1. /\ At(t, "create") /\ ~ At(t, "record") /\ store' = store /\ procs' = procs
      /\ suspect' = suspect
  BY DEF Create, At
<1>2. /\ head.id \in Ids /\ head.id \in JobNames(jobs[t]) /\ Runs[head.id] = {}
      /\ NoNewProcess /\ Names(head) = {head.id} /\ KeepsEntries(t)
      /\ head \in [do : {"create"}, id : DeviceIds, target : Targets,
                   facility : {None, "facility"}, autostart : BOOLEAN]
  BY <1>1, HeadIsWritten, HeadIsSound, SameProcesses, NameOfHead, NextOfJob,
     SameStoreKeepsEntries DEF FleetTypes
<1>3. Runs'[head.id] = {}
  BY <1>1, <1>2, RunsShrink
<1>4. CASE Continue(t, Rollback(t))
  <2>1. jobs'[t] = DeleteEach({}) \/ jobs'[t] = DeleteEach(request[t].devices)
    BY <1>4 DEF Continue, Rollback, DeleteEach, FleetTypes, HasJobs
  <2> QED
    BY <1>1, <1>2, <2>1, EndInSight
<1>5. CASE Call(t, <<s>>)
  <2>1. /\ s.do = "insert" /\ s.id = head.id /\ Names(s) = {head.id}
        /\ "create" \in Building /\ s.do \notin Removing
        /\ "create" \notin Saving
    BY <1>2 DEF Names, Building, Removing, Saving
  <2>2. <<s>> \in {<<>>, <<s>>, Save, Save \o <<s>>}
    OBVIOUS
  <2> HIDE DEF s
  <2> QED
    BY <1>1, <1>2, <1>3, <1>5, <2>1, <2>2, CallInSight
<1> QED
  BY <1>4, <1>5 DEF Create

LEMMA InsertEntryInSight ==
    ASSUME FleetTypes, JobsKeepOrder, ProcessesInSight,
           NEW t \in Threads, InsertEntry(t), IsStepOf(t)
    PROVE  ProcessesInSight'
<1> DEFINE head == Head(jobs[t])
           entry == [target |-> head.target, facility |-> head.facility, pid |-> NoPid]
           s == Step("start", head.id)
<1>1. /\ At(t, "insert") /\ procs' = procs /\ suspect' = suspect
      /\ store' = Put(head.id, entry)
      /\ Call(t, Save \o <<>>) \/ Call(t, Save \o <<s>>)
  BY DEF InsertEntry
<1>2. /\ head.id \in Ids /\ head.id \in JobNames(jobs[t]) /\ Runs[head.id] = {}
      /\ NoNewProcess /\ Names(head) = {head.id}
      /\ head \in [do : {"insert"}, id : DeviceIds, target : Targets,
                   facility : {None, "facility"}, autostart : BOOLEAN]
  BY <1>1, HeadIsWritten, HeadIsSound, SameProcesses, NameOfHead, NextOfJob DEF FleetTypes
<1>3. Runs'[head.id] = {}
  BY <1>1, <1>2, RunsShrink
<1>4. entry \in EntryOf(Part(head.id))
  BY <1>2, PartOfId, FleetAssumption DEF EntryOf, DeviceEntry
<1>5. KeepsEntries(head.id)
  <2> HIDE DEF entry
  <2> QED
    BY <1>1, <1>2, <1>4, PutKeepsEntries DEF FleetTypes
<1>6. /\ s.do = "start" /\ Names(s) = {head.id} /\ "insert" \in Building
      /\ s.do \notin Removing /\ "insert" \notin Saving
  BY DEF Step, Names, Building, Removing, Saving
<1>7. PICK steps \in {<<>>, <<s>>, Save, Save \o <<s>>} : Call(t, steps)
  BY <1>1 DEF Save
<1> HIDE DEF s, entry
<1> QED
  BY <1>1, <1>2, <1>3, <1>5, <1>6, <1>7, CallInSight

LEMMA InsertHmiInSight ==
    ASSUME FleetTypes, JobsKeepOrder, ProcessesInSight,
           NEW t \in Threads, InsertHmi(t), IsStepOf(t)
    PROVE  ProcessesInSight'
<1> DEFINE head == Head(jobs[t])
<1>1. /\ At(t, "insert_hmi") /\ procs' = procs /\ suspect' = suspect
      /\ store' = Put(head.id, NewHmi(head.device)) /\ Call(t, <<>>)
  BY DEF InsertHmi
<1>2. /\ head.id \in Ids /\ head.id \in JobNames(jobs[t]) /\ Runs[head.id] = {}
      /\ NoNewProcess
      /\ head \in [do : {"insert_hmi"}, id : HmiIds, device : DeviceIds]
  BY <1>1, HeadIsWritten, HeadIsSound, SameProcesses, NextOfJob DEF FleetTypes, IsHmiInsertion
<1>3. Runs'[head.id] = {}
  BY <1>1, <1>2, RunsShrink
<1>4. NewHmi(head.device) \in EntryOf(Part(head.id))
  BY <1>2, PartOfId DEF EntryOf, HmiEntry, NewHmi
<1>5. KeepsEntries(head.id)
  BY <1>1, <1>2, <1>4, PutKeepsEntries DEF FleetTypes
<1> QED
  BY <1>1, <1>2, <1>3, <1>5, RestInSight DEF Saving

LEMMA SavesInSight ==
    ASSUME FleetTypes, JobsKeepOrder, ProcessesInSight, NEW t \in Threads,
           DumpDevices(t) \/ WriteDevices(t) \/ WriteHmis(t), IsStepOf(t)
    PROVE  ProcessesInSight'
<1>1. PICK do \in Saving : At(t, do)
  BY DEF DumpDevices, WriteDevices, WriteHmis, Saving
<1>2. NoNewProcess /\ store' = store /\ KeepsEntries(t) /\ suspect' = suspect
  BY SameProcesses, SameStoreKeepsEntries DEF DumpDevices, WriteDevices, WriteHmis
<1>3. PICK part \in Parts : Call(t, <<>>) \/ Call(t, <<WriteStep(part, Dump(part))>>)
  BY DEF DumpDevices, WriteDevices, WriteHmis, Parts
<1> DEFINE s == WriteStep(part, Dump(part))
<1>4. s.do \in {"write_devices", "write_hmis"} /\ Names(s) = {}
  BY DEF WriteStep, Writing, Names
<1>5. PICK steps \in {<<>>, <<s>>} : Call(t, steps)
  BY <1>3
<1> HIDE DEF s
<1>6. /\ s.do \in Saving /\ s.do \notin Building /\ s.do \notin Removing
      /\ s.do \notin {"create", "remove", "confirm", "record", "spawn", "forget", "insert", "insert_hmi"}
      /\ do # "record" /\ do # "stop"
  BY <1>1, <1>4 DEF Saving, Building, Removing
<1>7. steps \in {<<>>, <<s>>, Save, Save \o <<s>>}
  BY <1>5
<1> QED
  BY <1>1, <1>2, <1>4, <1>5, <1>6, <1>7, CallInSight

\* An exception ends the job and drops the Popen object.
LEMMA RaisesInSight ==
    ASSUME FleetTypes, JobsKeepOrder, ProcessesInSight, NEW t \in Threads,
           Raise(t) \/ SaveRaises(t), IsStepOf(t)
    PROVE  ProcessesInSight'
<1>1. /\ store' = store /\ Continue(t, <<>>)
      /\ procs' = procs \/ procs' = Dropped(t)
      /\ ~ At(t, "record")
  BY DEF Raise, SaveRaises, At, Writing
<1>2. jobs'[t] = DeleteEach({})
  BY <1>1 DEF Continue, FleetTypes, HasJobs, DeleteEach
<1>3. NoNewProcess
  <2>1. CASE procs' = procs
    BY <2>1, SameProcesses
  <2>2. CASE procs' = Dropped(t)
    <3>1. AreProcesses(procs)
      BY DEF FleetTypes
    <3>2. \A p \in DOMAIN Dropped(t) :
             /\ p \in DOMAIN procs /\ Dropped(t)[p].live = procs[p].live
             /\ Dropped(t)[p].id = procs[p].id /\ Dropped(t)[p].device = procs[p].device
      BY <3>1, DroppedFacts
    <3> QED
      BY <2>2, <3>2 DEF NoNewProcess, LivePids
  <2> QED
    BY <1>1, <2>1, <2>2
<1> QED
  BY <1>1, <1>2, <1>3, EndInSight

\* Two steps between others.
LEMMA TwoSteps ==
    ASSUME NEW S, NEW first \in Seq(S), NEW last \in Seq(S),
           NEW own \in Seq(S), Len(own) = 2
    PROVE  LET steps == (first \o own) \o last
               n == Len(first)
           IN  /\ steps \in Seq(S) /\ DOMAIN steps = 1 .. (n + 2 + Len(last))
               /\ \A k \in 1 .. n : steps[k] = first[k]
               /\ steps[n + 1] = own[1] /\ steps[n + 2] = own[2]
               /\ \A k \in 1 .. Len(last) : steps[n + 2 + k] = last[k]
<1> DEFINE all == first \o own
           steps == all \o last
           n == Len(first)
<1>1. n \in Nat /\ Len(own) = 2 /\ Len(last) \in Nat
  OBVIOUS
<1>2. /\ all \in Seq(S) /\ Len(all) = n + 2
      /\ \A k \in 1 .. (n + 2) : all[k] = IF k <= n THEN first[k] ELSE own[k - n]
  <2>1. /\ all \in Seq(S) /\ Len(all) = n + Len(own)
        /\ \A k \in 1 .. (n + Len(own)) : all[k] = IF k <= n THEN first[k] ELSE own[k - n]
    BY ConcatProperties
  <2> HIDE DEF all, n
  <2> QED
    BY <1>1, <2>1
<1> HIDE DEF all
<1>3. /\ steps \in Seq(S) /\ Len(steps) = n + 2 + Len(last)
      /\ \A k \in 1 .. (n + 2 + Len(last)) :
            steps[k] = IF k <= n + 2 THEN all[k] ELSE last[k - (n + 2)]
  <2>1. /\ steps \in Seq(S) /\ Len(steps) = Len(all) + Len(last)
        /\ \A k \in 1 .. (Len(all) + Len(last)) :
              steps[k] = IF k <= Len(all) THEN all[k] ELSE last[k - Len(all)]
    <3>1. all \in Seq(S)
      BY <1>2
    <3> QED
      BY <3>1, ConcatProperties
  <2> HIDE DEF steps, n
  <2> QED
    BY <1>1, <1>2, <2>1
<1> HIDE DEF steps
<1>4. DOMAIN steps = 1 .. (n + 2 + Len(last))
  BY <1>1, <1>3
<1> HIDE DEF n
<1>5. /\ \A k \in 1 .. n : steps[k] = first[k]
      /\ steps[n + 1] = own[1] /\ steps[n + 2] = own[2]
  BY <1>1, <1>2, <1>3
<1>6. ASSUME NEW k \in 1 .. Len(last) PROVE steps[n + 2 + k] = last[k]
  <2>1. /\ n + 2 + k \in 1 .. (n + 2 + Len(last)) /\ ~ n + 2 + k <= n + 2
        /\ (n + 2 + k) - (n + 2) = k
    BY <1>1
  <2> QED
    BY <1>3, <2>1
<1> QED
  BY <1>3, <1>4, <1>5, <1>6 DEF steps, all, n

\* A deletion stops what it removes.
LEMMA DeleteSteps ==
    ASSUME NEW known \in BOOLEAN, NEW id, NEW hmis, NEW others, NEW steps,
           steps = (IF known
                    THEN DeleteEach(hmis) \o <<Step("stop", id), Step("remove", id)>>
                    ELSE <<>>)
                   \o DeleteEach(others)
    PROVE  \E S :
              /\ steps \in Seq(S) /\ \A s \in S : s.do \in {"delete", "stop", "remove"}
              /\ \A k \in DOMAIN steps : steps[k].do = "remove" => StopsBefore(steps, k)
<1> DEFINE one == [do |-> "delete", ids |-> hmis]
           rest == [do |-> "delete", ids |-> others]
           stop == Step("stop", id)
           remove == Step("remove", id)
           first == DeleteEach(hmis)
           own == <<stop, remove>>
           last == DeleteEach(others)
           S == {one, stop, remove, rest}
<1>1. /\ one.do = "delete" /\ rest.do = "delete" /\ stop.do = "stop" /\ remove.do = "remove"
      /\ stop.id = id /\ remove.id = id
  BY DEF Step
<1>2. first = (IF hmis = {} THEN <<>> ELSE <<one>>) /\ last = (IF others = {} THEN <<>> ELSE <<rest>>)
  BY DEF DeleteEach
<1>3. one \in S /\ rest \in S /\ stop \in S /\ remove \in S
  OBVIOUS
<1>4. steps = (IF known THEN first \o own ELSE <<>>) \o last
  OBVIOUS
<1>5. \A s \in S : s.do \in {"delete", "stop", "remove"}
  BY <1>1
<1> HIDE DEF one, rest, stop, remove, first, last, S
<1>10. own \in Seq(S) /\ Len(own) = 2 /\ own[1] = stop /\ own[2] = remove
  BY <1>3
<1> HIDE DEF own
<1>6. <<one>> \in Seq(S) /\ <<rest>> \in Seq(S) /\ <<>> \in Seq(S)
  BY <1>3
<1>7. /\ first \in Seq(S) /\ last \in Seq(S) /\ Len(first) \in {0, 1} /\ Len(last) \in {0, 1}
      /\ \A k \in 1 .. Len(first) : first[k] = one
      /\ \A k \in 1 .. Len(last) : last[k] = rest
  <2>1. first \in Seq(S) /\ last \in Seq(S)
    BY <1>2, <1>6
  <2>2. /\ Len(first) = (IF hmis = {} THEN 0 ELSE 1) /\ (hmis # {} => first[1] = one)
        /\ Len(last) = (IF others = {} THEN 0 ELSE 1) /\ (others # {} => last[1] = rest)
    BY <1>2
  <2> QED
    BY <2>1, <2>2
<1> DEFINE n == Len(first)
<1>8. CASE known
  <2>1. steps = (first \o own) \o last
    BY <1>4, <1>8
  <2>2. /\ steps \in Seq(S) /\ DOMAIN steps = 1 .. (n + 2 + Len(last))
        /\ \A k \in 1 .. n : steps[k] = first[k]
        /\ steps[n + 1] = stop /\ steps[n + 2] = remove
        /\ \A k \in 1 .. Len(last) : steps[n + 2 + k] = last[k]
    <3>1. first \in Seq(S) /\ last \in Seq(S)
      BY <1>7
    <3> DEFINE all == (first \o own) \o last
    <3>2. /\ all \in Seq(S) /\ DOMAIN all = 1 .. (n + 2 + Len(last))
          /\ \A k \in 1 .. n : all[k] = first[k]
          /\ all[n + 1] = own[1] /\ all[n + 2] = own[2]
          /\ \A k \in 1 .. Len(last) : all[n + 2 + k] = last[k]
      BY <1>10, <3>1, TwoSteps
    <3> HIDE DEF all
    <3>3. steps = all
      BY <2>1 DEF all
    <3> QED
      BY <1>10, <3>2, <3>3
  <2> HIDE DEF n
  <2>3. n \in {0, 1}
    BY <1>7 DEF n
  <2>4. ASSUME NEW k \in DOMAIN steps, steps[k].do = "remove"
        PROVE  StopsBefore(steps, k)
    <3>1. ~ k \in 1 .. n
      BY <1>1, <1>7, <2>2, <2>4 DEF n
    <3>2. ~ k > n + 2
      <4>1. ASSUME k > n + 2 PROVE FALSE
        <5>1. k - (n + 2) \in 1 .. Len(last) /\ n + 2 + (k - (n + 2)) = k
          BY <1>7, <2>2, <2>3, <4>1
        <5>2. steps[k] = rest
          BY <1>7, <2>2, <5>1
        <5> QED
          BY <1>1, <2>4, <5>2
      <4> QED
        BY <4>1
    <3>3. k = n + 1 \/ k = n + 2
      BY <1>7, <2>2, <2>3, <3>1, <3>2
    <3>4. k = n + 2
      BY <1>1, <2>2, <2>4, <3>3
    <3>5. n + 1 \in 1 .. (k - 1)
      BY <2>3, <3>4
    <3> QED
      BY <1>1, <2>2, <3>4, <3>5 DEF StopsBefore
  <2> QED
    BY <1>5, <2>2, <2>4
<1>9. CASE ~ known
  <2>1. steps = last
    <3>1. steps = <<>> \o last
      BY <1>4, <1>9
    <3>2. last \in Seq(S)
      BY <1>7
    <3> QED
      BY <3>1, <3>2
  <2>2. \A k \in DOMAIN steps : steps[k].do = "delete"
    BY <1>1, <1>7, <2>1
  <2> QED
    BY <1>5, <1>7, <2>1, <2>2
<1> QED
  BY <1>8, <1>9

LEMMA DeleteInSight ==
    ASSUME FleetTypes, JobsKeepOrder, ProcessesInSight,
           NEW t \in Threads, Delete(t), IsStepOf(t)
    PROVE  ProcessesInSight'
<1> DEFINE head == Head(jobs[t])
<1>1. /\ At(t, "delete") /\ ~ At(t, "record") /\ store' = store /\ procs' = procs
      /\ suspect' = suspect /\ Busy(t) /\ head.do = "delete" /\ HasJobs
  BY DEF Delete, At, Busy, FleetTypes
<1>2. PICK id \in head.ids :
        Call(t, (IF Known(id)
                 THEN DeleteEach(IF id \in DeviceIds THEN Attached(id) ELSE {})
                      \o <<Step("stop", id), Step("remove", id)>>
                 ELSE <<>>)
                \o DeleteEach(head.ids \ {id}))
  BY DEF Delete
<1> DEFINE steps == (IF Known(id)
                     THEN DeleteEach(IF id \in DeviceIds THEN Attached(id) ELSE {})
                          \o <<Step("stop", id), Step("remove", id)>>
                     ELSE <<>>)
                    \o DeleteEach(head.ids \ {id})
<1>3. jobs'[t] = steps \o Tail(jobs[t])
  BY <1>1, <1>2 DEF Call, Continue, HasJobs
<1>4. Known(id) \in BOOLEAN
  BY DEF Known
<1>5. PICK S :
         /\ steps \in Seq(S) /\ \A s \in S : s.do \in {"delete", "stop", "remove"}
         /\ \A k \in DOMAIN steps : steps[k].do = "remove" => StopsBefore(steps, k)
  BY <1>4, DeleteSteps
<1> HIDE DEF steps
<1>6. \A k \in DOMAIN steps : steps[k].do \in {"delete", "stop", "remove"}
  BY <1>5
<1>7. NoNewProcess /\ KeepsEntries(t)
  BY <1>1, SameProcesses, SameStoreKeepsEntries
<1>8. \A id_1 \in Ids : Runs'[id_1] \subseteq Runs[id_1]
  BY <1>1, <1>7, RunsShrink
<1>9. Sorted(jobs[t]) /\ \A k \in DOMAIN jobs[t] : IsSound(Runs, jobs[t], k)
  BY DEF ProcessesInSight, JobsAreSorted, StepsAreSound
<1>10. \A k \in 2 .. Len(jobs[t]) :
          jobs[t][k].do \in {"create", "confirm", "remove"} =>
             Runs'[jobs[t][k].id] \subseteq Runs[jobs[t][k].id]
  <2>1. \A k \in DOMAIN jobs[t] :
           jobs[t][k].do \in {"create", "confirm", "remove"} => jobs[t][k].id \in Ids
    BY <1>1, NamesAreIds DEF JobNames, Names, Range
  <2>2. DOMAIN jobs[t] = 1 .. Len(jobs[t]) /\ Len(jobs[t]) \in Nat
    BY <1>1, JobShape
  <2> QED
    BY <1>8, <2>1, <2>2
<1>11. Sorted(jobs'[t])
  BY <1>1, <1>3, <1>5, <1>6, <1>9, CallStaysSorted DEF Building, Removing, Saving
<1>12. \A k \in DOMAIN steps : IsSound(Runs', steps, k)
  BY <1>5, <1>6 DEF IsSound
<1>13. \A k \in DOMAIN jobs'[t] : IsSound(Runs', jobs'[t], k)
  BY <1>1, <1>3, <1>5, <1>9, <1>10, <1>12, CallStaysSound
<1>14. ~ At(t, "spawn")'
  <2> DEFINE T == S \cup LaterSteps
  <2>1. steps \in Seq(T) /\ Tail(jobs[t]) \in Seq(T)
    BY <1>1, <1>5, JobShape, SeqMonotonic
  <2>2. \A x \in T : x.do # "spawn"
    BY <1>5, KindsOfSteps
  <2> HIDE DEF T
  <2>3. jobs'[t] \in Seq(T)
    BY <1>3, <2>1, ConcatProperties
  <2>4. jobs'[t] # <<>> => Head(jobs'[t]) \in T
    BY <2>3
  <2> QED
    BY <2>2, <2>4 DEF At
<1> QED
  BY <1>1, <1>7, <1>11, <1>13, <1>14, StepStaysInSight DEF FitsSpawn

\* What a spawn that succeeds does to the processes.
LEMMA SpawnedProcess ==
    ASSUME FleetTypes, NEW t \in Threads, NEW s, NEW pid \in FreePids,
           procs' = With(Reaped, pid, Child(t, s.id, s.entry))
    PROVE  /\ procs'[pid].id = s.id /\ procs'[pid].device = SpawnDevice(s)
           /\ \A p \in LivePids' \ {pid} :
                 /\ p \in LivePids /\ procs'[p].id = procs[p].id
                 /\ procs'[p].device = procs[p].device
<1> DEFINE c == Child(t, s.id, s.entry)
<1>1. c.id = s.id /\ c.device = SpawnDevice(s)
  BY DEF Child, SpawnDevice
<1>2. \A p \in DOMAIN Reaped : p \in DOMAIN procs /\ Reaped[p] = procs[p]
  BY DEF Reaped, Restrict
<1> HIDE DEF c
<1>3. /\ procs'[pid] = c
      /\ \A p \in DOMAIN procs' \ {pid} : p \in DOMAIN Reaped /\ procs'[p] = Reaped[p]
  BY DEF With, c
<1> QED
  BY <1>1, <1>2, <1>3 DEF LivePids

LEMMA SpawnInSight ==
    ASSUME FleetTypes, JobsKeepOrder, ProcessesInSight,
           NEW t \in Threads, Spawn(t), IsStepOf(t)
    PROVE  ProcessesInSight'
<1> DEFINE s == Head(jobs[t])
           pid == CHOOSE p \in FreePids : \A q \in FreePids : p <= q
           next == [do |-> "record", id |-> s.id, pid |-> pid]
<1>1. /\ At(t, "spawn") /\ ~ At(t, "record") /\ store' = store /\ suspect' = suspect
      /\ \A u \in Threads \ {t} : jobs'[u] = jobs[u]
  BY DEF Spawn, At, IsStepOf
<1>2. /\ s.id \in Ids /\ s.id \in JobNames(jobs[t]) /\ Busy(t) /\ Runs[s.id] = {}
      /\ Names(s) = {s.id} /\ s.do = "spawn"
  BY <1>1, HeadIsWritten, HeadIsSound, NameOfHead DEF FleetTypes
<1>3. KeepsEntries(t)
  BY <1>1, SameStoreKeepsEntries
<1>4. CASE procs' = Reaped /\ Call(t, <<>>)
  <2>1. NoNewProcess
    BY <1>4 DEF NoNewProcess, LivePids, Reaped, Restrict
  <2> QED
    BY <1>1, <1>3, <1>4, <2>1, RestInSight DEF Saving
<1>5. CASE /\ FreePids # {} /\ procs' = With(Reaped, pid, Child(t, s.id, s.entry))
           /\ Call(t, <<next>>)
  <2>1. pid \in FreePids
    <3>1. FreePids \subseteq Nat
      BY FleetAssumption DEF FreePids
    <3>2. PICK m \in FreePids : \A k \in FreePids : m <= k
      BY <1>5, <3>1, LeastPid
    <3> QED
      BY <3>2
  <2>2. next.do = "record" /\ next.id = s.id /\ next.pid = pid /\ Names(next) = {s.id}
    BY DEF Names
  <2>3. procs' = With(Reaped, pid, Child(t, s.id, s.entry)) /\ Call(t, <<next>>)
    BY <1>5
  <2> HIDE DEF pid, next
  <2>4. /\ procs'[pid].id = s.id /\ procs'[pid].device = SpawnDevice(s)
        /\ \A p \in LivePids' \ {pid} :
              /\ p \in LivePids /\ procs'[p].id = procs[p].id
              /\ procs'[p].device = procs[p].device
    BY <2>1, <2>3, SpawnedProcess
  <2> HIDE DEF s
  <2>5. \A id \in Ids \ {s.id} : Runs'[id] \subseteq Runs[id]
    BY <1>1, <2>4 DEF Runs
  <2>6. Runs'[s.id] \subseteq {pid} /\ (SpawnDevice(s) \in suspect => Runs'[s.id] = {})
    <3>1. ASSUME NEW p \in Runs'[s.id] PROVE p = pid /\ SpawnDevice(s) \notin suspect
      <4>1. p \in LivePids' /\ procs'[p].id = s.id /\ procs'[p].device \notin suspect
        BY <1>1, <1>2, <3>1 DEF Runs
      <4>2. p = pid
        <5>1. ASSUME p # pid PROVE p \in Runs[s.id]
          BY <1>2, <2>4, <4>1, <5>1 DEF Runs
        <5> QED
          BY <1>2, <5>1
      <4> QED
        BY <2>4, <4>1, <4>2
    <3> QED
      BY <3>1
  <2>7. SpawnDevice(s) \notin suspect => Known(s.id) /\ DeviceOf(s.id) = SpawnDevice(s)
    BY <1>1 DEF ProcessesInSight, SpawnsFit, FitsSpawn, s
  <2>8. ASSUME NEW u \in Threads \ {t}, NEW id \in JobNames(jobs[u])
        PROVE  Runs'[id] \subseteq Runs[id]
    <3>1. id \in Ids
      BY <2>8, NamesAreIds DEF FleetTypes
    <3>2. SpawnDevice(s) \notin suspect => id # s.id
      BY <1>2, <2>7, <2>8, KnownByOne
    <3> QED
      BY <1>2, <2>5, <2>6, <3>1, <3>2
  <2>9. Sorted(jobs[t]) /\ \A k \in DOMAIN jobs[t] : IsSound(Runs, jobs[t], k)
    BY DEF ProcessesInSight, JobsAreSorted, StepsAreSound
  <2>10. ASSUME NEW k \in 2 .. Len(jobs[t]), jobs[t][k].do \in {"create", "confirm", "remove"}
         PROVE  Runs'[jobs[t][k].id] \subseteq Runs[jobs[t][k].id]
    <3>1. DOMAIN jobs[t] = 1 .. Len(jobs[t]) /\ Len(jobs[t]) \in Nat /\ jobs[t][1] = s
      BY <1>2, JobShape DEF FleetTypes, s
    <3>2. 1 \in DOMAIN jobs[t] /\ k \in DOMAIN jobs[t] /\ k # 1
      BY <3>1
    <3>3. ~ jobs[t][k].do \in Removing
      BY <1>2, <2>9, <3>1, <3>2 DEF Sorted, NeverMixes, Building
    <3>4. ~ jobs[t][k].do = "confirm"
      BY <1>2, <2>9, <3>1, <3>2 DEF Sorted, ConfirmsSoon, Saving
    <3>5. jobs[t][k].do = "create"
      BY <2>10, <3>3, <3>4 DEF Removing
    <3>6. jobs[t][k].id # s.id
      BY <1>2, <2>9, <3>1, <3>2, <3>5 DEF Sorted, CreatesOnce
    <3>7. jobs[t][k].id \in JobNames(jobs[t])
      BY <3>2, <3>5 DEF JobNames, Range, Names
    <3> QED
      BY <2>5, <3>6, <3>7, NamesAreIds DEF FleetTypes
  <2>11. /\ Sorted(jobs'[t]) /\ \A k \in DOMAIN jobs'[t] : IsSound(Runs', jobs'[t], k)
         /\ ~ At(t, "spawn")'
    <3>1. /\ next.do \in Building /\ s.do \in Building /\ next.do \notin Removing
          /\ s.do \notin Saving /\ Runs'[next.id] \subseteq {next.pid}
      BY <1>2, <2>2, <2>6 DEF Building, Removing, Saving
    <3>2. <<next>> \in {<<>>, <<next>>, Save, Save \o <<next>>} /\ HasJobs
      BY DEF FleetTypes
    <3>3. Names(next) \subseteq Names(Head(jobs[t])) /\ Head(jobs[t]) = s
      BY <1>2, <2>2 DEF s
    <3> QED
      BY <1>2, <2>2, <2>3, <2>9, <2>10, <3>1, <3>2, <3>3, StepStaysSound, HeadOfCall
  <2>12. JobsAreSorted'
    BY <1>1, <2>11
       DEF ProcessesInSight, JobsAreSorted, Sorted, NeverMixes, CreatesOnce, ConfirmsSoon
  <2>13. StepsAreSound'
    BY <1>1, <2>8, <2>11, OthersStaySound DEF ProcessesInSight
  <2>14. SpawnsFit'
    BY <1>1, <1>3, <2>11, SpawnsStayFit DEF FitsSpawn, ProcessesInSight
  <2>15. At(t, "record")' /\ Head(jobs'[t]) = next
    <3>1. jobs'[t] = <<next>> \o Tail(jobs[t]) /\ Tail(jobs[t]) \in Seq(LaterSteps)
      BY <1>1, <2>3, JobFacts DEF Call, Continue, FleetTypes, HasJobs
    <3>2. jobs'[t] # <<>> /\ Head(jobs'[t]) = next
      BY <3>1, Prepended
    <3> QED
      BY <2>2, <3>2 DEF At
  <2>16. ASSUME NEW id \in Ids, NEW p \in Runs'[id]
         PROVE  Known(id)' /\ DeviceOf(id)' = procs'[p].device /\ IsWritten(id, p)'
    <3>1. Known(id)' = Known(id) /\ Entry(id)' = Entry(id) /\ DeviceOf(id)' = DeviceOf(id)
      BY <1>1 DEF Known, Entry, DeviceOf, Part
    <3>2. CASE id = s.id
      <4>1. p = pid /\ SpawnDevice(s) \notin suspect
        BY <2>6, <2>16, <3>2
      <4>2. IsWritten(id, p)'
        BY <2>2, <2>15, <3>2, <4>1 DEF IsWritten
      <4> QED
        BY <2>4, <2>7, <3>1, <3>2, <4>1, <4>2
    <3>3. CASE id # s.id
      <4>1. p \in Runs[id] /\ Known(id) /\ DeviceOf(id) = procs[p].device /\ IsWritten(id, p)
        BY <2>5, <2>16, <3>3 DEF ProcessesInSight, AreShown
      <4>2. p # pid
        BY <2>4, <2>16, <3>3 DEF Runs
      <4>3. procs'[p].device = procs[p].device
        BY <2>4, <2>16, <4>2 DEF Runs
      <4>4. CASE Entry(id).pid = p
        BY <3>1, <4>1, <4>3, <4>4 DEF IsWritten
      <4>5. ASSUME NEW u \in Threads, At(u, "record"), Head(jobs[u]).id = id, Head(jobs[u]).pid = p
            PROVE  IsWritten(id, p)'
        <5>1. u # t
          BY <1>1, <4>5
        <5>2. jobs'[u] = jobs[u]
          BY <1>1, <5>1
        <5> QED
          BY <4>5, <5>2 DEF IsWritten, At
      <4> QED
        BY <3>1, <4>1, <4>3, <4>4, <4>5 DEF IsWritten
    <3> QED
      BY <3>2, <3>3
  <2>17. AreShown'
    BY <2>16 DEF AreShown, Ids
  <2> QED
    BY <2>12, <2>13, <2>14, <2>17 DEF ProcessesInSight
<1> QED
  BY <1>4, <1>5 DEF Spawn

\* Every step of a request.
LEMMA WorkInSight ==
    ASSUME FleetTypes, JobsKeepOrder, ProcessesInSight,
           NEW t \in Threads, Work(t), IsStepOf(t)
    PROVE  ProcessesInSight'
BY SavesInSight, StartInSight, SpawnInSight, RecordInSight, ConfirmInSight, StopInSight,
   ForgetInSight, DeleteInSight, RemoveEntryInSight, CreateInSight, InsertEntryInSight,
   InsertHmiInSight, RaisesInSight DEF Work

\* A new request knows of no process for what is new.
LEMMA TakeInSight ==
    ASSUME FleetTypes, FleetTypes', JobsKeepOrder, ProcessesInSight,
           NEW t \in Threads, NEW devices, NEW fresh, NEW job, TakesFit(t, devices, fresh, job)
    PROVE  ProcessesInSight'
<1>1. /\ Fits(devices, fresh, job) /\ jobs[t] = <<>> /\ jobs'[t] = job
      /\ \A u \in Threads \ {t} : jobs'[u] = jobs[u] /\ request'[u] = request[u]
      /\ suspect' = (suspect \ fresh) \cup (devices \cap Requested)
      /\ store' = store /\ procs' = procs
      /\ job # <<>> => StepFits(devices, Head(job))
  BY DEF TakesFit
<1>2. Sorted(job) /\ fresh \cap Used = {} /\ \A k \in DOMAIN job : StepFits(devices, job[k])
  BY <1>1 DEF Fits
<1>3. \A p \in LivePids : procs[p].id \in Used /\ procs[p].device \in Used
  <2>1. \A p \in LivePids : p \in {q \in DOMAIN procs : Live(q)}
    BY DEF LivePids, Live, Alive
  <2>2. UNION {{procs[p].id, procs[p].device} : p \in {q \in DOMAIN procs : Live(q)}} \subseteq Used
    BY DEF Used
  <2>3. \A p \in {q \in DOMAIN procs : Live(q)} :
           {procs[p].id, procs[p].device}
              \subseteq UNION {{procs[r].id, procs[r].device} : r \in {q \in DOMAIN procs : Live(q)}}
    OBVIOUS
  <2> QED
    BY <2>1, <2>2, <2>3
<1>4. suspect \cap Used \subseteq suspect' /\ Requested \subseteq Used
  BY <1>1, <1>2, NamedAreUsed
<1>5. NoNewProcess /\ KeepsEntries(t)
  BY <1>1, SameProcesses, SameStoreKeepsEntries
<1>6. \A id \in Ids : Runs'[id] \subseteq Runs[id]
  BY <1>3, <1>4, <1>5, RunsShrink
<1>7. JobsAreSorted'
  BY <1>1, <1>2 DEF ProcessesInSight, JobsAreSorted, Sorted, NeverMixes, CreatesOnce, ConfirmsSoon
<1>8. StepsAreSound'
  <2>1. ASSUME NEW k \in DOMAIN job PROVE IsSound(Runs', job, k)
    <3> DEFINE s == job[k]
    <3>1. StepFits(devices, s)
      BY <1>2
    <3> HIDE DEF s
    <3>2. s.do \in {"create", "insert_hmi"} => Runs'[s.id] = {}
      <4>1. ASSUME s.do \in {"create", "insert_hmi"}, s.id \in Ids PROVE Runs[s.id] = {}
        <5>1. s.id \notin Used
          BY <3>1, <4>1 DEF StepFits
        <5> QED
          BY <1>3, <4>1, <5>1 DEF Runs
      <4>2. s.do \in {"create", "insert_hmi"} => s.id \in Ids
        <5>1. devices \subseteq DeviceIds
          BY DEF TakesFit, FleetTypes, HasRequests
        <5>2. ASSUME s.do \in {"create", "insert_hmi"} PROVE s.id \in Names(s)
          BY <5>2 DEF Names
        <5> QED
          BY <3>1, <5>1, <5>2 DEF StepFits, NameFits, Ids
      <4> QED
        BY <1>6, <4>1, <4>2
    <3> QED
      BY <3>1, <3>2 DEF IsSound, StepFits, s
  <2> QED
    BY <1>1, <1>6, <2>1, OthersStaySound, NamesAreIds DEF ProcessesInSight, FleetTypes
<1>9. SpawnsFit'
  <2>1. ASSUME NEW u \in Threads, At(u, "spawn")' PROVE FitsSpawn(u)'
    <3>1. u # t
      BY <1>1, <2>1 DEF At, StepFits
    <3>2. jobs'[u] = jobs[u] /\ request'[u] = request[u] /\ At(u, "spawn")
      BY <1>1, <2>1, <3>1 DEF At
    <3> DEFINE s == Head(jobs[u])
               d == SpawnDevice(s)
    <3>3. /\ d \in request[u].devices
          /\ d \notin suspect => Known(s.id) /\ DeviceOf(s.id) = d
      BY <3>2 DEF ProcessesInSight, SpawnsFit, FitsSpawn
    <3>4. d \in Used
      BY <1>4, <3>3 DEF Requested
    <3>5. d \notin suspect' => d \notin suspect
      BY <1>4, <3>4
    <3> HIDE DEF d
    <3>6. Known(s.id)' = Known(s.id) /\ DeviceOf(s.id)' = DeviceOf(s.id)
      BY <1>1, <3>2 DEF Known, DeviceOf, Entry, Part
    <3> QED
      BY <3>2, <3>3, <3>5, <3>6 DEF FitsSpawn, SpawnDevice, d
  <2> QED
    BY <2>1 DEF SpawnsFit, FitsSpawn
<1>10. AreShown'
  <2>1. ASSUME NEW id \in Ids, NEW p \in Runs'[id]
        PROVE  Known(id)' /\ DeviceOf(id)' = procs'[p].device /\ IsWritten(id, p)'
    <3>1. Known(id) /\ DeviceOf(id) = procs[p].device /\ IsWritten(id, p)
      BY <1>6, <2>1 DEF ProcessesInSight, AreShown
    <3>2. /\ Known(id)' = Known(id) /\ Entry(id)' = Entry(id) /\ DeviceOf(id)' = DeviceOf(id)
      BY <1>1 DEF Known, DeviceOf, Entry, Part
    <3>3. \A u \in Threads : At(u, "record") => jobs'[u] = jobs[u]
      BY <1>1 DEF At
    <3> QED
      BY <1>1, <3>1, <3>2, <3>3 DEF IsWritten, At
  <2> QED
    BY <2>1 DEF AreShown, Ids
<1> QED
  BY <1>7, <1>8, <1>9, <1>10 DEF ProcessesInSight

\* The jobs and the entries are as they were.
LEMMA QuietInSight ==
    ASSUME FleetTypes, ProcessesInSight, NoNewProcess, UNCHANGED <<store, jobs, request, suspect>>
    PROVE  ProcessesInSight'
<1>1. \A id \in Ids : Runs'[id] \subseteq Runs[id]
  BY RunsShrink
<1>2. JobsAreSorted'
  BY DEF ProcessesInSight, JobsAreSorted, Sorted, NeverMixes, CreatesOnce, ConfirmsSoon
<1>3. \A id \in Ids : /\ Known(id)' = Known(id) /\ Entry(id)' = Entry(id)
                     /\ DeviceOf(id)' = DeviceOf(id)
  BY DEF Known, Entry, DeviceOf, Part
<1>4. StepsAreSound'
  <2>1. ASSUME NEW u \in Threads, NEW k \in DOMAIN jobs[u] PROVE IsSound(Runs', jobs[u], k)
    <3> DEFINE s == jobs[u][k]
    <3>1. IsSound(Runs, jobs[u], k)
      BY DEF ProcessesInSight, StepsAreSound
    <3>2. s.do \in {"record", "confirm", "spawn", "forget", "create", "insert", "insert_hmi", "remove"} =>
             s.id \in Ids
      BY NamesAreIds DEF FleetTypes, JobNames, Range, Names
    <3>3. s.do \in {"record", "confirm", "spawn", "forget", "create", "insert", "insert_hmi", "remove"} =>
             Runs'[s.id] \subseteq Runs[s.id]
      BY <1>1, <3>2
    <3> HIDE DEF s
    <3> QED
      BY <3>1, <3>3 DEF IsSound, s
  <2> QED
    BY <2>1 DEF StepsAreSound, IsSound, StopsBefore
<1>5. SpawnsFit'
  <2>1. ASSUME NEW u \in Threads PROVE FitsSpawn(u)'
    <3>1. FitsSpawn(u)
      BY DEF ProcessesInSight, SpawnsFit
    <3> QED
      BY <3>1 DEF FitsSpawn, At, SpawnDevice, Known, DeviceOf, Entry, Part
  <2> QED
    BY <2>1 DEF SpawnsFit, FitsSpawn
<1>6. AreShown'
  <2>1. ASSUME NEW id \in Ids, NEW p \in Runs'[id]
        PROVE  Known(id)' /\ DeviceOf(id)' = procs'[p].device /\ IsWritten(id, p)'
    <3>1. /\ Known(id) /\ DeviceOf(id) = procs[p].device /\ IsWritten(id, p)
          /\ procs'[p].device = procs[p].device
      BY <1>1, <2>1 DEF ProcessesInSight, AreShown, NoNewProcess, Runs
    <3> QED
      BY <1>3, <3>1 DEF IsWritten, At
  <2> QED
    BY <2>1 DEF AreShown, Ids
<1> QED
  BY <1>2, <1>4, <1>5, <1>6 DEF ProcessesInSight

\* A restart finds the processes of unsuspected devices in the files.
LEMMA CrashInSight ==
    ASSUME FleetTypes, JobsKeepOrder, FilesKeepUp, ProcessesInSight, WebCrash
    PROVE  ProcessesInSight'
<1>1. /\ FleetTypes' /\ \A u \in Threads : jobs'[u] = <<>>
      /\ \A part \in Parts : store'[part] = Loaded(files'[part])
  BY CrashFacts
<1>2. /\ files' \in {files} \cup TornFiles
      /\ suspect' = suspect \cup Requested
                      \cup IF files' \in TornFiles \/ raced.files # {} THEN DeviceIds ELSE {}
  BY DEF WebCrash
<1>3. \A u \in Threads : DOMAIN jobs'[u] = {}
  BY <1>1
<1>4. JobsAreSorted' /\ StepsAreSound' /\ SpawnsFit'
  <2>1. JobsAreSorted'
    BY <1>3 DEF JobsAreSorted, Sorted, NeverMixes, CreatesOnce, ConfirmsSoon
  <2>2. StepsAreSound'
    BY <1>3 DEF StepsAreSound
  <2>3. SpawnsFit'
    BY <1>1 DEF SpawnsFit, FitsSpawn, At
  <2> QED
    BY <2>1, <2>2, <2>3
<1>5. ASSUME NEW id \in Ids, NEW p \in Runs'[id]
      PROVE  Known(id)' /\ DeviceOf(id)' = procs'[p].device /\ IsWritten(id, p)'
  <2> DEFINE d == procs'[p].device
             part == Part(id)
  <2>1. /\ p \in LivePids /\ procs[p].id = id /\ procs[p].device = d /\ d \notin suspect'
        /\ d \in DeviceIds
    <3>1. p \in LivePids' /\ procs'[p].id = id /\ d \notin suspect'
      BY <1>5 DEF Runs
    <3>2. d \in DeviceIds
      BY <1>1, <3>1 DEF FleetTypes, AreProcesses, LivePids, Process
    <3> QED
      BY <3>1, <3>2, CrashedProcesses
  <2>2. files' = files /\ raced.files = {} /\ d \notin suspect /\ d \notin Requested
    BY <1>2, <2>1
  <2>3. p \in Runs[id]
    BY <1>5, <2>1, <2>2 DEF Runs
  <2>4. Known(id) /\ DeviceOf(id) = d /\ IsWritten(id, p)
    BY <1>5, <2>1, <2>3 DEF ProcessesInSight, AreShown
  <2>5. Entry(id).pid = p
    <3>1. ASSUME NEW u \in Threads, At(u, "record"), Head(jobs[u]).id = id PROVE FALSE
      <4>1. id \in JobNames(jobs[u])
        BY <3>1, NameOfHead DEF FleetTypes
      <4>2. d \in request[u].devices
        BY <1>5, <2>4, <4>1, NamedOfRequest DEF JobsKeepOrder
      <4> QED
        BY <2>2, <4>2 DEF Requested
    <3> QED
      BY <2>4, <3>1 DEF IsWritten
  <2>6. part \in Parts /\ id \in IdsOf(part)
    BY <1>5, PartOfId
  <2>7. SameAbout(LivePids, part, files[part], store[part], d)
    <3>1. KeepsUp(part, d)
      BY <2>1, <2>6 DEF FilesKeepUp
    <3>2. \A u \in Threads : d \notin request[u].devices
      BY <2>2 DEF Requested
    <3>3. Pending(part) \subseteq Threads
      BY DEF Pending
    <3> HIDE DEF d, part
    <3> QED
      BY <2>2, <3>1, <3>2, <3>3 DEF KeepsUp
  <2>8. id \in About(part, store[part], d)
    <3>1. CASE id \in HmiIds
      BY <2>4, <3>1 DEF About, Known, DeviceOf, Entry, Part
    <3>2. CASE id \notin HmiIds
      BY <2>4, <3>2 DEF About, Known, DeviceOf, Entry, Part
    <3> QED
      BY <3>1, <3>2
  <2>9. /\ id \in DOMAIN files[part] /\ files[part][id].pid = p
        /\ id \in HmiIds => files[part][id].device = d
    <3>1. id \in About(part, files[part], d) /\ files[part][id].pid = store[part][id].pid
      BY <2>1, <2>5, <2>7, <2>8 DEF SameAbout, Entry
    <3>2. id \in HmiIds => part = "hmis"
      BY DEF Part
    <3> QED
      BY <2>5, <3>1, <3>2 DEF About, Entry
  <2>10. store'[part] = Loaded(files[part]) /\ Live(p)
    BY <1>1, <2>1, <2>2, <2>6 DEF LivePids, Live, Alive
  <2>11. id \in DOMAIN store'[part] /\ store'[part][id] = files[part][id]
    BY <2>9, <2>10 DEF Loaded
  <2>12. Known(id)' /\ Entry(id)' = files[part][id]
    BY <2>11 DEF Known, Entry, Part
  <2>13. DeviceOf(id)' = d
    <3>1. CASE id \in HmiIds
      BY <2>9, <2>12, <3>1 DEF DeviceOf
    <3>2. CASE id \notin HmiIds
      BY <2>4, <3>2 DEF DeviceOf
    <3> QED
      BY <3>1, <3>2
  <2> QED
    BY <2>9, <2>12, <2>13 DEF IsWritten
<1>6. AreShown'
  BY <1>5 DEF AreShown, Ids
<1> QED
  BY <1>4, <1>6 DEF ProcessesInSight

LEMMA NextKeepsInSight ==
    /\ FleetTypes /\ JobsKeepOrder /\ FilesKeepUp /\ ProcessesInSight
    /\ [FleetNext]_fleetVars
    => ProcessesInSight'
<1> SUFFICES ASSUME FleetTypes, JobsKeepOrder, FilesKeepUp, ProcessesInSight,
                    [FleetNext]_fleetVars
             PROVE  ProcessesInSight'
  OBVIOUS
<1>1. FleetTypes'
  BY NextKeepsTypes
<1>2. ASSUME NEW t \in Threads, Work(t) PROVE ProcessesInSight'
  BY <1>1, <1>2, WorkIsAStep, WorkInSight
<1>3. ASSUME NEW t \in Threads, Requests(t) PROVE ProcessesInSight'
  BY <1>1, <1>3, TakenFits, TakeInSight
<1>4. CASE ProcessExit
  <2>1. NoNewProcess
    <3>1. PICK p \in DOMAIN procs : procs' = Ended(p)
      BY <1>4 DEF ProcessExit
    <3> QED
      BY <3>1, EndedKeeps DEF NoNewProcess, LivePids, FleetTypes
  <2> QED
    BY <1>4, <2>1, QuietInSight DEF ProcessExit
<1>5. CASE WebCrash
  BY <1>5, CrashInSight
<1>6. CASE UNCHANGED fleetVars
  BY <1>6, SameProcesses, QuietInSight DEF fleetVars
<1> QED
  BY <1>2, <1>3, <1>4, <1>5, <1>6 DEF FleetNext, Done

\* Between requests, every process that lives is the one that its device's or HMI's
\* entry names, so that the pages show what is on the wire and can stop it: however
\* requests about other devices come between, whatever processes end by themselves,
\* and wherever the web application dies.  Only a device about which two requests
\* overlapped, or that a crash suspects, may have a process nobody knows of.
THEOREM ProcessesStayInSight == FleetSpec => []RunningIsShown
<1>1. FleetInit => ProcessesInSight
  <2> SUFFICES ASSUME FleetInit PROVE ProcessesInSight
    OBVIOUS
  <2>1. procs = <<>> /\ \A t \in Threads : jobs[t] = <<>>
    BY DEF FleetInit
  <2>2. LivePids = {} /\ \A t \in Threads : DOMAIN jobs[t] = {}
    BY <2>1 DEF LivePids
  <2>3. JobsAreSorted /\ StepsAreSound
    BY <2>2 DEF JobsAreSorted, Sorted, NeverMixes, CreatesOnce, ConfirmsSoon, StepsAreSound
  <2>4. SpawnsFit
    BY <2>1 DEF SpawnsFit, FitsSpawn, At
  <2>5. AreShown
    BY <2>2 DEF AreShown, Runs, Ids
  <2> QED
    BY <2>3, <2>4, <2>5 DEF ProcessesInSight
<1>2. FleetTypes /\ ProcessesInSight => RunningIsShown
  <2> SUFFICES ASSUME FleetTypes, ProcessesInSight, AllIdle,
                      NEW p \in DOMAIN procs, procs[p].live, procs[p].device \notin suspect
               PROVE  Known(procs[p].id) /\ Entry(procs[p].id).pid = p
    BY DEF RunningIsShown
  <2>1. procs[p].id \in Ids
    BY DEF FleetTypes, AreProcesses, Process
  <2>2. p \in Runs[procs[p].id]
    BY <2>1 DEF Runs, LivePids
  <2>3. \A u \in Threads : ~ At(u, "record")
    BY DEF AllIdle, Busy, At
  <2> QED
    BY <2>1, <2>2, <2>3 DEF ProcessesInSight, AreShown, IsWritten
<1> QED
  BY <1>1, <1>2, OrderedInit, InitTypes, NextKeepsTypes, NextKeepsOrder, NextKeepsInSight, PTL
     DEF FleetSpec
-----------------------------------------------------------------------------
\* Launches.

Created(job) == {s.id : s \in {x \in Range(job) : x.do \in {"create", "insert"}}}

\* A step takes a device out of the fleet.
Undoes(s, i) == (s.do = "remove" /\ s.id = i) \/ (s.do = "delete" /\ i \in s.ids)

\* One device after the other is taken out.
UndoesInTurn(job) ==
    \A k, m \in DOMAIN job :
        k < m => /\ job[k].do # "delete"
                 /\ job[k].do = "remove" => job[m].do \notin {"stop", "remove"}

\* A launch that goes on has its devices in the fleet or has still to create them.
GoesOn(job, devices) ==
    /\ \A s \in Range(job) :
          /\ s.do \in (Building \ {"insert_hmi"}) \cup Saving
          /\ s.do = "start" => s.id \in DOMAIN store.devices
    /\ devices \subseteq DOMAIN store.devices \cup Created(job)

\* A launch that was refused has still to take out those that are in the fleet.
RollsBack(job, devices) ==
    /\ \A s \in Range(job) :
          /\ s.do \in Removing \cup Saving
          /\ s.do \in {"stop", "remove"} => s.id \in DOMAIN store.devices
    /\ UndoesInTurn(job)
    /\ \A i \in devices \cap DOMAIN store.devices : \E s \in Range(job) : Undoes(s, i)

HaveNoHmis(devices) == \A h \in DOMAIN store.hmis : store.hmis[h].device \notin devices
InStep(job, devices) ==
    HaveNoHmis(devices) /\ (GoesOn(job, devices) \/ RollsBack(job, devices))

LaunchesFit ==
    \A t \in Threads :
        request[t].op = "launch" /\ request[t].devices \cap suspect = {} =>
            InStep(jobs[t], request[t].devices)

LEMMA RangeOfJob ==
    ASSUME HasJobs, NEW t \in Threads, Busy(t)
    PROVE  Range(jobs[t]) = {Head(jobs[t])} \cup Range(Tail(jobs[t]))
<1> DEFINE job == jobs[t]
<1>1. /\ Len(job) \in Nat \ {0} /\ DOMAIN job = 1 .. Len(job) /\ job[1] = Head(job)
      /\ Tail(job) \in Seq(LaterSteps) /\ Len(Tail(job)) = Len(job) - 1
      /\ \A k \in 1 .. (Len(job) - 1) : Tail(job)[k] = job[k + 1]
  BY JobShape
<1> DEFINE rest == Tail(job)
<1> HIDE DEF job, rest
<1>2. DOMAIN rest = 1 .. (Len(job) - 1)
  BY <1>1 DEF rest
<1>3. Range(rest) \subseteq Range(job)
  BY <1>1, <1>2 DEF Range, rest
<1>4. ASSUME NEW k \in DOMAIN job PROVE job[k] \in {Head(job)} \cup Range(rest)
  <2>1. CASE k = 1
    BY <1>1, <2>1
  <2>2. CASE k # 1
    <3>1. k - 1 \in 1 .. (Len(job) - 1) /\ (k - 1) + 1 = k
      BY <1>1, <2>2
    <3>2. rest[k - 1] = job[k]
      BY <1>1, <3>1 DEF rest
    <3> QED
      BY <1>2, <3>1, <3>2 DEF Range
  <2> QED
    BY <2>1, <2>2
<1>5. Head(job) \in Range(job)
  BY <1>1 DEF Range
<1> QED
  BY <1>3, <1>4, <1>5 DEF Range, job, rest

LEMMA RangeOfCall ==
    ASSUME HasJobs, NEW t \in Threads, Busy(t), NEW S, NEW steps \in Seq(S),
           jobs'[t] = steps \o Tail(jobs[t])
    PROVE  Range(jobs'[t]) = Range(steps) \cup Range(Tail(jobs[t]))
<1> DEFINE rest == Tail(jobs[t])
           T == S \cup LaterSteps
<1>1. rest \in Seq(T) /\ steps \in Seq(T)
  BY JobShape, SeqMonotonic
<1> HIDE DEF rest, T
<1> DEFINE all == steps \o rest
           n == Len(steps)
<1>2. /\ n \in Nat /\ Len(rest) \in Nat /\ DOMAIN steps = 1 .. n /\ DOMAIN rest = 1 .. Len(rest)
      /\ DOMAIN all = 1 .. (n + Len(rest))
      /\ \A k \in 1 .. n : all[k] = steps[k]
      /\ \A k \in 1 .. Len(rest) : all[n + k] = rest[k]
  BY <1>1
<1>3. jobs'[t] = all
  BY DEF rest
<1> HIDE DEF all, n
<1>4. Range(steps) \subseteq Range(all)
  BY <1>2 DEF Range
<1>5. ASSUME NEW k \in DOMAIN rest PROVE rest[k] \in Range(all)
  <2>1. n + k \in DOMAIN all /\ all[n + k] = rest[k]
    BY <1>2
  <2> QED
    BY <2>1 DEF Range
<1>6. ASSUME NEW k \in DOMAIN all PROVE all[k] \in Range(steps) \cup Range(rest)
  <2>1. CASE k \in 1 .. n
    BY <1>2, <2>1 DEF Range
  <2>2. CASE ~ k \in 1 .. n
    <3>1. k - n \in 1 .. Len(rest) /\ n + (k - n) = k
      BY <1>2, <2>2
    <3>2. all[k] = rest[k - n]
      BY <1>2, <3>1
    <3> QED
      BY <1>2, <3>1, <3>2 DEF Range
  <2> QED
    BY <2>1, <2>2
<1>7. \A x \in Range(all) : \E k \in DOMAIN all : x = all[k]
  BY DEF Range
<1>8. \A x \in Range(rest) : \E k \in DOMAIN rest : x = rest[k]
  BY DEF Range
<1>9. Range(all) = Range(steps) \cup Range(rest)
  BY <1>4, <1>5, <1>6, <1>7, <1>8
<1> QED
  BY <1>3, <1>9 DEF rest

\* What waits goes on in turn behind steps that take nothing out.
LEMMA StaysInTurn ==
    ASSUME HasJobs, NEW t \in Threads, Busy(t), NEW S, NEW steps \in Seq(S),
           jobs'[t] = steps \o Tail(jobs[t]), UndoesInTurn(jobs[t]),
           \A k \in DOMAIN steps : steps[k].do \notin {"delete", "remove"}
    PROVE  UndoesInTurn(jobs'[t])
<1> DEFINE job == jobs[t]
           next == jobs'[t]
           n == Len(steps)
<1>1. /\ n \in Nat /\ Len(job) \in Nat \ {0}
      /\ DOMAIN steps = 1 .. n /\ DOMAIN job = 1 .. Len(job)
      /\ DOMAIN next = 1 .. (n + Len(job) - 1)
      /\ \A k \in 1 .. n : next[k] = steps[k]
      /\ \A k \in 2 .. Len(job) : next[n + k - 1] = job[k]
  BY CallFacts, SMTT(30)
<1>2. UndoesInTurn(job) /\ \A k \in 1 .. n : steps[k].do \notin {"delete", "remove"}
  BY <1>1
<1> HIDE DEF job, next, n
<1>3. ASSUME NEW k \in DOMAIN next, ~ k \in 1 .. n
      PROVE  k - n + 1 \in DOMAIN job /\ next[k] = job[k - n + 1]
  <2>1. k - n + 1 \in 2 .. Len(job) /\ n + (k - n + 1) - 1 = k
    BY <1>1, <1>3
  <2> QED
    BY <1>1, <2>1
<1>4. ASSUME NEW k \in DOMAIN next, NEW m \in DOMAIN next, k < m,
             next[k].do \in {"delete", "remove"}
      PROVE  next[k].do = "remove" /\ next[m].do \notin {"stop", "remove"}
  <2>1. ~ k \in 1 .. n /\ ~ m \in 1 .. n
    BY <1>1, <1>2, <1>4
  <2>2. k - n + 1 < m - n + 1
    BY <1>1, <1>4
  <2>3. /\ k - n + 1 \in DOMAIN job /\ next[k] = job[k - n + 1]
        /\ m - n + 1 \in DOMAIN job /\ next[m] = job[m - n + 1]
    BY <1>3, <2>1
  <2> QED
    BY <1>2, <1>4, <2>2, <2>3 DEF UndoesInTurn
<1> QED
  BY <1>4 DEF UndoesInTurn, next

\* After the head, in turn.
LEMMA TurnOfHead ==
    ASSUME HasJobs, NEW t \in Threads, Busy(t), UndoesInTurn(jobs[t])
    PROVE  /\ Head(jobs[t]).do = "delete" => Tail(jobs[t]) = <<>>
           /\ Head(jobs[t]).do = "remove" =>
                 \A s \in Range(Tail(jobs[t])) : s.do \notin {"stop", "remove"}
<1> DEFINE job == jobs[t]
<1>1. /\ Len(job) \in Nat \ {0} /\ DOMAIN job = 1 .. Len(job) /\ job[1] = Head(job)
      /\ Tail(job) \in Seq(LaterSteps) /\ Len(Tail(job)) = Len(job) - 1
      /\ \A k \in 1 .. (Len(job) - 1) : Tail(job)[k] = job[k + 1]
  BY JobShape
<1> DEFINE rest == Tail(job)
<1>2. UndoesInTurn(job)
  OBVIOUS
<1> HIDE DEF job, rest
<1>3. ASSUME NEW k \in DOMAIN rest
      PROVE  /\ Head(job).do # "delete"
             /\ Head(job).do = "remove" => rest[k].do \notin {"stop", "remove"}
  <2>1. k \in 1 .. (Len(job) - 1) /\ 1 \in DOMAIN job /\ k + 1 \in DOMAIN job /\ 1 < k + 1
    BY <1>1, <1>3 DEF rest
  <2>2. rest[k] = job[k + 1]
    BY <1>1, <2>1 DEF rest
  <2> QED
    BY <1>1, <1>2, <2>1, <2>2 DEF UndoesInTurn
<1>4. Head(job).do = "delete" => DOMAIN rest = {}
  BY <1>3
<1>5. DOMAIN rest = {} => rest = <<>>
  BY <1>1 DEF rest
<1>6. \A s \in Range(rest) : \E k \in DOMAIN rest : s = rest[k]
  BY DEF Range
<1> QED
  BY <1>3, <1>4, <1>5, <1>6 DEF job, rest

-----------------------------------------------------------------------------
\* What requests do to the launches of others.

\* Nobody inserts an HMI of a device but by a request about it.
LEMMA HmisStayAway ==
    ASSUME FleetTypes, JobsKeepOrder, NEW u \in Threads, IsStepOf(u),
           NEW devices, HaveNoHmis(devices),
           At(u, "insert_hmi") => request[u].devices \cap devices = {}
    PROVE  HaveNoHmis(devices)'
<1>1. KeepsStore(u)
  BY DEF IsStepOf, Keeps
<1>2. ASSUME NEW h \in DOMAIN store'.hmis PROVE store'.hmis[h].device \notin devices
  <2>1. CASE h \in DOMAIN store.hmis /\ store'.hmis[h].device = store.hmis[h].device
    BY <2>1 DEF HaveNoHmis
  <2>2. CASE At(u, "insert_hmi") /\ store'.hmis[h].device = Head(jobs[u]).device
    <3>1. Head(jobs[u]).device \in request[u].devices
      BY <2>2 DEF JobsKeepOrder, InsertionsFit
    <3> QED
      BY <2>2, <3>1
  <2> QED
    BY <1>1, <2>1, <2>2 DEF KeepsStore
<1> QED
  BY <1>2 DEF HaveNoHmis

\* What a launch names and the fleet has is its own.
LEMMA NamedByLaunch ==
    ASSUME FleetTypes, StepsAreWithin, NEW t \in Threads, NEW s \in Range(jobs[t]),
           NEW id \in Names(s), id \in DOMAIN store.devices
    PROVE  id \in request[t].devices
<1>1. id \in JobNames(jobs[t])
  BY DEF JobNames
<1>2. id \in DeviceIds /\ id \notin HmiIds
  BY HmisInStore, FleetAssumption DEF FleetTypes
<1> QED
  BY <1>1, <1>2 DEF StepsAreWithin, Within

LEMMA UndisturbedLaunch ==
    ASSUME FleetTypes, StepsAreWithin, NEW t \in Threads,
           NEW devices, devices = request[t].devices,
           InStep(jobs[t], devices), HaveNoHmis(devices)', jobs'[t] = jobs[t],
           \A i \in devices : i \in DOMAIN store'.devices <=> i \in DOMAIN store.devices
    PROVE  InStep(jobs[t], devices)'
<1>1. ASSUME NEW s \in Range(jobs[t]), s.do \in {"start", "stop", "remove"},
             s.id \in DOMAIN store.devices
      PROVE  s.id \in DOMAIN store'.devices
  <2>1. s.id \in Names(s)
    BY <1>1 DEF Names
  <2> QED
    BY <1>1, <2>1, NamedByLaunch
<1>2. CASE GoesOn(jobs[t], devices)
  BY <1>1, <1>2 DEF InStep, GoesOn
<1>3. CASE RollsBack(jobs[t], devices)
  <2>1. \A s \in Range(jobs[t]) :
           /\ s.do \in Removing \cup Saving
           /\ s.do \in {"stop", "remove"} => s.id \in DOMAIN store'.devices
    BY <1>1, <1>3 DEF RollsBack
  <2>2. \A i \in devices \cap DOMAIN store'.devices : \E s \in Range(jobs[t]) : Undoes(s, i)
    BY <1>3 DEF RollsBack
  <2>3. UndoesInTurn(jobs[t])'
    BY <1>3 DEF RollsBack, UndoesInTurn
  <2>4. RollsBack(jobs[t], devices)'
    BY <2>1, <2>2, <2>3 DEF RollsBack, Undoes
  <2> QED
    BY <2>4 DEF InStep
<1> QED
  BY <1>2, <1>3 DEF InStep

LEMMA OthersLetLaunch ==
    ASSUME FleetTypes, JobsKeepOrder, NEW u \in Threads, IsStepOf(u),
           NEW t \in Threads \ {u},
           request[t].devices \cap suspect = {}, NEW devices, devices = request[t].devices,
           InStep(jobs[t], devices)
    PROVE  InStep(jobs[t], devices)'
<1>1. request[u].devices \cap devices = {}
  BY DEF JobsKeepOrder, RequestsOverlap
<1>2. KeepsStore(u) /\ jobs'[t] = jobs[t]
  BY DEF IsStepOf, Keeps
<1>3. ASSUME NEW i \in devices
      PROVE  i \in DOMAIN store'.devices <=> i \in DOMAIN store.devices
  <2>1. i \in DeviceIds /\ i \notin HmiIds
    BY FleetAssumption DEF FleetTypes, HasRequests
  <2>2. i \notin JobNames(jobs[u])
    BY <1>1, <2>1 DEF JobsKeepOrder, StepsAreWithin, Within
  <2> QED
    BY <1>2, <2>1, <2>2 DEF KeepsStore
<1>4. HaveNoHmis(devices)'
  BY <1>1, HmisStayAway DEF InStep
<1> QED
  BY <1>2, <1>3, <1>4, UndisturbedLaunch DEF JobsKeepOrder

\* A launch that is taken has everything still to create.
LEMMA LaunchIsTaken ==
    ASSUME FleetTypes, NEW t \in Threads, Requests(t), request'[t].op = "launch"
    PROVE  \E ids \in [DOMAIN Facility -> DeviceIds \ Used] :
              /\ request'[t].devices = Range(ids)
              /\ jobs'[t] = [n \in DOMAIN Facility |->
                                CreateStep(ids[n], Facility[n], "facility", TRUE)]
<1>1. DOMAIN jobs = Threads /\ DOMAIN request = Threads
  BY DEF FleetTypes, HasJobs, HasRequests
<1>2. ASSUME NEW op, NEW devices, NEW fresh, NEW job, Take(t, op, devices, fresh, job)
      PROVE  op = "launch" /\ request'[t].devices = devices /\ jobs'[t] = job
  BY <1>1, <1>2 DEF Take
<1>3. TakeLaunch(t)
  <2> DEFINE Takes(op) == \E devices, fresh, job : Take(t, op, devices, fresh, job)
  <2>1. TakeCreate(t) => Takes("create")
    BY Zenon DEF TakeCreate
  <2>2. TakeStopFacility(t) => Takes("stop_facility")
    BY Zenon DEF TakeStopFacility
  <2>3. TakeStart(t) => Takes("start")
    BY Zenon DEF TakeStart
  <2>4. TakeStop(t) => Takes("stop")
    BY Zenon DEF TakeStop
  <2>5. TakeDelete(t) => Takes("delete")
    BY Zenon DEF TakeDelete
  <2>6. TakeOpenHmi(t) => Takes("open_hmi")
    BY Zenon DEF TakeOpenHmi
  <2>7. \A op : Takes(op) => op = "launch"
    BY <1>2
  <2> HIDE DEF Takes
  <2> QED
    BY <2>1, <2>2, <2>3, <2>4, <2>5, <2>6, <2>7 DEF Requests
<1> QED
  BY <1>2, <1>3 DEF TakeLaunch

LEMMA TakenLaunchFits ==
    ASSUME FleetTypes, NEW t \in Threads, Requests(t), store' = store,
           request'[t].op = "launch"
    PROVE  InStep(jobs[t], request[t].devices)'
<1>1. PICK ids \in [DOMAIN Facility -> DeviceIds \ Used] :
        /\ request'[t].devices = Range(ids)
        /\ jobs'[t] = [n \in DOMAIN Facility |->
                          CreateStep(ids[n], Facility[n], "facility", TRUE)]
  BY LaunchIsTaken
<1> DEFINE job == jobs'[t]
           devices == request'[t].devices
<1>2. \A n \in DOMAIN Facility : job[n].do = "create" /\ job[n].id = ids[n]
  BY <1>1 DEF CreateStep
<1>3. DOMAIN job = DOMAIN Facility /\ devices = Range(ids)
  BY <1>1
<1> HIDE DEF job, devices
<1>4. \A s \in Range(job) : s.do = "create"
  BY <1>2, <1>3 DEF Range
<1>5. devices \subseteq Created(job)
  <2>1. ASSUME NEW n \in DOMAIN Facility PROVE ids[n] \in Created(job)
    <3>1. job[n] \in Range(job) /\ job[n].do = "create" /\ job[n].id = ids[n]
      BY <1>2, <1>3 DEF Range
    <3> QED
      BY <3>1 DEF Created
  <2> QED
    BY <1>3, <2>1 DEF Range
<1>6. \A h \in DOMAIN store.hmis : store.hmis[h].device \notin devices
  <2>1. devices \cap Used = {}
    BY <1>3 DEF Range
  <2> QED
    BY <2>1, NamedAreUsed
<1> QED
  BY <1>4, <1>5, <1>6 DEF InStep, HaveNoHmis, GoesOn, Building, job, devices

-----------------------------------------------------------------------------
\* What a launch's own steps do to it.

\* A step of its own, a save, or both.
StepsOf(s, steps, S) ==
    /\ steps \in Seq(S)
    /\ \A x \in Range(steps) : x = s \/ x.do = "save"
    /\ steps \in {<<s>>, Save \o <<s>>} => s \in Range(steps)

LEMMA RangeOfSteps ==
    ASSUME NEW s, NEW steps \in {<<>>, <<s>>, Save, Save \o <<s>>}
    PROVE  \E S : StepsOf(s, steps, S)
<1> DEFINE save == [do |-> "save"]
           S == {s, save}
<1>1. save.do = "save" /\ save \in S /\ s \in S /\ Save = <<save>>
  BY DEF Save
<1>2. \A x \in S : x = s \/ x.do = "save"
  OBVIOUS
<1> HIDE DEF save, S
<1>3. <<save>> \in Seq(S) /\ <<s>> \in Seq(S) /\ <<>> \in Seq(S)
  BY <1>1
<1>4. steps \in Seq(S)
  <2>1. <<save>> \o <<s>> \in Seq(S)
    BY <1>3, ConcatProperties
  <2> QED
    BY <1>1, <1>3, <2>1
<1>5. \A k \in DOMAIN steps : steps[k] \in S
  BY <1>4
<1>6. /\ steps = <<s>> => 1 \in DOMAIN steps /\ steps[1] = s
      /\ steps = Save \o <<s>> => 2 \in DOMAIN steps /\ steps[2] = s
  BY <1>1
<1> QED
  BY <1>2, <1>4, <1>5, <1>6 DEF Range, StepsOf

\* Steps that neither create nor take out a device.
LEMMA PlainStepOfLaunch ==
    ASSUME FleetTypes, NEW t \in Threads, NEW do, At(t, do),
           do \notin {"create", "insert", "delete", "remove"},
           NEW devices, InStep(jobs[t], devices), HaveNoHmis(devices)',
           DOMAIN store'.devices = DOMAIN store.devices,
           NEW s, NEW steps \in {<<>>, <<s>>, Save, Save \o <<s>>}, Call(t, steps),
           s.do \in {"spawn", "record", "confirm", "forget"} \cup Saving,
           s.do \in {"spawn", "record", "confirm"} => do \in Building,
           s.do = "forget" => do \in Removing
    PROVE  InStep(jobs[t], devices)'
<1> DEFINE head == Head(jobs[t])
           rest == Range(Tail(jobs[t]))
<1>1. Busy(t) /\ head.do = do /\ HasJobs
  BY DEF At, Busy, FleetTypes
<1>2. jobs'[t] = steps \o Tail(jobs[t])
  BY DEF Call, Continue, FleetTypes, HasJobs
<1>3. PICK S : StepsOf(s, steps, S)
  BY RangeOfSteps
<1>4. steps \in Seq(S) /\ \A x \in Range(steps) : x = s \/ x.do = "save"
  BY <1>3 DEF StepsOf
<1>5. Range(jobs[t]) = {head} \cup rest /\ Range(jobs'[t]) = Range(steps) \cup rest
  BY <1>1, <1>2, <1>4, RangeOfJob, RangeOfCall
<1>6. CASE GoesOn(jobs[t], devices)
  <2>1. do \in Building \cup Saving
    BY <1>1, <1>5, <1>6 DEF GoesOn
  <2>2. \A x \in Range(steps) : x.do \in (Building \ {"insert_hmi"}) \cup Saving /\ x.do # "start"
    BY <1>4, <2>1 DEF Building, Removing, Saving
  <2>3. Created(jobs[t]) \subseteq Created(jobs'[t])
    BY <1>1, <1>5 DEF Created
  <2>4. GoesOn(jobs[t], devices)'
    BY <1>5, <1>6, <2>2, <2>3 DEF GoesOn, Created
  <2> QED
    BY <2>4 DEF InStep
<1>7. CASE RollsBack(jobs[t], devices)
  <2>1. do \in Removing \cup Saving
    BY <1>1, <1>5, <1>7 DEF RollsBack
  <2>2. \A x \in Range(steps) : x.do \in {"forget"} \cup Saving
    BY <1>4, <2>1 DEF Building, Removing, Saving
  <2>3. UndoesInTurn(jobs'[t])
    <3>1. \A k \in DOMAIN steps : steps[k].do \notin {"delete", "remove"}
      BY <2>2 DEF Range, Saving
    <3> QED
      BY <1>1, <1>2, <1>4, <1>7, <3>1, StaysInTurn DEF RollsBack
  <2>4. \A i \in devices \cap DOMAIN store'.devices : \E x \in Range(jobs'[t]) : Undoes(x, i)
    BY <1>1, <1>5, <1>7 DEF RollsBack, Undoes
  <2>5. \A x \in Range(jobs'[t]) :
           /\ x.do \in Removing \cup Saving
           /\ x.do \in {"stop", "remove"} => x.id \in DOMAIN store'.devices
    BY <1>5, <1>7, <2>2 DEF RollsBack, Removing, Saving
  <2>6. RollsBack(jobs[t], devices)'
    BY <2>3, <2>4, <2>5 DEF RollsBack, UndoesInTurn, Undoes
  <2> QED
    BY <2>6 DEF InStep
<1> QED
  BY <1>6, <1>7 DEF InStep

\* What the head of a launch's job tells.
LEMMA HeadOfLaunch ==
    ASSUME FleetTypes, NEW t \in Threads, NEW do, At(t, do), NEW devices,
           InStep(jobs[t], devices)
    PROVE  /\ do # "insert_hmi"
           /\ do \in Building => GoesOn(jobs[t], devices)
           /\ do \in Removing => RollsBack(jobs[t], devices)
           /\ do \in {"start", "stop", "remove"} =>
                 /\ Head(jobs[t]).id \in DOMAIN store.devices /\ Known(Head(jobs[t]).id)
                 /\ Head(jobs[t]).id \in DeviceIds
<1> DEFINE head == Head(jobs[t])
<1>1. head \in Range(jobs[t]) /\ head.do = do
  BY RangeOfJob DEF At, Busy, FleetTypes
<1>2. \/ /\ GoesOn(jobs[t], devices) /\ do \in (Building \ {"insert_hmi"}) \cup Saving
         /\ do = "start" => head.id \in DOMAIN store.devices
      \/ /\ RollsBack(jobs[t], devices) /\ do \in Removing \cup Saving
         /\ do \in {"stop", "remove"} => head.id \in DOMAIN store.devices
  BY <1>1 DEF InStep, GoesOn, RollsBack
<1>3. ASSUME head.id \in DOMAIN store.devices
      PROVE  Known(head.id) /\ head.id \in DeviceIds
  BY <1>3, HmisInStore, FleetAssumption DEF Known, Part, FleetTypes
<1> QED
  BY <1>2, <1>3 DEF Building, Removing, Saving

LEMMA PidKeepsDevices ==
    ASSUME FleetTypes, NEW id \in Ids, NEW pid \in Pids \cup {NoPid},
           store' = PutPid(id, pid)
    PROVE  DOMAIN store'.devices = DOMAIN store.devices
<1>1. DOMAIN store'.devices \subseteq DeviceIds /\ DOMAIN store.devices \subseteq DeviceIds
  BY PutPidFacts, HmisInStore DEF FleetTypes, IsFleet, IsRegistry, Parts, IdsOf
<1>2. \A i \in DeviceIds : i \in DOMAIN store'.devices <=> i \in DOMAIN store.devices
  <2>1. /\ KeepsEntries(id)
        /\ Known(id) <=> id \in DOMAIN store'[Part(id)]
    BY PutPidKeepsEntries DEF FleetTypes
  <2>2. ASSUME NEW i \in DeviceIds
        PROVE  i \in DOMAIN store'.devices <=> i \in DOMAIN store.devices
    <3>1. i \in Ids /\ Part(i) = "devices"
      BY PartOfId DEF Ids
    <3> QED
      BY <2>1, <3>1 DEF KeepsEntries, Known
  <2> QED
    BY <2>2
<1> QED
  BY <1>1, <1>2

LEMMA PlainSteps ==
    ASSUME FleetTypes, NEW t \in Threads,
           \/ DumpDevices(t) \/ WriteDevices(t) \/ WriteHmis(t) \/ Start(t) \/ Spawn(t)
           \/ Record(t) \/ Confirm(t) \/ Stop(t) \/ Forget(t),
           NEW devices, InStep(jobs[t], devices), HaveNoHmis(devices)'
    PROVE  InStep(jobs[t], devices)'
<1> DEFINE head == Head(jobs[t])
           same == DOMAIN store'.devices = DOMAIN store.devices
           goes == InStep(jobs[t], devices)'
<1>1. ASSUME NEW do, At(t, do), do \notin {"create", "insert", "delete", "remove"}, same,
             Call(t, <<>>) \/ Call(t, Save)
      PROVE  goes
  <2> DEFINE s == [do |-> "save"]
  <2>1. s.do = "save"
    OBVIOUS
  <2>2. PICK steps \in {<<>>, <<s>>, Save, Save \o <<s>>} : Call(t, steps)
    BY <1>1
  <2> HIDE DEF s
  <2> QED
    BY <1>1, <2>1, <2>2, PlainStepOfLaunch DEF Saving
<1>2. ASSUME NEW do, At(t, do), do \notin {"create", "insert", "delete", "remove"}, same,
             NEW s, Call(t, <<s>>) \/ Call(t, Save \o <<s>>),
             s.do \in {"spawn", "record", "confirm", "forget"} \cup Saving,
             s.do \in {"spawn", "record", "confirm"} => do \in Building,
             s.do = "forget" => do \in Removing
      PROVE  goes
  <2>1. PICK steps \in {<<>>, <<s>>, Save, Save \o <<s>>} : Call(t, steps)
    BY <1>2
  <2> QED
    BY <1>2, <2>1, PlainStepOfLaunch
<1>3. CASE DumpDevices(t) \/ WriteDevices(t) \/ WriteHmis(t)
  <2>1. PICK do \in Saving : At(t, do)
    BY <1>3 DEF DumpDevices, WriteDevices, WriteHmis, Saving
  <2>2. same
    BY <1>3 DEF DumpDevices, WriteDevices, WriteHmis
  <2>3. PICK part \in Parts : Call(t, <<>>) \/ Call(t, <<WriteStep(part, Dump(part))>>)
    BY <1>3 DEF DumpDevices, WriteDevices, WriteHmis, Parts
  <2> DEFINE s == WriteStep(part, Dump(part))
  <2>4. s.do \in Saving /\ s.do \notin {"spawn", "record", "confirm", "forget"}
    BY DEF WriteStep, Writing, Saving
  <2>5. do \notin {"create", "insert", "delete", "remove"}
    BY <2>1 DEF Saving
  <2>6. Call(t, <<>>) \/ Call(t, <<s>>)
    BY <2>3
  <2> HIDE DEF s, same
  <2> QED
    BY <1>1, <1>2, <2>1, <2>2, <2>4, <2>5, <2>6
<1>4. CASE Start(t)
  <2>1. At(t, "start") /\ same
    BY <1>4 DEF Start
  <2>2. Known(head.id)
    BY <2>1, HeadOfLaunch
  <2> DEFINE s == [do |-> "spawn", id |-> head.id, entry |-> Entry(head.id)]
  <2>3. Call(t, <<>>) \/ Call(t, <<s>>)
    BY <1>4, <2>2 DEF Start
  <2>4. s.do = "spawn"
    OBVIOUS
  <2> HIDE DEF s, same
  <2> QED
    BY <1>1, <1>2, <2>1, <2>3, <2>4 DEF Building
<1>5. CASE Spawn(t)
  <2>1. At(t, "spawn") /\ same
    BY <1>5 DEF Spawn
  <2> DEFINE pid == CHOOSE p \in FreePids : \A q \in FreePids : p <= q
             s == [do |-> "record", id |-> head.id, pid |-> pid]
  <2>2. Call(t, <<>>) \/ Call(t, <<s>>)
    BY <1>5 DEF Spawn
  <2>3. s.do = "record"
    OBVIOUS
  <2> HIDE DEF pid, s, same
  <2> QED
    BY <1>1, <1>2, <2>1, <2>2, <2>3 DEF Building
<1>6. CASE Record(t)
  <2>1. At(t, "record") /\ store' = PutPid(head.id, head.pid)
    BY <1>6 DEF Record
  <2>2. /\ head.id \in Ids /\ head.pid \in Pids
        /\ head \in [do : {"record"}, id : Ids, pid : Pids]
    BY <2>1, NextOfJob DEF FleetTypes
  <2>3. same
    BY <2>1, <2>2, PidKeepsDevices
  <2> DEFINE s == [head EXCEPT !.do = "confirm"]
  <2>4. s.do = "confirm" /\ Call(t, Save \o <<s>>)
    BY <1>6, <2>2 DEF Record
  <2> HIDE DEF s, same
  <2> QED
    BY <1>2, <2>1, <2>3, <2>4 DEF Building
<1>7. CASE Confirm(t)
  <2>1. At(t, "confirm") /\ (store' = store \/ store' = PutPid(head.id, NoPid))
    BY <1>7 DEF Confirm
  <2>2. same
    BY <2>1, NextOfJob, PidKeepsDevices DEF FleetTypes
  <2>3. Call(t, <<>>) \/ Call(t, Save)
    BY <1>7 DEF Confirm
  <2> HIDE DEF same
  <2> QED
    BY <1>1, <2>1, <2>2, <2>3
<1>8. CASE Stop(t)
  <2>1. At(t, "stop")
    BY <1>8 DEF Stop
  <2>2. Known(head.id) /\ head.id \in Ids
    BY <2>1, HeadOfLaunch, NextOfJob DEF FleetTypes
  <2> DEFINE s == Step("forget", head.id)
  <2>3. /\ store' = store \/ store' = PutPid(head.id, NoPid)
        /\ Call(t, Save) \/ Call(t, <<s>>)
    BY <1>8, <2>2 DEF Stop
  <2>4. same /\ s.do = "forget"
    BY <2>2, <2>3, PidKeepsDevices DEF Step
  <2> HIDE DEF s, same
  <2> QED
    BY <1>1, <1>2, <2>1, <2>3, <2>4 DEF Removing
<1>9. CASE Forget(t)
  <2>1. At(t, "forget") /\ store' = PutPid(head.id, NoPid) /\ Call(t, Save)
    BY <1>9 DEF Forget
  <2>2. same
    BY <2>1, NextOfJob, PidKeepsDevices DEF FleetTypes
  <2> HIDE DEF same
  <2> QED
    BY <1>1, <2>1, <2>2
<1> QED
  BY <1>3, <1>4, <1>5, <1>6, <1>7, <1>8, <1>9

\* Deletions one by one.
LEMMA DeleteEachInTurn ==
    ASSUME NEW ids
    PROVE  /\ \A s \in Range(DeleteEach(ids)) : s.do = "delete"
           /\ \A i \in ids : \E s \in Range(DeleteEach(ids)) : Undoes(s, i)
           /\ UndoesInTurn(DeleteEach(ids))
           /\ \E S : DeleteEach(ids) \in Seq(S)
           /\ Len(DeleteEach(ids)) = IF ids = {} THEN 0 ELSE 1
<1>1. CASE ids = {}
  <2> DEFINE job == DeleteEach(ids)
  <2>1. job = <<>>
    BY <1>1 DEF DeleteEach
  <2> HIDE DEF job
  <2>2. job \in Seq({}) /\ Len(job) = 0 /\ DOMAIN job = {}
    BY <2>1
  <2>3. Range(job) = {} /\ UndoesInTurn(job)
    BY <2>2 DEF Range, UndoesInTurn
  <2>4. /\ \A s \in Range(job) : s.do = "delete"
        /\ \A i \in ids : \E s \in Range(job) : Undoes(s, i)
    BY <1>1, <2>3
  <2>5. \E S : job \in Seq(S)
    BY <2>2
  <2> QED
    BY <1>1, <2>2, <2>3, <2>4, <2>5 DEF job
<1>2. CASE ids # {}
  <2> DEFINE s == [do |-> "delete", ids |-> ids]
  <2>1. s.do = "delete" /\ s.ids = ids /\ DeleteEach(ids) = <<s>>
    BY <1>2 DEF DeleteEach
  <2> HIDE DEF s
  <2>2. DOMAIN <<s>> = {1} /\ <<s>>[1] = s /\ Len(<<s>>) = 1 /\ <<s>> \in Seq({s})
    OBVIOUS
  <2>3. Range(<<s>>) = {s}
    BY <2>2 DEF Range
  <2>4. UndoesInTurn(<<s>>)
    BY <2>2 DEF UndoesInTurn
  <2> QED
    BY <1>2, <2>1, <2>2, <2>3, <2>4 DEF Undoes
<1> QED
  BY <1>1, <1>2

LEMMA TwoStepsFirst ==
    ASSUME NEW S, NEW last \in Seq(S), NEW own \in Seq(S), Len(own) = 2
    PROVE  LET steps == (<<>> \o own) \o last
           IN  /\ steps \in Seq(S)
               /\ DOMAIN steps = 1 .. (2 + Len(last)) /\ steps[1] = own[1] /\ steps[2] = own[2]
               /\ \A k \in 1 .. Len(last) : steps[2 + k] = last[k]
<1> DEFINE all == own \o last
<1>1. <<>> \o own = own
  OBVIOUS
<1>2. /\ all \in Seq(S) /\ Len(all) = Len(own) + Len(last)
      /\ \A k \in 1 .. (Len(own) + Len(last)) :
            all[k] = IF k <= Len(own) THEN own[k] ELSE last[k - Len(own)]
  BY ConcatProperties
<1> HIDE DEF all
<1>3. Len(last) \in Nat /\ DOMAIN all = 1 .. (2 + Len(last))
  BY <1>2
<1>4. all[1] = own[1] /\ all[2] = own[2]
  BY <1>2, <1>3
<1>5. ASSUME NEW k \in 1 .. Len(last) PROVE all[2 + k] = last[k]
  <2>1. 2 + k \in 1 .. (2 + Len(last)) /\ ~ 2 + k <= 2 /\ (2 + k) - 2 = k
    BY <1>3
  <2> QED
    BY <1>2, <2>1
<1> QED
  BY <1>1, <1>2, <1>3, <1>4, <1>5 DEF all

LEMMA DeletionInTurn ==
    ASSUME NEW id, NEW others, NEW steps,
           steps = (DeleteEach({}) \o <<Step("stop", id), Step("remove", id)>>)
                   \o DeleteEach(others)
    PROVE  /\ Range(steps) = {Step("stop", id), Step("remove", id)} \cup Range(DeleteEach(others))
           /\ UndoesInTurn(steps)
           /\ \E S : steps \in Seq(S)
<1> DEFINE stop == Step("stop", id)
           remove == Step("remove", id)
           own == <<stop, remove>>
           last == DeleteEach(others)
<1>1. stop.do = "stop" /\ remove.do = "remove"
  BY DEF Step
<1>2. PICK T : last \in Seq(T)
  BY DeleteEachInTurn
<1>3. /\ \A s \in Range(last) : s.do = "delete"
      /\ Len(last) = 0 \/ Len(last) = 1
  BY DeleteEachInTurn
<1> DEFINE S == T \cup {stop, remove}
<1>4. stop \in S /\ remove \in S /\ T \subseteq S
  OBVIOUS
<1>5. DeleteEach({}) = <<>>
  BY DEF DeleteEach
<1>6. steps = (<<>> \o own) \o last
  BY <1>5
<1> HIDE DEF stop, remove, last, S
<1>7. own \in Seq(S) /\ Len(own) = 2 /\ own[1] = stop /\ own[2] = remove /\ <<>> \in Seq(S)
  BY <1>4
<1>8. last \in Seq(S)
  BY <1>2, <1>4, SeqMonotonic
<1> HIDE DEF own
<1>9. /\ steps \in Seq(S)
      /\ DOMAIN steps = 1 .. (2 + Len(last)) /\ steps[1] = own[1] /\ steps[2] = own[2]
      /\ \A k \in 1 .. Len(last) : steps[2 + k] = last[k]
  <2> DEFINE all == (<<>> \o own) \o last
  <2>1. /\ all \in Seq(S)
        /\ DOMAIN all = 1 .. (2 + Len(last)) /\ all[1] = own[1] /\ all[2] = own[2]
        /\ \A k \in 1 .. Len(last) : all[2 + k] = last[k]
    BY <1>7, <1>8, TwoStepsFirst
  <2> HIDE DEF all
  <2>2. steps = all
    BY <1>6 DEF all
  <2> QED
    BY <2>1, <2>2
<1>10. /\ DOMAIN steps = 1 .. (2 + Len(last)) /\ steps[1] = stop /\ steps[2] = remove
       /\ \A k \in 1 .. Len(last) : steps[2 + k] = last[k]
       /\ DOMAIN last = 1 .. Len(last)
  <2>1. DOMAIN last = 1 .. Len(last)
    BY <1>8
  <2>2. steps[1] = stop /\ steps[2] = remove
    BY <1>7, <1>9
  <2> QED
    BY <1>9, <2>1, <2>2, Zenon
<1>11. ASSUME NEW k \in DOMAIN steps
       PROVE  \/ k = 1 \/ k = 2
              \/ k = 3 /\ k = 2 + Len(last) /\ steps[k] = last[1] /\ 1 \in DOMAIN last
  <2>1. CASE Len(last) = 0
    BY <1>10, <2>1
  <2>2. CASE Len(last) = 1
    <3>1. k = 1 \/ k = 2 \/ k = 3
      BY <1>10, <2>2
    <3>2. 1 \in 1 .. Len(last) /\ steps[2 + 1] = last[1]
      BY <1>10, <2>2
    <3> QED
      BY <1>10, <2>2, <3>1, <3>2
  <2> QED
    BY <1>3, <2>1, <2>2
<1>12. 1 \in DOMAIN steps /\ 2 \in DOMAIN steps
  BY <1>3, <1>10
<1>13. \A x \in Range(last) : x \in Range(steps)
  <2>1. \A k \in DOMAIN last : 2 + k \in DOMAIN steps /\ steps[2 + k] = last[k]
    BY <1>3, <1>10
  <2> QED
    BY <2>1 DEF Range
<1>14. ASSUME NEW x \in Range(steps) PROVE x \in {stop, remove} \cup Range(last)
  <2>1. PICK k \in DOMAIN steps : x = steps[k]
    BY Zenon DEF Range
  <2>2. CASE k = 1 \/ k = 2
    BY <1>10, <2>1, <2>2, Zenon
  <2>3. CASE x = last[1] /\ 1 \in DOMAIN last
    BY <2>3, Zenon DEF Range
  <2> QED
    BY <1>11, <2>1, <2>2, <2>3, Zenon
<1>15. Range(steps) = {stop, remove} \cup Range(last)
  <2>1. stop \in Range(steps) /\ remove \in Range(steps)
    BY <1>10, <1>12 DEF Range
  <2> QED
    BY <1>13, <1>14, <2>1
<1>16. UndoesInTurn(steps)
  <2>1. ASSUME NEW k \in DOMAIN steps, NEW m \in DOMAIN steps, k < m
        PROVE  /\ steps[k].do # "delete"
               /\ steps[k].do = "remove" => steps[m].do \notin {"stop", "remove"}
    <3>1. CASE k = 1
      BY <1>1, <1>10, <3>1
    <3>2. CASE k = 2
      <4>1. m # 1 /\ m # 2
        BY <2>1, <3>2
      <4>2. steps[m] = last[1] /\ 1 \in DOMAIN last
        BY <1>11, <4>1, Zenon
      <4>3. steps[m].do = "delete"
        BY <1>3, <4>2, Zenon DEF Range
      <4> QED
        BY <1>1, <1>10, <3>2, <4>3
    <3>3. ~ k = 3
      BY <1>11, <2>1
    <3> QED
      BY <1>11, <3>1, <3>2, <3>3
  <2> QED
    BY <2>1 DEF UndoesInTurn
<1> QED
  BY <1>9, <1>15, <1>16 DEF stop, remove, last

LEMMA NothingAppended ==
    ASSUME NEW steps, \E S : steps \in Seq(S)
    PROVE  steps \o <<>> = steps
<1>1. PICK S : steps \in Seq(S)
  OBVIOUS
<1> QED
  BY <1>1

LEMMA CreateInLaunch ==
    ASSUME FleetTypes, NEW t \in Threads, Create(t), request[t].op = "launch",
           NEW devices, devices = request[t].devices,
           InStep(jobs[t], devices), HaveNoHmis(devices)'
    PROVE  InStep(jobs[t], devices)'
<1> DEFINE head == Head(jobs[t])
           rest == Range(Tail(jobs[t]))
<1>1. At(t, "create") /\ Busy(t) /\ head.do = "create" /\ HasJobs /\ store' = store
  BY DEF Create, At, Busy, FleetTypes
<1>2. GoesOn(jobs[t], devices)
  BY <1>1, HeadOfLaunch DEF Building
<1>3. CASE Continue(t, Rollback(t))
  <2>1. jobs'[t] = DeleteEach(devices)
    BY <1>1, <1>3 DEF Continue, Rollback, HasJobs
  <2>2. RollsBack(jobs[t], devices)'
    <3> DEFINE job == jobs'[t]
    <3>1. /\ \A s \in Range(job) : s.do = "delete"
          /\ \A i \in devices : \E s \in Range(job) : Undoes(s, i)
          /\ UndoesInTurn(job)
      BY <2>1, DeleteEachInTurn
    <3>2. \A s \in Range(job) :
             /\ s.do \in Removing \cup Saving
             /\ s.do \in {"stop", "remove"} => s.id \in DOMAIN store'.devices
      BY <3>1 DEF Removing
    <3> QED
      BY <3>1, <3>2 DEF RollsBack, UndoesInTurn, Undoes
  <2> QED
    BY <2>2 DEF InStep
<1>4. CASE Call(t, <<[head EXCEPT !.do = "insert"]>>)
  <2> DEFINE s == [head EXCEPT !.do = "insert"]
             steps == <<s>>
  <2>1. s.do = "insert" /\ s.id = head.id
    BY <1>1, NextOfJob DEF FleetTypes
  <2>2. jobs'[t] = steps \o Tail(jobs[t])
    BY <1>1, <1>4 DEF Call, Continue, HasJobs
  <2> HIDE DEF s
  <2>3. steps \in Seq({s}) /\ DOMAIN steps = {1} /\ steps[1] = s
    OBVIOUS
  <2>4. Range(steps) = {s}
    BY <2>3 DEF Range
  <2> HIDE DEF steps
  <2>5. Range(jobs[t]) = {head} \cup rest /\ Range(jobs'[t]) = {s} \cup rest
    BY <1>1, <2>2, <2>3, <2>4, RangeOfJob, RangeOfCall
  <2>6. Created(jobs[t]) \subseteq Created(jobs'[t])
    BY <1>1, <2>1, <2>5 DEF Created
  <2>7. \A x \in Range(jobs'[t]) :
           /\ x.do \in (Building \ {"insert_hmi"}) \cup Saving
           /\ x.do = "start" => x.id \in DOMAIN store'.devices
    BY <1>1, <1>2, <2>1, <2>5 DEF GoesOn, Building
  <2>8. devices \subseteq DOMAIN store'.devices \cup Created(jobs'[t])
    BY <1>1, <1>2, <2>6 DEF GoesOn
  <2>9. GoesOn(jobs[t], devices)'
    BY <2>7, <2>8 DEF GoesOn, Created
  <2> QED
    BY <2>9 DEF InStep
<1> QED
  BY <1>3, <1>4 DEF Create

LEMMA InsertInLaunch ==
    ASSUME FleetTypes, NEW t \in Threads, InsertEntry(t),
           NEW devices, InStep(jobs[t], devices), HaveNoHmis(devices)'
    PROVE  InStep(jobs[t], devices)'
<1> DEFINE head == Head(jobs[t])
           rest == Range(Tail(jobs[t]))
           entry == [target |-> head.target, facility |-> head.facility, pid |-> NoPid]
           s == Step("start", head.id)
<1>1. /\ At(t, "insert") /\ Busy(t) /\ head.do = "insert" /\ HasJobs
      /\ store' = Put(head.id, entry)
      /\ Call(t, Save \o <<>>) \/ Call(t, Save \o <<s>>)
  BY DEF InsertEntry, At, Busy, FleetTypes
<1>2. GoesOn(jobs[t], devices)
  BY <1>1, HeadOfLaunch DEF Building
<1>3. DOMAIN store'.devices = DOMAIN store.devices \cup {head.id}
  <2>1. head \in [do : {"insert"}, id : DeviceIds, target : Targets,
                  facility : {None, "facility"}, autostart : BOOLEAN]
    BY <1>1, NextOfJob
  <2>2. head.id \in Ids /\ Part(head.id) = "devices"
    BY <2>1, PartOfId DEF Ids
  <2>3. entry \in EntryOf(Part(head.id))
    BY <2>1, <2>2, FleetAssumption DEF EntryOf, DeviceEntry
  <2> HIDE DEF entry
  <2>4. store'.devices = With(store.devices, head.id, entry)
    BY <1>1, <2>2, <2>3, PutFacts DEF FleetTypes
  <2> QED
    BY <2>4 DEF With
<1>4. s.do = "start" /\ s.id = head.id
  BY DEF Step
<1>5. PICK steps \in {<<>>, <<s>>, Save, Save \o <<s>>} : Call(t, steps)
  BY <1>1 DEF Save
<1> HIDE DEF s, entry
<1>6. PICK S : StepsOf(s, steps, S)
  BY RangeOfSteps
<1>7. steps \in Seq(S) /\ \A x \in Range(steps) : x = s \/ x.do = "save"
  BY <1>6 DEF StepsOf
<1>8. jobs'[t] = steps \o Tail(jobs[t])
  BY <1>1, <1>5 DEF Call, Continue, HasJobs
<1>9. Range(jobs[t]) = {head} \cup rest /\ Range(jobs'[t]) = Range(steps) \cup rest
  BY <1>1, <1>7, <1>8, RangeOfJob, RangeOfCall
<1>10. Created(jobs[t]) \subseteq {head.id} \cup Created(jobs'[t])
  BY <1>9 DEF Created
<1>11. \A x \in Range(jobs'[t]) :
          /\ x.do \in (Building \ {"insert_hmi"}) \cup Saving
          /\ x.do = "start" => x.id \in DOMAIN store'.devices
  BY <1>2, <1>3, <1>4, <1>7, <1>9 DEF GoesOn, Building, Saving
<1>12. devices \subseteq DOMAIN store'.devices \cup Created(jobs'[t])
  BY <1>2, <1>3, <1>10 DEF GoesOn
<1>13. GoesOn(jobs[t], devices)'
  BY <1>11, <1>12 DEF GoesOn, Created
<1> QED
  BY <1>13 DEF InStep

LEMMA RemoveInLaunch ==
    ASSUME FleetTypes, NEW t \in Threads, RemoveEntry(t),
           NEW devices, InStep(jobs[t], devices), HaveNoHmis(devices)'
    PROVE  InStep(jobs[t], devices)'
<1> DEFINE head == Head(jobs[t])
           rest == Range(Tail(jobs[t]))
<1>1. At(t, "remove") /\ Busy(t) /\ head.do = "remove" /\ HasJobs
  BY DEF RemoveEntry, At, Busy, FleetTypes
<1>2. /\ RollsBack(jobs[t], devices)
      /\ head.id \in DOMAIN store.devices /\ Known(head.id) /\ head.id \in DeviceIds
  BY <1>1, HeadOfLaunch DEF Removing
<1>3. store' = [store EXCEPT ![Part(head.id)] = Without(@, head.id)] /\ Call(t, Save)
  BY <1>2 DEF RemoveEntry
<1>4. DOMAIN store'.devices = DOMAIN store.devices \ {head.id}
  <2>1. store'.devices = Without(store.devices, head.id)
    BY <1>2, <1>3, PartOfId DEF FleetTypes, IsFleet, Parts
  <2> QED
    BY <2>1 DEF Without, Restrict
<1> DEFINE s == [do |-> "save"]
<1>5. s.do = "save" /\ Save \in {<<>>, <<s>>, Save, Save \o <<s>>}
  OBVIOUS
<1> HIDE DEF s
<1>6. PICK S : StepsOf(s, Save, S)
  BY <1>5, RangeOfSteps
<1>7. Save \in Seq(S) /\ \A x \in Range(Save) : x.do = "save"
  BY <1>5, <1>6 DEF StepsOf
<1>8. jobs'[t] = Save \o Tail(jobs[t])
  BY <1>1, <1>3 DEF Call, Continue, HasJobs
<1>9. Range(jobs[t]) = {head} \cup rest /\ Range(jobs'[t]) = Range(Save) \cup rest
  BY <1>1, <1>7, <1>8, RangeOfJob, RangeOfCall
<1>10. \A x \in rest : x.do \notin {"stop", "remove"}
  BY <1>1, <1>2, TurnOfHead DEF RollsBack
<1>11. \A x \in Range(jobs'[t]) :
          /\ x.do \in Removing \cup Saving
          /\ x.do \in {"stop", "remove"} => x.id \in DOMAIN store'.devices
  BY <1>2, <1>7, <1>9, <1>10 DEF RollsBack, Saving
<1>12. UndoesInTurn(jobs'[t])
  <2>1. \A k \in DOMAIN Save : Save[k].do \notin {"delete", "remove"}
    BY <1>7 DEF Range
  <2> QED
    BY <1>1, <1>2, <1>7, <1>8, <2>1, StaysInTurn DEF RollsBack
<1>13. ASSUME NEW i \in devices \cap DOMAIN store'.devices
       PROVE  \E x \in Range(jobs'[t]) : Undoes(x, i)
  <2>1. PICK x \in Range(jobs[t]) : Undoes(x, i)
    BY <1>2, <1>4 DEF RollsBack
  <2>2. x # head
    BY <1>1, <1>4, <2>1 DEF Undoes
  <2> QED
    BY <1>9, <2>1, <2>2
<1>14. RollsBack(jobs[t], devices)'
  BY <1>11, <1>12, <1>13 DEF RollsBack, UndoesInTurn, Undoes
<1> QED
  BY <1>14 DEF InStep

LEMMA DeleteInLaunch ==
    ASSUME FleetTypes, StepsAreWithin, NEW t \in Threads, Delete(t),
           NEW devices, devices = request[t].devices,
           InStep(jobs[t], devices), HaveNoHmis(devices)'
    PROVE  InStep(jobs[t], devices)'
<1> DEFINE head == Head(jobs[t])
<1>1. At(t, "delete") /\ Busy(t) /\ head.do = "delete" /\ HasJobs /\ store' = store
  BY DEF Delete, At, Busy, FleetTypes
<1>2. RollsBack(jobs[t], devices)
  BY <1>1, HeadOfLaunch DEF Removing
<1>3. Tail(jobs[t]) = <<>> /\ Range(jobs[t]) = {head}
  <2>1. Tail(jobs[t]) = <<>>
    BY <1>1, <1>2, TurnOfHead DEF RollsBack
  <2>2. Range(Tail(jobs[t])) = {}
    BY <2>1 DEF Range
  <2> QED
    BY <1>1, <2>1, <2>2, RangeOfJob
<1>4. \A i \in devices \cap DOMAIN store.devices : i \in head.ids
  BY <1>1, <1>2, <1>3 DEF RollsBack, Undoes
<1>5. PICK id \in head.ids :
        Call(t, (IF Known(id)
                 THEN DeleteEach(IF id \in DeviceIds THEN Attached(id) ELSE {})
                      \o <<Step("stop", id), Step("remove", id)>>
                 ELSE <<>>)
                \o DeleteEach(head.ids \ {id}))
  BY DEF Delete
<1> DEFINE others == head.ids \ {id}
           last == DeleteEach(others)
           steps == (IF Known(id)
                     THEN DeleteEach(IF id \in DeviceIds THEN Attached(id) ELSE {})
                          \o <<Step("stop", id), Step("remove", id)>>
                     ELSE <<>>)
                    \o last
<1>6. jobs'[t] = steps \o Tail(jobs[t])
  BY <1>1, <1>5 DEF Call, Continue, HasJobs
<1>7. /\ \A s \in Range(last) : s.do = "delete"
      /\ \A i \in others : \E s \in Range(last) : Undoes(s, i)
      /\ UndoesInTurn(last)
      /\ \E S : last \in Seq(S)
  BY DeleteEachInTurn
<1> HIDE DEF last
<1>8. CASE Known(id)
  <2>1. id \in DOMAIN store.devices /\ id \in devices /\ id \in DeviceIds
    <3>1. head \in Range(jobs[t]) /\ id \in Names(head)
      BY <1>1, <1>3, <1>5 DEF Names
    <3>2. id \in JobNames(jobs[t])
      BY <3>1 DEF JobNames
    <3>3. id \notin HmiIds
      <4>1. ASSUME id \in HmiIds PROVE FALSE
        <5>1. id \in DOMAIN store.hmis /\ store.hmis[id].device \in devices
          BY <1>8, <3>2, <4>1 DEF Known, Part, StepsAreWithin, Within
        <5> QED
          BY <5>1 DEF InStep, HaveNoHmis
      <4> QED
        BY <4>1
    <3>4. id \in DOMAIN store.devices
      BY <1>8, <3>3 DEF Known, Part
    <3>5. id \in devices
      BY <3>1, <3>4, NamedByLaunch
    <3> QED
      BY <3>4, <3>5, HmisInStore DEF FleetTypes
  <2>2. Attached(id) = {}
    BY <2>1 DEF Attached, HmisOf, InStep, HaveNoHmis
  <2> DEFINE stop == Step("stop", id)
             remove == Step("remove", id)
  <2>3. steps = (DeleteEach({}) \o <<Step("stop", id), Step("remove", id)>>)
                \o DeleteEach(others)
    BY <1>8, <2>1, <2>2 DEF last
  <2> HIDE DEF steps, others
  <2>4. /\ Range(steps) = {stop, remove} \cup Range(last)
        /\ UndoesInTurn(steps)
        /\ \E S : steps \in Seq(S)
    BY <2>3, DeletionInTurn DEF last
  <2>5. jobs'[t] = steps
    BY <1>3, <1>6, <2>4, NothingAppended
  <2>6. stop.do = "stop" /\ stop.id = id /\ remove.do = "remove" /\ remove.id = id
    BY DEF Step
  <2> HIDE DEF stop, remove
  <2>7. \A x \in Range(jobs'[t]) :
           /\ x.do \in Removing \cup Saving
           /\ x.do \in {"stop", "remove"} => x.id \in DOMAIN store'.devices
    BY <1>1, <1>7, <2>1, <2>4, <2>5, <2>6 DEF Removing
  <2>8. ASSUME NEW i \in devices \cap DOMAIN store'.devices
        PROVE  \E x \in Range(jobs'[t]) : Undoes(x, i)
    <3>1. CASE i = id
      BY <2>4, <2>5, <2>6, <3>1 DEF Undoes
    <3>2. CASE i # id
      <4>1. i \in others
        BY <1>1, <1>4, <2>8, <3>2 DEF others
      <4> QED
        BY <1>7, <2>4, <2>5, <4>1
    <3> QED
      BY <3>1, <3>2
  <2>9. RollsBack(jobs[t], devices)'
    BY <2>4, <2>5, <2>7, <2>8 DEF RollsBack, UndoesInTurn, Undoes
  <2> QED
    BY <2>9 DEF InStep
<1>9. CASE ~ Known(id)
  <2>1. steps = last
    BY <1>7, <1>9
  <2>2. jobs'[t] = last
    <3> HIDE DEF steps
    <3> QED
      BY <1>3, <1>6, <1>7, <2>1, NothingAppended
  <2>3. \A x \in Range(jobs'[t]) :
           /\ x.do \in Removing \cup Saving
           /\ x.do \in {"stop", "remove"} => x.id \in DOMAIN store'.devices
    BY <1>7, <2>2 DEF Removing
  <2>4. ASSUME NEW i \in devices \cap DOMAIN store'.devices
        PROVE  \E x \in Range(jobs'[t]) : Undoes(x, i)
    <3>1. i \in head.ids /\ i \in DOMAIN store.devices
      BY <1>1, <1>4, <2>4
    <3>2. Known(i)
      BY <3>1, HmisInStore, FleetAssumption DEF Known, Part, FleetTypes
    <3>3. i \in others
      BY <1>9, <3>1, <3>2
    <3> QED
      BY <1>7, <2>2, <3>3
  <2>5. RollsBack(jobs[t], devices)'
    BY <1>7, <2>2, <2>3, <2>4 DEF RollsBack, UndoesInTurn, Undoes
  <2> QED
    BY <2>5 DEF InStep
<1> QED
  BY <1>8, <1>9

LEMMA WorkOfLaunch ==
    ASSUME FleetTypes, JobsKeepOrder, NEW t \in Threads, Work(t), IsStepOf(t),
           ~ Raise(t), ~ SaveRaises(t), request[t].op = "launch", NEW devices, devices = request[t].devices,
           InStep(jobs[t], devices)
    PROVE  InStep(jobs[t], devices)'
<1>1. ~ At(t, "insert_hmi")
  BY HeadOfLaunch
<1>2. HaveNoHmis(devices)'
  BY <1>1, HmisStayAway DEF InStep
<1>3. ~ InsertHmi(t)
  BY <1>1 DEF InsertHmi
<1>4. CASE Create(t) \/ InsertEntry(t)
  BY <1>2, <1>4, CreateInLaunch, InsertInLaunch
<1>5. CASE Delete(t) \/ RemoveEntry(t)
  BY <1>2, <1>5, DeleteInLaunch, RemoveInLaunch DEF JobsKeepOrder
<1> QED
  BY <1>2, <1>3, <1>4, <1>5, PlainSteps DEF Work

\* No step but a crash of the web application and an exception other than for a
\* conflict throws a launch off course.
LEMMA LaunchGoesOn ==
    ASSUME FleetTypes, FleetTypes', JobsKeepOrder, [FleetNext]_fleetVars,
           NEW t \in Threads, request[t].op = "launch", request[t].devices \cap suspect = {},
           NEW devices, devices = request[t].devices, InStep(jobs[t], devices)
    PROVE  InStep(jobs[t], devices)' \/ Requests(t) \/ WebCrash \/ Raise(t) \/ SaveRaises(t)
<1>1. ASSUME store' = store, jobs'[t] = jobs[t]
      PROVE  InStep(jobs[t], devices)'
  <2>1. HaveNoHmis(devices)'
    BY <1>1 DEF InStep, HaveNoHmis
  <2> QED
    BY <1>1, <2>1, UndisturbedLaunch DEF JobsKeepOrder
<1>2. ASSUME NEW u \in Threads, Work(u)
      PROVE  InStep(jobs[t], devices)' \/ Raise(t) \/ SaveRaises(t)
  <2>1. IsStepOf(u)
    BY <1>2, WorkIsAStep
  <2> QED
    BY <1>2, <2>1, WorkOfLaunch, OthersLetLaunch
<1>3. ASSUME NEW u \in Threads \ {t}, Requests(u) PROVE InStep(jobs[t], devices)'
  <2>1. PICK ds, fresh, job : TakesFit(u, ds, fresh, job)
    BY <1>3, TakenFits
  <2>2. store' = store /\ jobs'[t] = jobs[t]
    BY <2>1 DEF TakesFit
  <2> QED
    BY <1>1, <2>2
<1>4. CASE ProcessExit
  BY <1>1, <1>4 DEF ProcessExit
<1>5. CASE UNCHANGED fleetVars
  BY <1>1, <1>5 DEF fleetVars
<1> QED
  BY <1>2, <1>3, <1>4, <1>5 DEF FleetNext, Done

LEMMA NextKeepsLaunches ==
    FleetTypes /\ JobsKeepOrder /\ LaunchesFit /\ [FleetNext]_fleetVars => LaunchesFit'
<1> SUFFICES ASSUME FleetTypes, JobsKeepOrder, LaunchesFit, [FleetNext]_fleetVars,
                    NEW t \in Threads, request'[t].op = "launch",
                    request'[t].devices \cap suspect' = {}
             PROVE  InStep(jobs[t], request[t].devices)'
  BY DEF LaunchesFit
<1>1. FleetTypes'
  BY NextKeepsTypes
<1> DEFINE raises == Raise(t) \/ SaveRaises(t)
<1>2. ASSUME request'[t] = request[t], request[t].devices \cap suspect = {},
             ~ Requests(t), ~ WebCrash, ~ raises
      PROVE  InStep(jobs[t], request[t].devices)'
  <2>1. PICK devices : devices = request[t].devices
    OBVIOUS
  <2>2. InStep(jobs[t], devices)
    BY <1>2, <2>1 DEF LaunchesFit
  <2>3. InStep(jobs[t], devices)'
    BY <1>1, <1>2, <2>1, <2>2, LaunchGoesOn
  <2> QED
    BY <1>2, <2>1, <2>3
<1>3. CASE Requests(t)
  <2>1. PICK devices, fresh, job : TakesFit(t, devices, fresh, job)
    BY <1>1, <1>3, TakenFits
  <2>2. store' = store
    BY <2>1 DEF TakesFit
  <2> QED
    BY <1>3, <2>2, TakenLaunchFits
<1>4. CASE WebCrash
  <2>1. request'[t].op = None
    BY <1>4 DEF WebCrash, NoRequest
  <2> QED
    BY <2>1 DEF None
<1>5. ASSUME NEW u \in Threads, Work(u)
      PROVE  request'[t] = request[t] /\ suspect' = suspect
  <2>1. IsStepOf(u)
    BY <1>1, <1>5, WorkIsAStep
  <2>2. request'[t] = NoRequest \/ request'[t] = request[t]
    BY <2>1 DEF IsStepOf
  <2> QED
    BY <2>1, <2>2 DEF IsStepOf, NoRequest, None
<1>6. ASSUME NEW u \in Threads \ {t}, Requests(u)
      PROVE  request'[t] = request[t] /\ request[t].devices \cap suspect = {}
  <2>1. PICK devices, fresh, job : TakesFit(u, devices, fresh, job)
    BY <1>1, <1>6, TakenFits
  <2>2. /\ request'[t] = request[t] /\ fresh \cap Used = {}
        /\ suspect' = (suspect \ fresh) \cup (devices \cap Requested)
    BY <2>1 DEF TakesFit, Fits
  <2>3. request[t].devices \subseteq Used
    BY NamedAreUsed DEF Requested
  <2> QED
    BY <2>2, <2>3
<1>8. ~ raises
  <2>1. ASSUME Continue(t, <<>>) PROVE request'[t].op = None
    BY <2>1 DEF Continue, FleetTypes, HasRequests, NoRequest
  <2> QED
    BY <2>1 DEF Raise, SaveRaises, None
<1> HIDE DEF raises
<1>7. CASE ProcessExit \/ UNCHANGED fleetVars
  <2>1. request' = request /\ suspect' = suspect
    BY <1>7 DEF ProcessExit, fleetVars
  <2> QED
    BY <1>2, <1>3, <1>4, <1>8, <2>1
<1> QED
  BY <1>2, <1>3, <1>4, <1>5, <1>6, <1>7, <1>8 DEF FleetNext, Done

\* However launches, creations and deletions of other devices come between, when a
\* launch that nobody else touched runs to its end, or a conflict ends it, all its
\* devices have their entries in the fleet, or none has.  Any other exception, which
\* such requests can cause, ends a launch without a rollback.
THEOREM LaunchesAreWhole == FleetSpec => LaunchIsWhole
<1>1. FleetInit => LaunchesFit
  BY DEF FleetInit, LaunchesFit, NoRequest, None
<1>2. ASSUME FleetTypes, FleetTypes', JobsKeepOrder, LaunchesFit, [FleetNext]_fleetVars,
             NEW t \in Threads, request[t].op = "launch", crashes' = crashes,
             jobs'[t] = <<>>, request[t].devices \cap suspect = {},
             ~ SaveRaises(t), ~ Raise(t)
      PROVE  request[t].devices \cap DOMAIN store'.devices \in {request[t].devices, {}}
  <2>1. PICK devices : devices = request[t].devices
    OBVIOUS
  <2>2. InStep(jobs[t], devices)
    BY <1>2, <2>1 DEF LaunchesFit
  <2>3. ~ WebCrash
    <3>1. crashes \in Int
      BY <1>2, FleetAssumption DEF FleetTypes
    <3>2. ASSUME WebCrash PROVE crashes' = crashes + 1
      BY <3>2 DEF WebCrash
    <3>3. crashes' = crashes
      BY <1>2
    <3> QED
      BY <3>1, <3>2, <3>3
  <2>4. ASSUME Requests(t) PROVE store' = store /\ jobs[t] = <<>>
    <3>1. PICK ds, fresh, job : TakesFit(t, ds, fresh, job)
      BY <1>2, <2>4, TakenFits
    <3> QED
      BY <3>1 DEF TakesFit
  <2>5. \/ InStep(jobs[t], devices)'
        \/ store' = store /\ InStep(<<>>, devices)
    <3>1. \/ InStep(jobs[t], devices)' \/ Requests(t) \/ WebCrash
          \/ Raise(t) \/ SaveRaises(t)
      BY <1>2, <2>1, <2>2, LaunchGoesOn
    <3> QED
      BY <1>2, <2>2, <2>3, <2>4, <3>1
  <2>6. Range(<<>>) = {} /\ Created(<<>>) = {}
    BY DEF Range, Created
  <2>7. CASE InStep(jobs[t], devices)'
    BY <1>2, <2>1, <2>6, <2>7 DEF InStep, GoesOn, RollsBack, Created
  <2>8. CASE store' = store /\ InStep(<<>>, devices)
    BY <2>1, <2>6, <2>8 DEF InStep, GoesOn, RollsBack
  <2> QED
    BY <2>5, <2>7, <2>8
<1>3. FleetTypes /\ FleetTypes' /\ JobsKeepOrder /\ LaunchesFit /\ [FleetNext]_fleetVars
      => [\A t \in Threads :
            LET ids == request[t].devices
            IN  request[t].op = "launch" /\ crashes' = crashes /\ jobs'[t] = <<>>
                   /\ ids \cap suspect = {} /\ ~ SaveRaises(t) /\ ~ Raise(t)
                 => ids \cap DOMAIN store'.devices \in {ids, {}}]_fleetVars
  BY <1>2
<1> QED
  BY <1>1, <1>3, OrderedInit, InitTypes, NextKeepsTypes, NextKeepsOrder, NextKeepsLaunches, PTL
     DEF FleetSpec, LaunchIsWhole
=============================================================================
