--------------------------- MODULE FacilityStore ---------------------------
(***************************************************************************)
(* The library of saved devices and the facilities made from them          *)
(* (web/app.py, SQLite): each user's rows, the snapshots that facility     *)
(* members take by value, export and import, and what a facility launches. *)
(*                                                                         *)
(* A write is one step, since SQLite runs one write transaction at a time  *)
(* and the others wait; a read and the write that follows it are two, and  *)
(* requests of other threads come between.  A read whose condition the     *)
(* WHERE clause of the write repeats is joined with it: rows never change  *)
(* their owner and ids are not given twice.                                *)
(***************************************************************************)
EXTENDS Clients, Integers, Sequences, SequencesExt

CONSTANTS
    Types,          \* ids of device types
    Targets,        \* host:port pairs; the name is checked like the target
    Payloads,       \* facility files that come from elsewhere
    Raises          \* stands for the types when loading them raised

\* A configuration may name no device type, if it names a protocol.
Configs == [type : Types \cup {None}, target : Targets]
Overrides == Targets \cup {None}
\* An override that is no port number; only a request can hold it, no row does.
BadOverride == "not a port"
Entry == [config : Configs, override : Overrides \cup {BadOverride}]

ASSUME StoreAssumption ==
    /\ BadOverride \notin Overrides
    /\ None \notin Types \cup Targets \cup Users /\ None \notin Nat
    /\ Raises \notin Types
    /\ Payloads \subseteq Seq(Entry)

VARIABLES
    saved,          \* saved_devices: by id, [user, config]
    facilities,     \* facilities: by id, the user
    members,        \* facility_devices: by id, [facility, saved, override, config]
                    \* where config is the snapshot
    lastId,         \* sqlite_sequence: the last id given, by table
    exports,        \* facility files the users hold
    instances,      \* the fleet's dictionary: [facility, member, target]
    types,          \* the device types the loader returns, or {Raises}
    jobs,           \* [Threads -> what is left of the request]
    crossed         \* history: facilities deleted while a launch was under way

storeVars ==
    <<saved, facilities, members, lastId, exports, instances, types, jobs, crossed>>

Idle == [do |-> "idle"]
Jobs ==
    {Idle}
    \cup [do : {"add"}, user : Users, facility : Nat, saved : Nat,
          override : Overrides, config : Configs]
    \cup [do : {"fill"}, user : Users, facility : Nat, entries : Seq(Entry)]
    \cup [do : {"delete"}, user : Users, facility : Nat]
    \cup [do : {"launch"}, user : Users, facility : Nat \cup {None},
          planned : Seq([member : Nat \cup {None}, target : Targets]),
          launched : SUBSET [facility : Nat \cup {None}, member : Nat \cup {None},
                             target : Targets]]

With(f, x, v) == [y \in DOMAIN f \cup {x} |-> IF y = x THEN v ELSE f[y]]
Without(f, S) == [y \in DOMAIN f \ S |-> f[y]]

OwnSaved(u) == {s \in DOMAIN saved : saved[s].user = u}
OwnFacilities(u) == {f \in DOMAIN facilities : facilities[f] = u}
MembersOf(f) == {m \in DOMAIN members : members[m].facility = f}
Tagged(f) == {i \in instances : i.facility = f}

\* What a member launches with, and what a facility consists of, in the order
\* of its members' ids.
Effective(entry) ==
    [type |-> entry.config.type,
     target |-> IF entry.override = None THEN entry.config.target ELSE entry.override]
InOrder(f) ==
    [n \in 1 .. Cardinality(MembersOf(f)) |->
        CHOOSE m \in MembersOf(f) : Cardinality({k \in MembersOf(f) : k <= m}) = n]
Exported(f) ==
    [n \in DOMAIN InOrder(f) |->
        [config |-> members[InOrder(f)[n]].config,
         override |-> members[InOrder(f)[n]].override]]
PlanOf(entries) == [n \in DOMAIN entries |-> Effective(entries[n])]
Plan(f) == PlanOf(Exported(f))

\* normalize_instance_config: the device type, if there is one, must be loaded.
Loads == Raises \notin types
Valid(config) == Loads /\ (config.type = None \/ config.type \in types)

Serve(t, job) == jobs' = [jobs EXCEPT ![t] = job]

-----------------------------------------------------------------------------
\* The library of saved devices.

\* persist_saved_device without an id, or with another name than the row has.
\* The column device_type_id takes no NULL.
SaveDevice(t, u, config) ==
    /\ Valid(config) /\ config.type # None
    /\ saved' = With(saved, lastId.saved + 1, [user |-> u, config |-> config])
    /\ lastId' = [lastId EXCEPT !.saved = @ + 1]
    /\ UNCHANGED <<facilities, members, exports, instances, types, jobs, crossed>>

\* persist_saved_device under the name that the row has.
SnapshotsFollow(s, config) ==                           \* Mutant: by reference
    [m \in DOMAIN members |->
        IF members[m].saved = s THEN [members[m] EXCEPT !.config = config]
        ELSE members[m]]
SnapshotsAfterEdit(s, config) == members

EditDevice(t, u, s, config) ==
    /\ Valid(config) /\ config.type # None
    /\ s \in OwnSaved(u)
    /\ saved' = [saved EXCEPT ![s].config = config]
    /\ members' = SnapshotsAfterEdit(s, config)
    /\ UNCHANGED <<facilities, lastId, exports, instances, types, jobs, crossed>>

\* ON DELETE SET NULL: members keep their snapshot.
DeleteDevice(t, u, s) ==
    /\ s \in OwnSaved(u)
    /\ saved' = Without(saved, {s})
    /\ members' = [m \in DOMAIN members |->
                      IF members[m].saved = s THEN [members[m] EXCEPT !.saved = None]
                      ELSE members[m]]
    /\ UNCHANGED <<facilities, lastId, exports, instances, types, jobs, crossed>>

LibraryEdit(t, u) ==
    \/ \E config \in Configs : SaveDevice(t, u, config)
    \/ \E s \in OwnSaved(u), config \in Configs : EditDevice(t, u, s, config)
    \/ \E s \in OwnSaved(u) : DeleteDevice(t, u, s)

-----------------------------------------------------------------------------
\* Facilities and their members.

CreateFacility(t, u) ==
    /\ facilities' = With(facilities, lastId.facility + 1, u)
    /\ lastId' = [lastId EXCEPT !.facility = @ + 1]
    /\ UNCHANGED <<saved, members, exports, instances, types, jobs, crossed>>

\* add_facility_device reads the saved device, then inserts its snapshot.
\* The saved device is looked up among the user's own.
AnySaved(u) == DOMAIN saved                             \* Mutant: no owner asked
ReadableSaved(u) == OwnSaved(u)

AddMember(t, u) ==
    /\ Loads
    /\ \E f \in OwnFacilities(u), s \in ReadableSaved(u), override \in Overrides :
          Serve(t, [do |-> "add", user |-> u, facility |-> f, saved |-> s,
                    override |-> override, config |-> saved[s].config])
    /\ UNCHANGED <<saved, facilities, members, lastId, exports, instances, types,
                   crossed>>

\* Foreign keys: a row that was deleted meanwhile makes the insertion fail.
InsertMember(t) ==
    /\ jobs[t].do = "add"
    /\ LET j == jobs[t]
       IN  IF j.facility \in DOMAIN facilities /\ j.saved \in DOMAIN saved
           THEN /\ members' = With(members, lastId.member + 1,
                        [facility |-> j.facility, saved |-> j.saved,
                         override |-> j.override, config |-> j.config])
                /\ lastId' = [lastId EXCEPT !.member = @ + 1]
           ELSE UNCHANGED <<members, lastId>>
    /\ Serve(t, Idle)
    /\ UNCHANGED <<saved, facilities, exports, instances, types, crossed>>

\* A member is addressed by its id and its facility's.
AnyMember(f) == DOMAIN members                          \* Mutant: by its id alone
Addressed(f) == MembersOf(f)

UpdateMember(t, u) ==
    /\ \E f \in OwnFacilities(u), override \in Overrides :
          \E m \in Addressed(f) :
             members' = [members EXCEPT ![m].override = override]
    /\ UNCHANGED <<saved, facilities, lastId, exports, instances, types, jobs, crossed>>

DeleteMember(t, u) ==
    /\ \E f \in OwnFacilities(u) :
          \E m \in Addressed(f) : members' = Without(members, {m})
    /\ UNCHANGED <<saved, facilities, lastId, exports, instances, types, jobs, crossed>>

LaunchUnderWay(f) == \E t \in Threads : jobs[t].do = "launch" /\ jobs[t].facility = f

\* api_facility_delete deletes the tagged instances first (how is in Fleet) and
\* then the row, which takes its members along (ON DELETE CASCADE).
LeftRunning(f) == instances                             \* Mutant: rows only
Stopped(f) == instances \ Tagged(f)

DeleteFacility(t, u) ==
    /\ \E f \in OwnFacilities(u) :
          /\ instances' = Stopped(f)
          /\ Serve(t, [do |-> "delete", user |-> u, facility |-> f])
          /\ crossed' = IF LaunchUnderWay(f) THEN crossed \cup {f} ELSE crossed
    /\ UNCHANGED <<saved, facilities, members, lastId, exports, types>>

DeleteFacilityRow(t) ==
    /\ jobs[t].do = "delete"
    /\ facilities' = Without(facilities, {jobs[t].facility})
    /\ members' = Without(members, MembersOf(jobs[t].facility))
    /\ Serve(t, Idle)
    /\ UNCHANGED <<saved, lastId, exports, instances, types, crossed>>

-----------------------------------------------------------------------------
\* Export and import.

ExportFacility(t, u) ==
    /\ Loads
    /\ \E f \in OwnFacilities(u) : exports' = exports \cup {Exported(f)}
    /\ UNCHANGED <<saved, facilities, members, lastId, instances, types, jobs, crossed>>

\* import_facility_for_user: the configurations are checked and the facility is
\* created and committed; then the devices and members are inserted.
ImportFacility(t, u) ==
    /\ \E entries \in exports :
          /\ \A n \in DOMAIN entries : Valid(entries[n].config)
          /\ Serve(t, [do |-> "fill", user |-> u, facility |-> lastId.facility + 1,
                       entries |-> entries])
    /\ facilities' = With(facilities, lastId.facility + 1, u)
    /\ lastId' = [lastId EXCEPT !.facility = @ + 1]
    /\ UNCHANGED <<saved, members, exports, instances, types, crossed>>

\* An entry that the tables or normalize_facility_device_overrides refuse.
Insertable(entry) == entry.override # BadOverride /\ entry.config.type # None
\* The entries whose rows a fill leaves behind: those of an uncommitted
\* transaction go with its connection.
KeepsWhatItCould(entries) ==                            \* Mutant: commit each entry
    SelectSeq(entries, Insertable)
EveryEntry(entries) == entries                          \* Mutant: no validation
Kept(entries) ==
    IF \A n \in DOMAIN entries : Insertable(entries[n]) THEN entries ELSE <<>>

FillFacility(t) ==
    /\ jobs[t].do = "fill"
    /\ LET j == jobs[t]
           kept == IF j.facility \in DOMAIN facilities THEN Kept(j.entries) ELSE <<>>
           New(last) == last + 1 .. last + Len(kept)
       IN  /\ saved' = [s \in DOMAIN saved \cup New(lastId.saved) |->
                          IF s \in DOMAIN saved THEN saved[s]
                          ELSE [user |-> j.user, config |-> kept[s - lastId.saved].config]]
           /\ members' = [m \in DOMAIN members \cup New(lastId.member) |->
                            IF m \in DOMAIN members THEN members[m]
                            ELSE [facility |-> j.facility,
                                  saved |-> lastId.saved + (m - lastId.member),
                                  override |-> kept[m - lastId.member].override,
                                  config |-> kept[m - lastId.member].config]]
           /\ lastId' = [saved |-> lastId.saved + Len(kept), facility |-> lastId.facility,
                         member |-> lastId.member + Len(kept)]
    /\ Serve(t, Idle)
    /\ UNCHANGED <<facilities, exports, instances, types, crossed>>

-----------------------------------------------------------------------------
\* Launch and stop.

Conflict(target) == \E i \in instances : i.target = target

\* api_saved_devices_launch.
LaunchDevice(t, u) ==
    /\ \E s \in OwnSaved(u) :
          /\ Valid(saved[s].config)
          /\ Serve(t, [do |-> "launch", user |-> u, facility |-> None,
                       planned |-> <<[member |-> None, target |-> saved[s].config.target]>>,
                       launched |-> {}])
    /\ UNCHANGED <<saved, facilities, members, lastId, exports, instances, types, crossed>>

\* api_facility_launch plans all members before it creates the first instance.
Planned(f) ==
    [n \in DOMAIN InOrder(f) |->
        [member |-> InOrder(f)[n], target |-> Plan(f)[n].target]]

LaunchFacility(t, u) ==
    /\ Loads
    /\ \E f \in OwnFacilities(u) :
          /\ \A m \in MembersOf(f) : Valid(members[m].config)
          /\ \A n \in DOMAIN Plan(f) :
                /\ ~ Conflict(Plan(f)[n].target)
                /\ \A k \in 1 .. n - 1 : Plan(f)[k].target # Plan(f)[n].target
          /\ Serve(t, [do |-> "launch", user |-> u, facility |-> f,
                       planned |-> Planned(f), launched |-> {}])
          /\ crossed' = IF \E d \in Threads : jobs[d].do = "delete" /\ jobs[d].facility = f
                        THEN crossed \cup {f} ELSE crossed
    /\ UNCHANGED <<saved, facilities, members, lastId, exports, instances, types>>

\* create_instance_from_config for one of them; a conflict takes back the others.
LaunchNext(t) ==
    /\ jobs[t].do = "launch"
    /\ LET j == jobs[t]
       IN  IF j.planned = <<>>
           THEN Serve(t, Idle) /\ UNCHANGED instances
           ELSE IF Conflict(Head(j.planned).target)
           THEN Serve(t, Idle) /\ instances' = instances \ j.launched
           ELSE LET i == [facility |-> j.facility, member |-> Head(j.planned).member,
                          target |-> Head(j.planned).target]
                IN  /\ instances' = instances \cup {i}
                    /\ Serve(t, [do |-> "launch", user |-> j.user, facility |-> j.facility,
                                 planned |-> Tail(j.planned),
                                 launched |-> j.launched \cup {i}])
    /\ UNCHANGED <<saved, facilities, members, lastId, exports, types, crossed>>

StopFacility(t, u) ==
    /\ \E f \in OwnFacilities(u) : instances' = Stopped(f)
    /\ UNCHANGED <<saved, facilities, members, lastId, exports, types, jobs, crossed>>

\* Any user may delete any instance; the fleet is shared.
DeleteInstance(t, u) ==
    /\ \E i \in instances : instances' = instances \ {i}
    /\ UNCHANGED <<saved, facilities, members, lastId, exports, types, jobs, crossed>>

-----------------------------------------------------------------------------
\* A device definition file is edited; the loader reads them at every request.
TypesChange ==
    /\ types' \in (SUBSET Types) \cup {{Raises}}
    /\ UNCHANGED <<saved, facilities, members, lastId, exports, instances, jobs, crossed>>

StoreInit ==
    /\ saved = <<>> /\ facilities = <<>> /\ members = <<>>
    /\ lastId = [saved |-> 0, facility |-> 0, member |-> 0]
    /\ exports = Payloads
    /\ instances = {}
    /\ types = Types
    /\ jobs = [t \in Threads |-> Idle]
    /\ crossed = {}

\* A request of user u, taken by an idle thread.
StoreRequest(t, u) ==
    /\ jobs[t] = Idle
    /\ \/ LibraryEdit(t, u)
       \/ CreateFacility(t, u) \/ AddMember(t, u)
       \/ UpdateMember(t, u) \/ DeleteMember(t, u) \/ DeleteFacility(t, u)
       \/ ExportFacility(t, u) \/ ImportFacility(t, u)
       \/ LaunchDevice(t, u) \/ LaunchFacility(t, u)
       \/ StopFacility(t, u) \/ DeleteInstance(t, u)

StoreWork(t) ==
    \/ InsertMember(t) \/ DeleteFacilityRow(t) \/ FillFacility(t) \/ LaunchNext(t)

StoreNext ==
    \/ \E t \in Threads : StoreWork(t) \/ \E u \in Users : StoreRequest(t, u)
    \/ TypesChange

StoreSpec == StoreInit /\ [][StoreNext]_storeVars

-----------------------------------------------------------------------------
\* Types of the tables, the fleet's tagged instances and the requests.
StoreTypeOK ==
    /\ DOMAIN saved \subseteq 1 .. lastId.saved
    /\ \A s \in DOMAIN saved : saved[s] \in [user : Users, config : Configs]
    /\ DOMAIN facilities \subseteq 1 .. lastId.facility
    /\ \A f \in DOMAIN facilities : facilities[f] \in Users
    /\ DOMAIN members \subseteq 1 .. lastId.member
    /\ \A m \in DOMAIN members :
          members[m] \in [facility : Nat, saved : Nat \cup {None},
                          override : Overrides, config : Configs]
    /\ lastId \in [saved : Nat, facility : Nat, member : Nat]
    /\ exports \subseteq Seq(Entry)
    /\ types \in (SUBSET Types) \cup {{Raises}}
    /\ jobs \in [Threads -> Jobs]

\* README: "Each user sees and manages only their own saved library", and
\* facilities are private.  A member belongs to a facility that is there, and
\* the saved device it was made from, while there is one, is one of the same
\* user, whatever was deleted between the steps of adding and importing.
MembersStayWithTheirUser ==
    \A m \in DOMAIN members :
        /\ members[m].facility \in DOMAIN facilities
        /\ members[m].saved # None =>
              /\ members[m].saved \in DOMAIN saved
              /\ saved[members[m].saved].user = facilities[members[m].facility]

\* The rows of a user.
Rows(u) ==
    [saved |-> [s \in OwnSaved(u) |-> saved[s]],
     members |-> [m \in UNION {MembersOf(f) : f \in OwnFacilities(u)} |-> members[m]],
     facilities |-> OwnFacilities(u)]

\* README, as above: whatever a request of one user does, the cascades of its
\* deletions included, the rows of the others stay as they are.
OnlyOwnRowsChange ==
    [][\A t \in Threads, u \in Users :
          \/ StoreRequest(t, u)
          \/ jobs[t] # Idle /\ jobs[t].user = u /\ StoreWork(t)
          => \A v \in Users \ {u} : Rows(v)' = Rows(v)]_storeVars

\* README: "Facility membership is snapshotted by value when a saved config is
\* added, so later edits to the saved-config library do not silently rewrite
\* old Facilities"; nor does a deletion from the library.
LibraryEditsKeepPlans ==
    [][\A t \in Threads, u \in Users :
          LibraryEdit(t, u) => \A f \in DOMAIN facilities : Plan(f)' = Plan(f)]_storeVars

\* README: an import "creates a new private Facility under the importing user
\* and fresh saved-device rows".  It is filled with all that the file holds, so
\* that it launches what the exported facility would, or with nothing.
ImportFillsAllOrNothing ==
    [][\A t \in Threads : \A f \in DOMAIN facilities :
          jobs[t].do = "fill" /\ jobs'[t] = Idle /\ jobs[t].facility = f =>
              \/ saved' = saved /\ members' = members
              \/ /\ Plan(f)' = Plan(f) \o PlanOf(jobs[t].entries)
                 /\ \A m \in MembersOf(f)' \ MembersOf(f) :
                       members'[m].saved \in DOMAIN saved' \ DOMAIN saved]_storeVars

\* README: Stop tears down "the batch by Facility tag".  So a tagged instance
\* should have its facility; only a deletion that overlapped a launch leaves
\* instances whose tag nobody can use.
TaggedHaveTheirFacility ==
    \A i \in instances :
        i.facility \in DOMAIN facilities \cup crossed \cup {None}
=============================================================================
