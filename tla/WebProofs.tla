------------------------------ MODULE WebProofs ------------------------------
(***************************************************************************)
(* Theorems about the web application: the library and the facilities,     *)
(* accounts and their lockout, the loader of device definitions, and the   *)
(* three as one system; for any number of users and of requests that       *)
(* overlap, any device types, targets and imported files, any limits of    *)
(* the lockout and any definition files.                                   *)
(***************************************************************************)
EXTENDS Web, FiniteSetTheorems, WellFoundedInduction, TLAPS

-----------------------------------------------------------------------------
\* The library and the facilities.

\* Row ids: numbers of which there is a last one, and those up to one of them.
AreIds(S) == \E n \in Nat : S \subseteq 1 .. n
UpTo(S, m) == {k \in S : k <= m}

LEMMA LeastIsThere ==
    ASSUME NEW S, S \subseteq Nat, S # {}
    PROVE  \E m \in S : \A k \in S : m <= k
<1>1. PICK m \in S : \A k \in S : ~ (<<k, m>> \in OpToRel(<, Nat))
  BY WFMin, NatLessThanWellFounded
<1>2. \A k \in S : ~ (k < m)
  BY <1>1 DEF OpToRel
<1> QED
  BY <1>2

LEMMA GreatestIsThere ==
    ASSUME NEW S, AreIds(S), S # {}
    PROVE  \E m \in S : \A k \in S : k <= m
<1>1. PICK n \in Nat : S \subseteq 1 .. n
  BY DEF AreIds
<1> DEFINE T == {i \in Nat : n - i \in S}
<1>2. T \subseteq Nat /\ T # {}
  <2>1. PICK k \in S : TRUE
    OBVIOUS
  <2>2. n - k \in Nat /\ n - (n - k) = k
    BY <1>1, <2>1
  <2> QED
    BY <2>1, <2>2
<1>3. PICK i \in T : \A j \in T : i <= j
  <2> HIDE DEF T
  <2> QED
    BY <1>2, LeastIsThere
<1>4. \A k \in S : n - k \in T
  BY <1>1
<1>5. ASSUME NEW k \in S
      PROVE  k <= n - i
  <2>1. k \in Nat /\ i \in Nat /\ i <= n - k
    BY <1>1, <1>3, <1>4
  <2> QED
    BY <2>1
<1> QED
  BY <1>3, <1>5

LEMMA IdsAreFinite ==
    ASSUME NEW S, AreIds(S)
    PROVE  IsFiniteSet(S) /\ Cardinality(S) \in Nat /\ S \subseteq Nat
<1>1. PICK n \in Nat : S \subseteq 1 .. n
  BY DEF AreIds
<1>2. IsFiniteSet(1 .. n) /\ S \in SUBSET (1 .. n)
  BY <1>1, FS_Interval
<1>3. IsFiniteSet(S)
  BY <1>2, FS_Subset
<1> QED
  BY <1>1, <1>3, FS_CardinalityType

LEMMA FewerIds ==
    ASSUME NEW S, AreIds(S), NEW T, T \subseteq S
    PROVE  AreIds(T)
BY DEF AreIds

LEMMA UpToFacts ==
    ASSUME NEW S, AreIds(S), NEW m \in S
    PROVE  /\ IsFiniteSet(UpTo(S, m)) /\ AreIds(UpTo(S, m))
           /\ UpTo(S, m) \subseteq S /\ m \in UpTo(S, m)
           /\ Cardinality(UpTo(S, m)) \in 1 .. Cardinality(S)
<1>1. IsFiniteSet(S) /\ Cardinality(S) \in Nat /\ m \in Nat
  BY IdsAreFinite
<1>2. UpTo(S, m) \in SUBSET S /\ m \in UpTo(S, m)
  BY <1>1 DEF UpTo
<1>3. /\ IsFiniteSet(UpTo(S, m)) /\ Cardinality(UpTo(S, m)) \in Nat
      /\ Cardinality(UpTo(S, m)) <= Cardinality(S)
  BY <1>1, <1>2, FS_Subset, FS_CardinalityType
<1>4. Cardinality(UpTo(S, m)) # 0
  BY <1>2, <1>3, FS_EmptySet
<1>5. AreIds(UpTo(S, m))
  BY <1>2, FewerIds
<1> QED
  BY <1>1, <1>2, <1>3, <1>4, <1>5

\* A later id has more ids up to it.
LEMMA UpToGrows ==
    ASSUME NEW S, AreIds(S), NEW m \in S, NEW p \in S, m < p
    PROVE  Cardinality(UpTo(S, m)) < Cardinality(UpTo(S, p))
<1>1. \A k \in S : k \in Nat
  BY IdsAreFinite
<1>2. UpTo(S, m) \in SUBSET UpTo(S, p) /\ p \in UpTo(S, p) /\ p \notin UpTo(S, m)
  BY <1>1 DEF UpTo
<1>3. /\ IsFiniteSet(UpTo(S, m)) /\ IsFiniteSet(UpTo(S, p))
  BY UpToFacts
<1>4. /\ Cardinality(UpTo(S, m)) \in Nat /\ Cardinality(UpTo(S, p)) \in Nat
  BY <1>3, FS_CardinalityType
<1>5. /\ Cardinality(UpTo(S, m)) <= Cardinality(UpTo(S, p))
      /\ Cardinality(UpTo(S, m)) # Cardinality(UpTo(S, p))
  BY <1>2, <1>3, FS_Subset
<1> QED
  BY <1>4, <1>5

\* The i-th of a set of ids is there, and it is one.
LEMMA NthIsThere ==
    ASSUME NEW S, AreIds(S), NEW i \in 1 .. Cardinality(S)
    PROVE  \E m \in S : Cardinality(UpTo(S, m)) = i
<1>1. IsFiniteSet(S) /\ Cardinality(S) \in Nat /\ S \subseteq Nat
  BY IdsAreFinite
<1> DEFINE A == {m \in S : Cardinality(UpTo(S, m)) >= i}
<1>2. A # {}
  <2>1. S # {}
    BY <1>1, FS_EmptySet
  <2>2. PICK m \in S : \A k \in S : k <= m
    BY <2>1, GreatestIsThere
  <2>3. UpTo(S, m) = S
    BY <2>2 DEF UpTo
  <2>4. m \in A
    BY <1>1, <2>2, <2>3
  <2> QED
    BY <2>4
<1>3. A \subseteq Nat
  BY <1>1
<1>4. PICK m \in A : \A k \in A : m <= k
  <2> HIDE DEF A
  <2> QED
    BY <1>2, <1>3, LeastIsThere
<1>5. Cardinality(UpTo(S, m)) = i
  <2> SUFFICES ASSUME Cardinality(UpTo(S, m)) # i PROVE FALSE
    OBVIOUS
  <2> DEFINE B == UpTo(S, m) \ {m}
  <2>1. m \in S /\ m \in Nat /\ Cardinality(UpTo(S, m)) >= i
    BY <1>3
  <2>2. /\ IsFiniteSet(UpTo(S, m)) /\ m \in UpTo(S, m) /\ AreIds(UpTo(S, m))
        /\ Cardinality(UpTo(S, m)) \in Nat
    BY <2>1, UpToFacts, FS_CardinalityType
  <2>3. /\ Cardinality(B) = Cardinality(UpTo(S, m)) - 1 /\ IsFiniteSet(B)
        /\ AreIds(B)
    BY <2>2, FS_RemoveElement, FewerIds
  <2>4. Cardinality(B) >= i /\ B # {}
    BY <2>1, <2>2, <2>3, FS_EmptySet
  <2>5. PICK p \in B : \A k \in B : k <= p
    <3> HIDE DEF B
    <3> QED
      BY <2>3, <2>4, GreatestIsThere
  <2>6. p \in S /\ p \in Nat /\ p <= m /\ p # m
    BY <1>1, <2>5 DEF UpTo
  <2>7. ASSUME NEW k \in S
        PROVE  k <= p <=> k \in B
    BY <1>1, <2>1, <2>5, <2>6, <2>7 DEF UpTo
  <2>8. UpTo(S, p) = B
    <3>1. B \subseteq S
      BY DEF UpTo
    <3> HIDE DEF B
    <3> QED
      BY <2>7, <3>1 DEF UpTo
  <2>9. p \in A
    BY <2>4, <2>6, <2>8
  <2> QED
    BY <1>4, <2>1, <2>6, <2>9
<1> QED
  BY <1>4, <1>5

LEMMA NthIsOne ==
    ASSUME NEW S, AreIds(S), NEW m \in S, NEW p \in S,
           Cardinality(UpTo(S, m)) = Cardinality(UpTo(S, p))
    PROVE  m = p
<1>1. /\ IsFiniteSet(UpTo(S, m)) /\ IsFiniteSet(UpTo(S, p))
      /\ m \in Nat /\ p \in Nat
  BY UpToFacts, IdsAreFinite
<1>2. Cardinality(UpTo(S, m)) \in Nat /\ Cardinality(UpTo(S, p)) \in Nat
  BY <1>1, FS_CardinalityType
<1>3. ~ (m < p) /\ ~ (p < m)
  BY <1>2, UpToGrows
<1> QED
  BY <1>1, <1>3

-----------------------------------------------------------------------------

\* What a request that is under way relies on, whatever was deleted since it
\* began: the ids it holds were given out before, so no row made later has
\* them, and a row that is still there is its user's.
JobIsItsUsers(j) ==
    /\ j.do \in {"add", "fill", "delete"} =>
          /\ j.facility \in 1 .. lastId.facility
          /\ j.facility \in DOMAIN facilities => facilities[j.facility] = j.user
    /\ j.do = "add" =>
          /\ j.saved \in 1 .. lastId.saved
          /\ j.saved \in DOMAIN saved => saved[j.saved].user = j.user
    /\ j.do = "fill" => Len(j.entries) \in Nat

IdsAreGiven ==
    /\ lastId \in [saved : Nat, facility : Nat, member : Nat]
    /\ DOMAIN saved \subseteq 1 .. lastId.saved
    /\ DOMAIN facilities \subseteq 1 .. lastId.facility
    /\ DOMAIN members \subseteq 1 .. lastId.member

\* The columns of the rows, and the files that were exported.
RowsHaveColumns ==
    /\ \A s \in DOMAIN saved : DOMAIN saved[s] = {"user", "config"}
    /\ \A m \in DOMAIN members :
          DOMAIN members[m] = {"facility", "saved", "override", "config"}
    /\ \A e \in exports : Len(e) \in Nat
    /\ DOMAIN jobs = Threads

RowInv ==
    /\ IdsAreGiven /\ RowsHaveColumns
    /\ \A t \in Threads : JobIsItsUsers(jobs[t])
    /\ MembersStayWithTheirUser

\* An exported facility is a sequence.
LEMMA ExportedIsASequence ==
    ASSUME IdsAreGiven, NEW f
    PROVE  Len(Exported(f)) \in Nat
<1> DEFINE S == MembersOf(f)
<1>1. IsFiniteSet(S)
  <2>1. S \subseteq 1 .. lastId.member /\ lastId.member \in Int
    BY DEF MembersOf, IdsAreGiven
  <2> QED
    BY <2>1, FS_Interval, FS_Subset
<1>2. Cardinality(S) \in Nat
  BY <1>1, FS_CardinalityType
<1>3. DOMAIN InOrder(f) = 1 .. Cardinality(S)
  BY DEF InOrder
<1> HIDE DEF S
<1> QED
  BY <1>2, <1>3 DEF Exported

-----------------------------------------------------------------------------
\* The steps of the library.

LEMMA SaveDeviceKeepsRows ==
    ASSUME RowInv, NEW t \in Threads, NEW u \in Users, NEW config \in Configs,
           SaveDevice(t, u, config)
    PROVE  RowInv'
<1> DEFINE id == lastId.saved + 1
<1>1. /\ id \in Nat /\ id \notin DOMAIN saved
      /\ lastId' = [lastId EXCEPT !.saved = id]
      /\ DOMAIN saved' = DOMAIN saved \cup {id}
      /\ saved'[id] = [user |-> u, config |-> config]
      /\ \A s \in DOMAIN saved : saved'[s] = saved[s]
      /\ UNCHANGED <<facilities, members, exports, jobs>>
  BY DEF SaveDevice, With, RowInv, IdsAreGiven
<1>2. IdsAreGiven' /\ RowsHaveColumns'
  BY <1>1 DEF RowInv, IdsAreGiven, RowsHaveColumns
<1>3. \A v \in Threads : JobIsItsUsers(jobs[v])'
  BY <1>1 DEF RowInv, IdsAreGiven, JobIsItsUsers
<1>4. MembersStayWithTheirUser'
  BY <1>1 DEF RowInv, MembersStayWithTheirUser
<1> QED
  BY <1>2, <1>3, <1>4 DEF RowInv

LEMMA EditDeviceKeepsRows ==
    ASSUME RowInv, NEW t \in Threads, NEW u \in Users, NEW s \in DOMAIN saved,
           NEW config \in Configs, EditDevice(t, u, s, config)
    PROVE  RowInv'
<1>1. /\ DOMAIN saved' = DOMAIN saved
      /\ \A r \in DOMAIN saved : DOMAIN saved'[r] = DOMAIN saved[r]
                                  /\ saved'[r].user = saved[r].user
      /\ UNCHANGED <<facilities, members, lastId, exports, jobs>>
  BY DEF EditDevice, SnapshotsAfterEdit, RowInv, RowsHaveColumns
<1>2. IdsAreGiven' /\ RowsHaveColumns'
  BY <1>1 DEF RowInv, IdsAreGiven, RowsHaveColumns
<1>3. \A v \in Threads : JobIsItsUsers(jobs[v])'
  BY <1>1 DEF RowInv, JobIsItsUsers
<1>4. MembersStayWithTheirUser'
  BY <1>1 DEF RowInv, MembersStayWithTheirUser
<1> QED
  BY <1>2, <1>3, <1>4 DEF RowInv

LEMMA DeleteDeviceKeepsRows ==
    ASSUME RowInv, NEW t \in Threads, NEW u \in Users, NEW s \in DOMAIN saved,
           DeleteDevice(t, u, s)
    PROVE  RowInv'
<1>1. /\ DOMAIN saved' = DOMAIN saved \ {s}
      /\ \A r \in DOMAIN saved' : saved'[r] = saved[r]
      /\ DOMAIN members' = DOMAIN members
      /\ \A m \in DOMAIN members :
            /\ DOMAIN members'[m] = DOMAIN members[m]
            /\ members'[m].facility = members[m].facility
            /\ members'[m].saved = IF members[m].saved = s THEN None
                                   ELSE members[m].saved
      /\ UNCHANGED <<facilities, lastId, exports, jobs>>
  BY DEF DeleteDevice, Without, RowInv, RowsHaveColumns
<1>2. IdsAreGiven' /\ RowsHaveColumns'
  BY <1>1 DEF RowInv, IdsAreGiven, RowsHaveColumns
<1>3. \A v \in Threads : JobIsItsUsers(jobs[v])'
  BY <1>1 DEF RowInv, JobIsItsUsers
<1>4. MembersStayWithTheirUser'
  BY <1>1 DEF RowInv, MembersStayWithTheirUser
<1> QED
  BY <1>2, <1>3, <1>4 DEF RowInv

-----------------------------------------------------------------------------
\* Facilities and members.

LEMMA CreateFacilityKeepsRows ==
    ASSUME RowInv, NEW t \in Threads, NEW u \in Users, CreateFacility(t, u)
    PROVE  RowInv'
<1> DEFINE id == lastId.facility + 1
<1>1. /\ id \in Nat /\ id \notin DOMAIN facilities
      /\ lastId' = [lastId EXCEPT !.facility = id]
      /\ DOMAIN facilities' = DOMAIN facilities \cup {id}
      /\ facilities'[id] = u
      /\ \A f \in DOMAIN facilities : facilities'[f] = facilities[f]
      /\ UNCHANGED <<saved, members, exports, jobs>>
  BY DEF CreateFacility, With, RowInv, IdsAreGiven
<1>2. IdsAreGiven' /\ RowsHaveColumns'
  BY <1>1 DEF RowInv, IdsAreGiven, RowsHaveColumns
<1>3. \A v \in Threads : JobIsItsUsers(jobs[v])'
  BY <1>1 DEF RowInv, IdsAreGiven, JobIsItsUsers
<1>4. MembersStayWithTheirUser'
  BY <1>1 DEF RowInv, MembersStayWithTheirUser
<1> QED
  BY <1>2, <1>3, <1>4 DEF RowInv

\* A request that starts reads rows of its own user.
LEMMA AddMemberKeepsRows ==
    ASSUME RowInv, NEW t \in Threads, NEW u \in Users, AddMember(t, u)
    PROVE  RowInv'
<1>1. PICK f \in OwnFacilities(u), s \in OwnSaved(u), o \in Overrides :
        Serve(t, [do |-> "add", user |-> u, facility |-> f, saved |-> s,
                  override |-> o, config |-> saved[s].config])
  BY DEF AddMember, ReadableSaved
<1>2. UNCHANGED <<saved, facilities, members, lastId, exports>>
  BY DEF AddMember
<1>3. /\ DOMAIN jobs' = Threads
      /\ jobs'[t] = [do |-> "add", user |-> u, facility |-> f, saved |-> s,
                      override |-> o, config |-> saved[s].config]
      /\ \A v \in Threads \ {t} : jobs'[v] = jobs[v]
  BY <1>1 DEF Serve, RowInv, RowsHaveColumns
<1>4. JobIsItsUsers(jobs[t])'
  <2>1. /\ f \in DOMAIN facilities /\ facilities[f] = u
        /\ s \in DOMAIN saved /\ saved[s].user = u
    BY DEF OwnFacilities, OwnSaved
  <2>2. f \in 1 .. lastId.facility /\ s \in 1 .. lastId.saved
    BY <2>1 DEF RowInv, IdsAreGiven
  <2> QED
    BY <1>2, <1>3, <2>1, <2>2 DEF JobIsItsUsers
<1>5. \A v \in Threads : JobIsItsUsers(jobs[v])'
  BY <1>2, <1>3, <1>4 DEF RowInv, JobIsItsUsers
<1> QED
  BY <1>2, <1>3, <1>5
     DEF RowInv, IdsAreGiven, RowsHaveColumns, MembersStayWithTheirUser

LEMMA InsertMemberKeepsRows ==
    ASSUME RowInv, NEW t \in Threads, InsertMember(t)
    PROVE  RowInv'
<1> DEFINE j == jobs[t]
           id == lastId.member + 1
<1>1. /\ UNCHANGED <<saved, facilities, exports>>
      /\ DOMAIN jobs' = Threads
      /\ jobs'[t] = Idle
      /\ \A v \in Threads \ {t} : jobs'[v] = jobs[v]
  BY DEF InsertMember, Serve, RowInv, RowsHaveColumns
<1>2. CASE UNCHANGED <<members, lastId>>
  BY <1>1, <1>2
     DEF RowInv, IdsAreGiven, RowsHaveColumns, JobIsItsUsers, Idle,
         MembersStayWithTheirUser
<1>3. CASE /\ j.facility \in DOMAIN facilities /\ j.saved \in DOMAIN saved
           /\ members' = With(members, id,
                 [facility |-> j.facility, saved |-> j.saved,
                  override |-> j.override, config |-> j.config])
           /\ lastId' = [lastId EXCEPT !.member = @ + 1]
  <2>1. /\ id \in Nat /\ id \notin DOMAIN members
        /\ lastId'.member = id /\ lastId'.saved = lastId.saved
        /\ lastId'.facility = lastId.facility
        /\ lastId' \in [saved : Nat, facility : Nat, member : Nat]
        /\ DOMAIN members' = DOMAIN members \cup {id}
        /\ members'[id] = [facility |-> j.facility, saved |-> j.saved,
                            override |-> j.override, config |-> j.config]
        /\ \A m \in DOMAIN members : members'[m] = members[m]
    BY <1>3 DEF With, RowInv, IdsAreGiven
  <2>2. saved[j.saved].user = facilities[j.facility]
    BY <1>3 DEF InsertMember, RowInv, JobIsItsUsers
  <2>3. IdsAreGiven' /\ RowsHaveColumns'
    BY <1>1, <2>1 DEF RowInv, IdsAreGiven, RowsHaveColumns
  <2>4. \A v \in Threads : JobIsItsUsers(jobs[v])'
    BY <1>1, <2>1 DEF RowInv, JobIsItsUsers, Idle
  <2>5. MembersStayWithTheirUser'
    BY <1>1, <1>3, <2>1, <2>2 DEF RowInv, MembersStayWithTheirUser
  <2> QED
    BY <2>3, <2>4, <2>5 DEF RowInv
<1> QED
  BY <1>2, <1>3 DEF InsertMember

LEMMA UpdateMemberKeepsRows ==
    ASSUME RowInv, NEW t \in Threads, NEW u \in Users, UpdateMember(t, u)
    PROVE  RowInv'
<1>1. /\ DOMAIN members' = DOMAIN members
      /\ \A m \in DOMAIN members :
            /\ DOMAIN members'[m] = DOMAIN members[m]
            /\ members'[m].facility = members[m].facility
            /\ members'[m].saved = members[m].saved
      /\ UNCHANGED <<saved, facilities, lastId, exports, jobs>>
  BY DEF UpdateMember, Addressed, MembersOf, RowInv, RowsHaveColumns
<1> QED
  BY <1>1 DEF RowInv, IdsAreGiven, RowsHaveColumns, JobIsItsUsers,
              MembersStayWithTheirUser

LEMMA DeleteMemberKeepsRows ==
    ASSUME RowInv, NEW t \in Threads, NEW u \in Users, DeleteMember(t, u)
    PROVE  RowInv'
<1>1. /\ DOMAIN members' \subseteq DOMAIN members
      /\ \A m \in DOMAIN members' : members'[m] = members[m]
      /\ UNCHANGED <<saved, facilities, lastId, exports, jobs>>
  BY DEF DeleteMember, Without
<1> QED
  BY <1>1 DEF RowInv, IdsAreGiven, RowsHaveColumns, JobIsItsUsers,
              MembersStayWithTheirUser

LEMMA DeleteFacilityKeepsRows ==
    ASSUME RowInv, NEW t \in Threads, NEW u \in Users, DeleteFacility(t, u)
    PROVE  RowInv'
<1>1. PICK f \in OwnFacilities(u) :
        Serve(t, [do |-> "delete", user |-> u, facility |-> f])
  BY DEF DeleteFacility
<1>2. /\ UNCHANGED <<saved, facilities, members, lastId, exports>>
      /\ f \in DOMAIN facilities /\ facilities[f] = u
      /\ f \in 1 .. lastId.facility
      /\ DOMAIN jobs' = Threads
      /\ jobs'[t] = [do |-> "delete", user |-> u, facility |-> f]
      /\ \A v \in Threads \ {t} : jobs'[v] = jobs[v]
  BY <1>1 DEF DeleteFacility, Serve, OwnFacilities, RowInv, IdsAreGiven, RowsHaveColumns
<1>3. \A v \in Threads : JobIsItsUsers(jobs[v])'
  BY <1>2 DEF RowInv, JobIsItsUsers
<1> QED
  BY <1>2, <1>3
     DEF RowInv, IdsAreGiven, RowsHaveColumns, MembersStayWithTheirUser

\* The row takes its members along, and no other row points to it.
LEMMA DeleteFacilityRowKeepsRows ==
    ASSUME RowInv, NEW t \in Threads, DeleteFacilityRow(t)
    PROVE  RowInv'
<1> DEFINE f == jobs[t].facility
<1>1. /\ DOMAIN facilities' = DOMAIN facilities \ {f}
      /\ \A g \in DOMAIN facilities' : facilities'[g] = facilities[g]
      /\ DOMAIN members' = DOMAIN members \ MembersOf(f)
      /\ \A m \in DOMAIN members' :
            members'[m] = members[m] /\ members[m].facility # f
      /\ UNCHANGED <<saved, lastId, exports>>
      /\ DOMAIN jobs' = Threads
      /\ jobs'[t] = Idle
      /\ \A v \in Threads \ {t} : jobs'[v] = jobs[v]
  BY DEF DeleteFacilityRow, Without, MembersOf, Serve, RowInv, RowsHaveColumns
<1>2. IdsAreGiven' /\ RowsHaveColumns'
  BY <1>1 DEF RowInv, IdsAreGiven, RowsHaveColumns
<1>3. \A v \in Threads : JobIsItsUsers(jobs[v])'
  BY <1>1 DEF RowInv, JobIsItsUsers, Idle
<1>4. MembersStayWithTheirUser'
  BY <1>1 DEF RowInv, MembersStayWithTheirUser
<1> QED
  BY <1>2, <1>3, <1>4 DEF RowInv

-----------------------------------------------------------------------------
\* Export and import.

LEMMA ExportFacilityKeepsRows ==
    ASSUME RowInv, NEW t \in Threads, NEW u \in Users, ExportFacility(t, u)
    PROVE  RowInv'
<1>1. UNCHANGED <<saved, facilities, members, lastId, jobs>>
  BY DEF ExportFacility
<1>2. PICK f : exports' = exports \cup {Exported(f)}
  BY DEF ExportFacility
<1>3. Len(Exported(f)) \in Nat
  BY ExportedIsASequence DEF RowInv
<1>4. RowsHaveColumns'
  BY <1>1, <1>2, <1>3 DEF RowInv, RowsHaveColumns
<1> QED
  BY <1>1, <1>4 DEF RowInv, IdsAreGiven, JobIsItsUsers, MembersStayWithTheirUser

LEMMA ImportFacilityKeepsRows ==
    ASSUME RowInv, NEW t \in Threads, NEW u \in Users, ImportFacility(t, u)
    PROVE  RowInv'
<1> DEFINE id == lastId.facility + 1
<1>1. PICK entries \in exports :
        Serve(t, [do |-> "fill", user |-> u, facility |-> id, entries |-> entries])
  BY DEF ImportFacility
<1>2. /\ id \in Nat /\ id \notin DOMAIN facilities
      /\ lastId' = [lastId EXCEPT !.facility = id]
      /\ DOMAIN facilities' = DOMAIN facilities \cup {id}
      /\ facilities'[id] = u
      /\ \A f \in DOMAIN facilities : facilities'[f] = facilities[f]
      /\ UNCHANGED <<saved, members, exports>>
  BY DEF ImportFacility, With, RowInv, IdsAreGiven
<1>3. /\ DOMAIN jobs' = Threads
      /\ jobs'[t] = [do |-> "fill", user |-> u, facility |-> id, entries |-> entries]
      /\ \A v \in Threads \ {t} : jobs'[v] = jobs[v]
      /\ Len(entries) \in Nat
  BY <1>1 DEF Serve, RowInv, RowsHaveColumns
<1>4. IdsAreGiven' /\ RowsHaveColumns'
  BY <1>2, <1>3 DEF RowInv, IdsAreGiven, RowsHaveColumns
<1>5. JobIsItsUsers(jobs[t])'
  BY <1>2, <1>3 DEF RowInv, IdsAreGiven, JobIsItsUsers
<1>6. \A v \in Threads \ {t} : JobIsItsUsers(jobs[v])'
  BY <1>2, <1>3 DEF RowInv, IdsAreGiven, JobIsItsUsers
<1>7. MembersStayWithTheirUser'
  BY <1>2 DEF RowInv, MembersStayWithTheirUser
<1> QED
  BY <1>4, <1>5, <1>6, <1>7 DEF RowInv

\* What a fill does to the tables: rows are added, for the user who imports,
\* and only while the facility is there.
LEMMA FillAddsRows ==
    ASSUME RowInv, NEW t \in Threads, FillFacility(t)
    PROVE  \E n \in Nat :
              /\ n > 0 => jobs[t].facility \in DOMAIN facilities
              /\ lastId' = [saved |-> lastId.saved + n, facility |-> lastId.facility,
                            member |-> lastId.member + n]
              /\ DOMAIN saved' = DOMAIN saved \cup lastId.saved + 1 .. lastId.saved + n
              /\ \A s \in DOMAIN saved : saved'[s] = saved[s]
              /\ \A s \in DOMAIN saved' \ DOMAIN saved :
                    /\ saved'[s].user = jobs[t].user
                    /\ DOMAIN saved'[s] = {"user", "config"}
              /\ DOMAIN members'
                    = DOMAIN members \cup lastId.member + 1 .. lastId.member + n
              /\ \A m \in DOMAIN members : members'[m] = members[m]
              /\ \A m \in DOMAIN members' \ DOMAIN members :
                    /\ DOMAIN members'[m] = {"facility", "saved", "override", "config"}
                    /\ members'[m].facility = jobs[t].facility
                    /\ members'[m].saved \in DOMAIN saved' \ DOMAIN saved
<1> DEFINE j == jobs[t]
           kept == IF j.facility \in DOMAIN facilities THEN Kept(j.entries) ELSE <<>>
           n == Len(kept)
<1>1. n \in Nat /\ (n > 0 => j.facility \in DOMAIN facilities)
  BY DEF FillFacility, RowInv, JobIsItsUsers, Kept
<1>2. /\ saved' = [s \in DOMAIN saved \cup lastId.saved + 1 .. lastId.saved + n |->
                      IF s \in DOMAIN saved THEN saved[s]
                      ELSE [user |-> j.user, config |-> kept[s - lastId.saved].config]]
      /\ members' = [m \in DOMAIN members \cup lastId.member + 1 .. lastId.member + n |->
                        IF m \in DOMAIN members THEN members[m]
                        ELSE [facility |-> j.facility,
                              saved |-> lastId.saved + (m - lastId.member),
                              override |-> kept[m - lastId.member].override,
                              config |-> kept[m - lastId.member].config]]
      /\ lastId' = [saved |-> lastId.saved + n, facility |-> lastId.facility,
                            member |-> lastId.member + n]
  BY DEF FillFacility
<1> HIDE DEF n, kept
<1>3. /\ DOMAIN saved' = DOMAIN saved \cup lastId.saved + 1 .. lastId.saved + n
      /\ \A s \in DOMAIN saved : saved'[s] = saved[s]
      /\ \A s \in DOMAIN saved' \ DOMAIN saved :
            /\ saved'[s].user = j.user
            /\ DOMAIN saved'[s] = {"user", "config"}
  BY <1>2
<1>4. /\ DOMAIN members' = DOMAIN members \cup lastId.member + 1 .. lastId.member + n
      /\ \A m \in DOMAIN members : members'[m] = members[m]
      /\ \A m \in DOMAIN members' \ DOMAIN members :
            /\ m \in lastId.member + 1 .. lastId.member + n
            /\ DOMAIN members'[m] = {"facility", "saved", "override", "config"}
            /\ members'[m].facility = j.facility
            /\ members'[m].saved = lastId.saved + (m - lastId.member)
  BY <1>2
<1>5. ASSUME NEW m \in DOMAIN members' \ DOMAIN members
      PROVE  members'[m].saved \in DOMAIN saved' \ DOMAIN saved
  <2>1. /\ lastId.member \in Nat /\ lastId.saved \in Nat
        /\ DOMAIN saved \subseteq 1 .. lastId.saved
    BY DEF RowInv, IdsAreGiven
  <2>2. members'[m].saved \in lastId.saved + 1 .. lastId.saved + n
    BY <1>1, <1>4, <2>1
  <2> QED
    BY <1>1, <1>3, <2>1, <2>2
<1> QED
  BY <1>1, <1>2, <1>3, <1>4, <1>5

LEMMA FillFacilityKeepsRows ==
    ASSUME RowInv, NEW t \in Threads, FillFacility(t)
    PROVE  RowInv'
<1>1. PICK n \in Nat :
              /\ n > 0 => jobs[t].facility \in DOMAIN facilities
              /\ lastId' = [saved |-> lastId.saved + n, facility |-> lastId.facility,
                            member |-> lastId.member + n]
              /\ DOMAIN saved' = DOMAIN saved \cup lastId.saved + 1 .. lastId.saved + n
              /\ \A s \in DOMAIN saved : saved'[s] = saved[s]
              /\ \A s \in DOMAIN saved' \ DOMAIN saved :
                    /\ saved'[s].user = jobs[t].user
                    /\ DOMAIN saved'[s] = {"user", "config"}
              /\ DOMAIN members'
                    = DOMAIN members \cup lastId.member + 1 .. lastId.member + n
              /\ \A m \in DOMAIN members : members'[m] = members[m]
              /\ \A m \in DOMAIN members' \ DOMAIN members :
                    /\ DOMAIN members'[m] = {"facility", "saved", "override", "config"}
                    /\ members'[m].facility = jobs[t].facility
                    /\ members'[m].saved \in DOMAIN saved' \ DOMAIN saved
  BY FillAddsRows
<1>2. /\ UNCHANGED <<facilities, exports>>
      /\ DOMAIN jobs' = Threads
      /\ jobs'[t] = Idle
      /\ \A v \in Threads \ {t} : jobs'[v] = jobs[v]
      /\ jobs[t].do = "fill"
  BY DEF FillFacility, Serve, RowInv, RowsHaveColumns
<1>3. /\ lastId' \in [saved : Nat, facility : Nat, member : Nat]
      /\ lastId'.saved = lastId.saved + n
      /\ lastId'.member = lastId.member + n
      /\ lastId'.facility = lastId.facility
  BY <1>1 DEF RowInv, IdsAreGiven
<1>4. IdsAreGiven'
  BY <1>1, <1>2, <1>3 DEF RowInv, IdsAreGiven
<1>5. RowsHaveColumns'
  BY <1>1, <1>2 DEF RowInv, RowsHaveColumns
<1>6. ASSUME NEW v \in Threads
      PROVE  JobIsItsUsers(jobs[v])'
  <2>1. CASE v = t
    BY <1>2, <2>1 DEF JobIsItsUsers, Idle
  <2>2. CASE v # t
    <3> DEFINE j == jobs[v]
    <3>1. JobIsItsUsers(j) /\ jobs'[v] = j
      BY <1>2, <2>2 DEF RowInv
    <3>2. j.do = "add" => j.saved \in 1 .. lastId.saved
      BY <3>1 DEF JobIsItsUsers
    <3>3. j.do = "add" /\ j.saved \in DOMAIN saved' => j.saved \in DOMAIN saved
      BY <1>1, <3>2 DEF RowInv, IdsAreGiven
    <3>4. j.do = "add" => j.saved \in 1 .. lastId'.saved
      BY <1>3, <3>2 DEF RowInv, IdsAreGiven
    <3>5. j.saved \in DOMAIN saved => saved'[j.saved] = saved[j.saved]
      BY <1>1
    <3>6. facilities' = facilities /\ lastId'.facility = lastId.facility
      BY <1>2, <1>3
    <3> HIDE DEF j
    <3> QED
      BY <3>1, <3>3, <3>4, <3>5, <3>6 DEF JobIsItsUsers
  <2> QED
    BY <2>1, <2>2
<1>7. ASSUME NEW m \in DOMAIN members'
      PROVE  /\ members'[m].facility \in DOMAIN facilities
             /\ members'[m].saved # None =>
                   /\ members'[m].saved \in DOMAIN saved'
                   /\ saved'[members'[m].saved].user = facilities[members'[m].facility]
  <2>1. CASE m \in DOMAIN members
    BY <1>1, <2>1 DEF RowInv, MembersStayWithTheirUser
  <2>2. CASE m \notin DOMAIN members
    <3>1. n > 0
      BY <1>1, <2>2 DEF RowInv, IdsAreGiven
    <3>2. /\ jobs[t].facility \in DOMAIN facilities
          /\ facilities[jobs[t].facility] = jobs[t].user
      BY <1>1, <1>2, <3>1 DEF RowInv, JobIsItsUsers
    <3> QED
      BY <1>1, <2>2, <3>2
  <2> QED
    BY <2>1, <2>2
<1>8. MembersStayWithTheirUser'
  BY <1>2, <1>7 DEF MembersStayWithTheirUser
<1> QED
  BY <1>4, <1>5, <1>6, <1>8 DEF RowInv

-----------------------------------------------------------------------------
\* Launch and stop leave the rows alone.

LEMMA UntouchedRowsAreKept ==
    ASSUME RowInv, UNCHANGED <<saved, facilities, members, lastId, exports>>,
           DOMAIN jobs' = Threads,
           \A t \in Threads : jobs'[t] = jobs[t] \/ jobs'[t].do \in {"idle", "launch"}
    PROVE  RowInv'
<1>1. \A t \in Threads : JobIsItsUsers(jobs[t])'
  BY DEF RowInv, JobIsItsUsers
<1> QED
  BY <1>1 DEF RowInv, IdsAreGiven, RowsHaveColumns, MembersStayWithTheirUser

\* What is idle or launches touches no rows.
LaunchStep(t) ==
    \/ LaunchNext(t)
    \/ \E u \in Users : LaunchDevice(t, u) \/ LaunchFacility(t, u)
                       \/ StopFacility(t, u) \/ DeleteInstance(t, u)

LEMMA LaunchKeepsRows ==
    ASSUME RowInv, NEW t \in Threads, LaunchStep(t)
    PROVE  RowInv'
<1>1. UNCHANGED <<saved, facilities, members, lastId, exports>>
  BY DEF LaunchStep, LaunchNext, LaunchDevice, LaunchFacility, StopFacility, DeleteInstance
<1>2. DOMAIN jobs' = Threads
  BY DEF LaunchStep, LaunchNext, LaunchDevice, LaunchFacility, StopFacility, DeleteInstance,
         Serve, RowInv, RowsHaveColumns
<1>3. \A v \in Threads : jobs'[v] = jobs[v] \/ jobs'[v].do \in {"idle", "launch"}
  BY DEF LaunchStep, LaunchNext, LaunchDevice, LaunchFacility, StopFacility, DeleteInstance,
         Serve, Idle, RowInv, RowsHaveColumns
<1> QED
  BY <1>1, <1>2, <1>3, UntouchedRowsAreKept

LEMMA InitRows == StoreInit => RowInv
<1> SUFFICES ASSUME StoreInit PROVE RowInv
  OBVIOUS
<1>1. DOMAIN <<>> = {}
  OBVIOUS
<1>2. \A e \in exports : Len(e) \in Nat
  BY StoreAssumption DEF StoreInit
<1> QED
  BY <1>1, <1>2 DEF StoreInit, RowInv, IdsAreGiven, RowsHaveColumns, JobIsItsUsers, Idle,
                    MembersStayWithTheirUser

LEMMA NextKeepsRows == RowInv /\ [StoreNext]_storeVars => RowInv'
<1> SUFFICES ASSUME RowInv, [StoreNext]_storeVars PROVE RowInv'
  OBVIOUS
<1>1. ASSUME NEW t \in Threads, NEW u \in Users, StoreRequest(t, u)
      PROVE  RowInv'
  <2>1. CASE LibraryEdit(t, u)
    BY <2>1, SaveDeviceKeepsRows, EditDeviceKeepsRows, DeleteDeviceKeepsRows
       DEF LibraryEdit, OwnSaved
  <2>2. CASE CreateFacility(t, u)
    BY <2>2, CreateFacilityKeepsRows
  <2>3. CASE AddMember(t, u)
    BY <2>3, AddMemberKeepsRows
  <2>4. CASE UpdateMember(t, u) \/ DeleteMember(t, u)
    BY <2>4, UpdateMemberKeepsRows, DeleteMemberKeepsRows
  <2>5. CASE DeleteFacility(t, u)
    BY <2>5, DeleteFacilityKeepsRows
  <2>6. CASE ExportFacility(t, u) \/ ImportFacility(t, u)
    BY <2>6, ExportFacilityKeepsRows, ImportFacilityKeepsRows
  <2>7. CASE LaunchDevice(t, u) \/ LaunchFacility(t, u)
             \/ StopFacility(t, u) \/ DeleteInstance(t, u)
    BY <2>7, LaunchKeepsRows DEF LaunchStep
  <2> QED
    BY <1>1, <2>1, <2>2, <2>3, <2>4, <2>5, <2>6, <2>7 DEF StoreRequest
<1>2. ASSUME NEW t \in Threads, StoreWork(t)
      PROVE  RowInv'
  BY <1>2, InsertMemberKeepsRows, DeleteFacilityRowKeepsRows, FillFacilityKeepsRows,
     LaunchKeepsRows DEF StoreWork, LaunchStep
<1>3. CASE TypesChange
  BY <1>3, UntouchedRowsAreKept DEF TypesChange, RowInv, RowsHaveColumns
<1>4. CASE UNCHANGED storeVars
  BY <1>4, UntouchedRowsAreKept DEF storeVars, RowInv, RowsHaveColumns
<1> QED
  BY <1>1, <1>2, <1>3, <1>4 DEF StoreNext

\* However the steps of requests interleave, a member has a facility, and its
\* saved device is the facility's user's (web/app.py, the foreign keys and
\* the owner tests of the facility handlers).
THEOREM MembersAreTheirUsers == StoreSpec => []MembersStayWithTheirUser
<1>1. RowInv => MembersStayWithTheirUser
  BY DEF RowInv
<1> QED
  BY <1>1, InitRows, NextKeepsRows, PTL DEF StoreSpec

-----------------------------------------------------------------------------
\* Tags.

\* A launch's facility is there, unless a deletion crossed it; a deletion
\* that no launch crossed has left nothing tagged and no launch to tag more.
LaunchesAndDeletions ==
    /\ \A t \in Threads : jobs[t].do = "launch" =>
          jobs[t].facility \in DOMAIN facilities \cup crossed \cup {None}
    /\ \A t \in Threads :
          jobs[t].do = "delete" /\ jobs[t].facility \notin crossed \cup {None} =>
             Tagged(jobs[t].facility) = {} /\ ~ LaunchUnderWay(jobs[t].facility)

TagInv ==
    /\ DOMAIN jobs = Threads
    /\ LaunchesAndDeletions
    /\ TaggedHaveTheirFacility

\* Steps that start or end no launch and no deletion, keep the facilities and
\* create no instance.
LEMMA OtherStepsKeepTags ==
    ASSUME TagInv, DOMAIN facilities \subseteq DOMAIN facilities',
           instances' \subseteq instances, crossed' = crossed,
           DOMAIN jobs' = Threads,
           \A t \in Threads :
              jobs'[t] = jobs[t] \/ jobs'[t].do \in {"idle", "add", "fill"}
    PROVE  TagInv'
<1>1. \A f : LaunchUnderWay(f)' => LaunchUnderWay(f)
  BY DEF LaunchUnderWay
<1>2. \A f : Tagged(f)' \subseteq Tagged(f)
  BY DEF Tagged
<1>3. LaunchesAndDeletions'
  BY <1>1, <1>2 DEF TagInv, LaunchesAndDeletions
<1> QED
  BY <1>3 DEF TagInv, TaggedHaveTheirFacility

LEMMA StoreStepKeepsTags ==
    ASSUME TagInv, NEW t \in Threads,
           \/ InsertMember(t) \/ FillFacility(t)
           \/ \E u \in Users :
                 \/ LibraryEdit(t, u) \/ CreateFacility(t, u) \/ AddMember(t, u)
                 \/ UpdateMember(t, u) \/ DeleteMember(t, u)
                 \/ ExportFacility(t, u) \/ ImportFacility(t, u)
                 \/ StopFacility(t, u) \/ DeleteInstance(t, u)
    PROVE  TagInv'
<1>1. /\ DOMAIN facilities \subseteq DOMAIN facilities' /\ crossed' = crossed
      /\ instances' \subseteq instances
  BY DEF InsertMember, FillFacility, LibraryEdit, SaveDevice, EditDevice, DeleteDevice,
         CreateFacility, AddMember, UpdateMember, DeleteMember, ExportFacility,
         ImportFacility, StopFacility, DeleteInstance, With, Stopped
<1>2. \/ jobs' = jobs
      \/ \E job : Serve(t, job) /\ job.do \in {"idle", "add", "fill"}
  <2>1. ASSUME InsertMember(t) \/ FillFacility(t)
        PROVE  Serve(t, Idle) /\ Idle.do = "idle"
    <3>1. Serve(t, Idle)
      BY <2>1, Zenon DEF InsertMember, FillFacility
    <3> QED
      BY <3>1 DEF Idle
  <2>2. ASSUME NEW u \in Users, AddMember(t, u)
        PROVE  \E job : Serve(t, job) /\ job.do = "add"
    <3>1. \E f, s, o, c : Serve(t, [do |-> "add", user |-> u, facility |-> f, saved |-> s,
                                   override |-> o, config |-> c])
      BY <2>2 DEF AddMember
    <3> QED
      BY <3>1
  <2>3. ASSUME NEW u \in Users, ImportFacility(t, u)
        PROVE  \E job : Serve(t, job) /\ job.do = "fill"
    <3>1. \E f, e : Serve(t, [do |-> "fill", user |-> u, facility |-> f, entries |-> e])
      BY <2>3 DEF ImportFacility
    <3> QED
      BY <3>1
  <2>4. ASSUME NEW u \in Users,
               \/ LibraryEdit(t, u) \/ CreateFacility(t, u)
               \/ UpdateMember(t, u) \/ DeleteMember(t, u) \/ ExportFacility(t, u)
               \/ StopFacility(t, u) \/ DeleteInstance(t, u)
        PROVE  jobs' = jobs
    BY <2>4 DEF LibraryEdit, SaveDevice, EditDevice, DeleteDevice, CreateFacility,
                UpdateMember, DeleteMember, ExportFacility, StopFacility, DeleteInstance
  <2> QED
    BY <2>1, <2>2, <2>3, <2>4
<1>3. /\ DOMAIN jobs' = Threads
      /\ \A v \in Threads :
            jobs'[v] = jobs[v] \/ jobs'[v].do \in {"idle", "add", "fill"}
  BY <1>2 DEF Serve, TagInv
<1> QED
  BY <1>1, <1>3, OtherStepsKeepTags

LEMMA DeleteFacilityKeepsTags ==
    ASSUME TagInv, NEW t \in Threads, NEW u \in Users, DeleteFacility(t, u)
    PROVE  TagInv'
<1>1. PICK f \in OwnFacilities(u) :
        /\ instances' = Stopped(f)
        /\ Serve(t, [do |-> "delete", user |-> u, facility |-> f])
        /\ crossed' = IF LaunchUnderWay(f) THEN crossed \cup {f} ELSE crossed
  BY DEF DeleteFacility
<1>2. /\ facilities' = facilities
      /\ DOMAIN jobs' = Threads
      /\ jobs'[t] = [do |-> "delete", user |-> u, facility |-> f]
      /\ \A v \in Threads \ {t} : jobs'[v] = jobs[v]
  BY <1>1 DEF DeleteFacility, Serve, TagInv
<1>3. /\ \A g : LaunchUnderWay(g)' => LaunchUnderWay(g)
      /\ \A g : Tagged(g)' \subseteq Tagged(g)
      /\ Tagged(f)' = {}
  BY <1>1, <1>2 DEF LaunchUnderWay, Tagged, Stopped
<1>4. LaunchesAndDeletions'
  BY <1>1, <1>2, <1>3 DEF TagInv, LaunchesAndDeletions
<1> QED
  BY <1>1, <1>2, <1>4 DEF TagInv, TaggedHaveTheirFacility, Stopped

LEMMA DeleteFacilityRowKeepsTags ==
    ASSUME TagInv, NEW t \in Threads, DeleteFacilityRow(t)
    PROVE  TagInv'
<1> DEFINE f == jobs[t].facility
<1>1. /\ DOMAIN facilities' = DOMAIN facilities \ {f}
      /\ UNCHANGED <<instances, crossed>>
      /\ DOMAIN jobs' = Threads
      /\ jobs'[t] = Idle /\ jobs[t].do = "delete"
      /\ \A v \in Threads \ {t} : jobs'[v] = jobs[v]
  BY DEF DeleteFacilityRow, Without, Serve, TagInv
<1>2. f \in crossed \cup {None} \/ (Tagged(f) = {} /\ ~ LaunchUnderWay(f))
  BY <1>1 DEF TagInv, LaunchesAndDeletions
<1>3. \A g : (LaunchUnderWay(g)' => LaunchUnderWay(g)) /\ Tagged(g)' = Tagged(g)
  BY <1>1 DEF LaunchUnderWay, Tagged, Idle
<1>4. LaunchesAndDeletions'
  BY <1>1, <1>2, <1>3 DEF TagInv, LaunchesAndDeletions, LaunchUnderWay, Idle
<1>5. TaggedHaveTheirFacility'
  BY <1>1, <1>2 DEF TagInv, TaggedHaveTheirFacility, Tagged
<1> QED
  BY <1>1, <1>4, <1>5 DEF TagInv

LEMMA LaunchStartsKeepTags ==
    ASSUME TagInv, NEW t \in Threads, NEW u \in Users,
           LaunchDevice(t, u) \/ LaunchFacility(t, u)
    PROVE  TagInv'
<1>1. /\ UNCHANGED <<facilities, instances>>
      /\ DOMAIN jobs' = Threads
      /\ jobs'[t].do = "launch"
      /\ \A v \in Threads \ {t} : jobs'[v] = jobs[v]
      /\ crossed \subseteq crossed'
      /\ jobs'[t].facility \in DOMAIN facilities \cup {None}
      /\ \A v \in Threads :
            jobs[v].do = "delete" /\ jobs[v].facility = jobs'[t].facility =>
               jobs[v].facility \in crossed' \cup {None}
  BY DEF LaunchDevice, LaunchFacility, Serve, TagInv, OwnFacilities
<1>2. LaunchesAndDeletions'
  BY <1>1 DEF TagInv, LaunchesAndDeletions, LaunchUnderWay, Tagged
<1> QED
  BY <1>1, <1>2 DEF TagInv, TaggedHaveTheirFacility

LEMMA LaunchNextKeepsTags ==
    ASSUME TagInv, NEW t \in Threads, LaunchNext(t)
    PROVE  TagInv'
<1> DEFINE f == jobs[t].facility
<1>1. /\ UNCHANGED <<facilities, crossed>>
      /\ DOMAIN jobs' = Threads
      /\ jobs[t].do = "launch"
      /\ jobs'[t].do \in {"idle", "launch"}
      /\ jobs'[t].do = "launch" => jobs'[t].facility = f
      /\ \A v \in Threads \ {t} : jobs'[v] = jobs[v]
      /\ \A i \in instances' \ instances : i.facility = f
  BY DEF LaunchNext, Serve, Idle, TagInv
<1>2. f \in DOMAIN facilities \cup crossed \cup {None} /\ LaunchUnderWay(f)
  BY <1>1 DEF TagInv, LaunchesAndDeletions, LaunchUnderWay
<1>3. /\ \A g : LaunchUnderWay(g)' => LaunchUnderWay(g)
      /\ \A g : g # f => Tagged(g)' \subseteq Tagged(g)
  BY <1>1 DEF LaunchUnderWay, Tagged
<1>4. LaunchesAndDeletions'
  BY <1>1, <1>2, <1>3 DEF TagInv, LaunchesAndDeletions
<1> QED
  BY <1>1, <1>2, <1>4 DEF TagInv, TaggedHaveTheirFacility

LEMMA InitTags == StoreInit => TagInv
BY DEF StoreInit, TagInv, LaunchesAndDeletions, TaggedHaveTheirFacility, Idle

LEMMA NextKeepsTags == TagInv /\ [StoreNext]_storeVars => TagInv'
<1> SUFFICES ASSUME TagInv, [StoreNext]_storeVars PROVE TagInv'
  OBVIOUS
<1>1. ASSUME NEW t \in Threads, NEW u \in Users, StoreRequest(t, u)
      PROVE  TagInv'
  BY <1>1, StoreStepKeepsTags, DeleteFacilityKeepsTags, LaunchStartsKeepTags
     DEF StoreRequest
<1>2. ASSUME NEW t \in Threads, StoreWork(t)
      PROVE  TagInv'
  BY <1>2, StoreStepKeepsTags, DeleteFacilityRowKeepsTags, LaunchNextKeepsTags
     DEF StoreWork
<1>3. CASE TypesChange
  BY <1>3, OtherStepsKeepTags DEF TypesChange, TagInv
<1>4. CASE UNCHANGED storeVars
  BY <1>4, OtherStepsKeepTags DEF storeVars, TagInv
<1> QED
  BY <1>1, <1>2, <1>3, <1>4 DEF StoreNext

\* README, Facilities: an instance that carries a facility's tag has its
\* facility, unless a deletion of it and a launch of it overlapped (web/app.py,
\* api_facility_delete and api_facility_launch).
THEOREM TagsAreOfFacilities == StoreSpec => []TaggedHaveTheirFacility
<1>1. TagInv => TaggedHaveTheirFacility
  BY DEF TagInv
<1> QED
  BY <1>1, InitTags, NextKeepsTags, PTL DEF StoreSpec

-----------------------------------------------------------------------------
\* Rows of other users.

OwnMembers(v) == {m \in DOMAIN members : members[m].facility \in OwnFacilities(v)}

\* What has to be shown of a step, row by row.
Undisturbed(v) ==
    /\ OwnSaved(v)' = OwnSaved(v)
    /\ \A s \in OwnSaved(v) : saved'[s] = saved[s]
    /\ OwnFacilities(v)' = OwnFacilities(v)
    /\ OwnMembers(v)' = OwnMembers(v)
    /\ \A m \in OwnMembers(v) : members'[m] = members[m]

LEMMA UndisturbedRows ==
    ASSUME NEW v, Undisturbed(v)
    PROVE  Rows(v)' = Rows(v)
<1>1. UNION {MembersOf(f) : f \in OwnFacilities(v)} = OwnMembers(v)
  BY DEF OwnMembers, MembersOf
<1>2. (UNION {MembersOf(f) : f \in OwnFacilities(v)})' = OwnMembers(v)'
  BY DEF OwnMembers, MembersOf
<1>3. [s \in OwnSaved(v) |-> saved[s]]' = [s \in OwnSaved(v) |-> saved[s]]
  BY DEF Undisturbed
<1>4. [m \in OwnMembers(v) |-> members[m]]' = [m \in OwnMembers(v) |-> members[m]]
  BY DEF Undisturbed
<1>5. OwnFacilities(v)' = OwnFacilities(v)
  BY DEF Undisturbed
<1> QED
  BY <1>1, <1>2, <1>3, <1>4, <1>5 DEF Rows

LEMMA UnchangedRowsAreUndisturbed ==
    ASSUME UNCHANGED <<saved, facilities, members>>
    PROVE  \A v : Undisturbed(v)
BY DEF Undisturbed, OwnSaved, OwnFacilities, OwnMembers

LEMMA LibraryDisturbsNoOther ==
    ASSUME RowInv, NEW t \in Threads, NEW u \in Users, NEW v \in Users \ {u},
           LibraryEdit(t, u)
    PROVE  Undisturbed(v)
<1>1. CASE \E config \in Configs : SaveDevice(t, u, config)
  BY <1>1 DEF SaveDevice, With, RowInv, IdsAreGiven, Undisturbed, OwnSaved, OwnFacilities,
              OwnMembers
<1>2. CASE \E s \in OwnSaved(u), config \in Configs : EditDevice(t, u, s, config)
  <2>1. PICK s \in OwnSaved(u) : /\ DOMAIN saved' = DOMAIN saved
                                 /\ \A r \in DOMAIN saved : r # s => saved'[r] = saved[r]
                                 /\ saved'[s].user = saved[s].user
                                 /\ UNCHANGED <<facilities, members>>
    BY <1>2 DEF EditDevice, SnapshotsAfterEdit, OwnSaved, RowInv, RowsHaveColumns
  <2> QED
    BY <2>1 DEF Undisturbed, OwnSaved, OwnFacilities, OwnMembers
<1>3. CASE \E s \in OwnSaved(u) : DeleteDevice(t, u, s)
  <2>1. PICK s \in OwnSaved(u) : DeleteDevice(t, u, s)
    BY <1>3
  <2>2. /\ DOMAIN saved' = DOMAIN saved \ {s} /\ facilities' = facilities
        /\ \A r \in DOMAIN saved' : saved'[r] = saved[r]
        /\ DOMAIN members' = DOMAIN members
        /\ \A m \in DOMAIN members :
              /\ members'[m].facility = members[m].facility
              /\ members[m].saved # s => members'[m] = members[m]
    BY <2>1 DEF DeleteDevice, Without, RowInv, RowsHaveColumns
  \* A member of v's has no device of u's.
  <2>3. s \in Nat /\ s # None
    BY StoreAssumption DEF OwnSaved, RowInv, IdsAreGiven
  <2>4. \A m \in OwnMembers(v) : members[m].saved # s
    BY <2>3 DEF OwnMembers, OwnFacilities, OwnSaved, RowInv, MembersStayWithTheirUser
  <2> QED
    BY <2>2, <2>4 DEF Undisturbed, OwnSaved, OwnFacilities, OwnMembers
<1> QED
  BY <1>1, <1>2, <1>3 DEF LibraryEdit

LEMMA FacilityEditsDisturbNoOther ==
    ASSUME RowInv, NEW t \in Threads, NEW u \in Users, NEW v \in Users \ {u},
           \/ CreateFacility(t, u) \/ ImportFacility(t, u)
           \/ UpdateMember(t, u) \/ DeleteMember(t, u)
    PROVE  Undisturbed(v)
<1>1. CASE CreateFacility(t, u) \/ ImportFacility(t, u)
  <2> DEFINE id == lastId.facility + 1
  <2>1. /\ id \notin DOMAIN facilities /\ DOMAIN facilities' = DOMAIN facilities \cup {id}
        /\ facilities'[id] = u
        /\ \A f \in DOMAIN facilities : facilities'[f] = facilities[f]
        /\ UNCHANGED <<saved, members>>
    BY <1>1 DEF CreateFacility, ImportFacility, With, RowInv, IdsAreGiven
  <2> QED
    BY <2>1 DEF Undisturbed, OwnSaved, OwnFacilities, OwnMembers
<1>2. CASE UpdateMember(t, u)
  <2>1. PICK k \in DOMAIN members :
          /\ members[k].facility \in OwnFacilities(u)
          /\ DOMAIN members' = DOMAIN members
          /\ \A m \in DOMAIN members : members'[m].facility = members[m].facility
          /\ \A m \in DOMAIN members : m # k => members'[m] = members[m]
          /\ UNCHANGED <<saved, facilities>>
    BY <1>2 DEF UpdateMember, Addressed, MembersOf, RowInv, RowsHaveColumns
  <2> QED
    BY <2>1 DEF Undisturbed, OwnSaved, OwnFacilities, OwnMembers
<1>3. CASE DeleteMember(t, u)
  <2>1. PICK k \in DOMAIN members :
          /\ members[k].facility \in OwnFacilities(u)
          /\ DOMAIN members' = DOMAIN members \ {k}
          /\ \A m \in DOMAIN members' : members'[m] = members[m]
          /\ UNCHANGED <<saved, facilities>>
    BY <1>3 DEF DeleteMember, Without, Addressed, MembersOf
  <2> QED
    BY <2>1 DEF Undisturbed, OwnSaved, OwnFacilities, OwnMembers
<1> QED
  BY <1>1, <1>2, <1>3

LEMMA InsertMemberDisturbsNoOther ==
    ASSUME RowInv, NEW t \in Threads, NEW v \in Users \ {jobs[t].user}, InsertMember(t)
    PROVE  Undisturbed(v)
<1> DEFINE j == jobs[t]
           id == lastId.member + 1
<1>1. UNCHANGED <<saved, facilities>>
  BY DEF InsertMember
<1>2. CASE UNCHANGED members
  BY <1>1, <1>2, UnchangedRowsAreUndisturbed
<1>3. CASE /\ j.facility \in DOMAIN facilities
           /\ members' = With(members, id,
                 [facility |-> j.facility, saved |-> j.saved,
                  override |-> j.override, config |-> j.config])
  <2>1. /\ id \notin DOMAIN members /\ DOMAIN members' = DOMAIN members \cup {id}
        /\ members'[id].facility = j.facility
        /\ \A m \in DOMAIN members : members'[m] = members[m]
    BY <1>3 DEF With, RowInv, IdsAreGiven
  <2>2. facilities[j.facility] = j.user
    BY <1>3 DEF InsertMember, RowInv, JobIsItsUsers
  <2> QED
    BY <1>1, <2>1, <2>2 DEF Undisturbed, OwnSaved, OwnFacilities, OwnMembers
<1> QED
  BY <1>2, <1>3 DEF InsertMember

\* The members that go with a facility are of its user's facility.
LEMMA DeleteFacilityRowDisturbsNoOther ==
    ASSUME RowInv, NEW t \in Threads, NEW v \in Users \ {jobs[t].user},
           DeleteFacilityRow(t)
    PROVE  Undisturbed(v)
<1> DEFINE f == jobs[t].facility
<1>1. /\ DOMAIN facilities' = DOMAIN facilities \ {f}
      /\ \A g \in DOMAIN facilities' : facilities'[g] = facilities[g]
      /\ DOMAIN members' = DOMAIN members \ MembersOf(f)
      /\ \A m \in DOMAIN members' : members'[m] = members[m]
      /\ UNCHANGED saved
  BY DEF DeleteFacilityRow, Without
<1>2. f \in DOMAIN facilities => facilities[f] = jobs[t].user
  BY DEF DeleteFacilityRow, RowInv, JobIsItsUsers
<1>3. f \notin OwnFacilities(v)
  BY <1>2 DEF OwnFacilities
<1> QED
  BY <1>1, <1>3 DEF Undisturbed, OwnSaved, OwnFacilities, OwnMembers, MembersOf

LEMMA FillFacilityDisturbsNoOther ==
    ASSUME RowInv, NEW t \in Threads, NEW v \in Users \ {jobs[t].user}, FillFacility(t)
    PROVE  Undisturbed(v)
<1>1. facilities' = facilities
  BY DEF FillFacility
<1>2. /\ DOMAIN saved \subseteq DOMAIN saved' /\ DOMAIN members \subseteq DOMAIN members'
      /\ \A s \in DOMAIN saved : saved'[s] = saved[s]
      /\ \A s \in DOMAIN saved' \ DOMAIN saved : saved'[s].user = jobs[t].user
      /\ \A m \in DOMAIN members : members'[m] = members[m]
      /\ \A m \in DOMAIN members' \ DOMAIN members :
            /\ members'[m].facility = jobs[t].facility
            /\ jobs[t].facility \in DOMAIN facilities
  <2>1. PICK n \in Nat :
          /\ n > 0 => jobs[t].facility \in DOMAIN facilities
          /\ DOMAIN saved' = DOMAIN saved \cup lastId.saved + 1 .. lastId.saved + n
          /\ \A s \in DOMAIN saved : saved'[s] = saved[s]
          /\ \A s \in DOMAIN saved' \ DOMAIN saved : saved'[s].user = jobs[t].user
          /\ DOMAIN members' = DOMAIN members \cup lastId.member + 1 .. lastId.member + n
          /\ \A m \in DOMAIN members : members'[m] = members[m]
          /\ \A m \in DOMAIN members' \ DOMAIN members :
                members'[m].facility = jobs[t].facility
    BY FillAddsRows
  <2>2. lastId.member \in Nat
    BY DEF RowInv, IdsAreGiven
  <2> QED
    BY <2>1, <2>2
<1>3. jobs[t].facility \in DOMAIN facilities => facilities[jobs[t].facility] = jobs[t].user
  BY DEF FillFacility, RowInv, JobIsItsUsers
<1>4. OwnSaved(v)' = OwnSaved(v)
  BY <1>2 DEF OwnSaved
<1>5. OwnMembers(v)' = OwnMembers(v)
  BY <1>1, <1>2, <1>3 DEF OwnMembers, OwnFacilities
<1> QED
  BY <1>1, <1>2, <1>4, <1>5 DEF Undisturbed, OwnSaved, OwnMembers, OwnFacilities

LEMMA RequestDisturbsNoOther ==
    ASSUME RowInv, NEW t \in Threads, NEW u \in Users, StoreRequest(t, u),
           NEW v \in Users \ {u}
    PROVE  Undisturbed(v)
<1>1. CASE LibraryEdit(t, u)
  BY <1>1, LibraryDisturbsNoOther
<1>2. CASE \/ CreateFacility(t, u) \/ ImportFacility(t, u)
           \/ UpdateMember(t, u) \/ DeleteMember(t, u)
  BY <1>2, FacilityEditsDisturbNoOther
<1>3. CASE \/ AddMember(t, u) \/ DeleteFacility(t, u) \/ ExportFacility(t, u)
           \/ LaunchDevice(t, u) \/ LaunchFacility(t, u)
           \/ StopFacility(t, u) \/ DeleteInstance(t, u)
  BY <1>3, UnchangedRowsAreUndisturbed
     DEF AddMember, DeleteFacility, ExportFacility, LaunchDevice, LaunchFacility,
         StopFacility, DeleteInstance
<1> QED
  BY <1>1, <1>2, <1>3 DEF StoreRequest

LEMMA WorkDisturbsNoOther ==
    ASSUME RowInv, NEW t \in Threads, StoreWork(t), NEW v \in Users \ {jobs[t].user}
    PROVE  Undisturbed(v)
<1>1. CASE LaunchNext(t)
  BY <1>1, UnchangedRowsAreUndisturbed DEF LaunchNext
<1> QED
  BY <1>1, InsertMemberDisturbsNoOther, DeleteFacilityRowDisturbsNoOther,
     FillFacilityDisturbsNoOther DEF StoreWork

LEMMA NextKeepsToItsUser ==
    ASSUME RowInv
    PROVE  [\A t \in Threads, u \in Users :
               \/ StoreRequest(t, u)
               \/ jobs[t] # Idle /\ jobs[t].user = u /\ StoreWork(t)
               => \A v \in Users \ {u} : Rows(v)' = Rows(v)]_storeVars
BY RequestDisturbsNoOther, WorkDisturbsNoOther, UndisturbedRows

\* README: "Each user sees and manages only their own saved library"; no
\* request of a user, through whatever cascade, reaches a row of another
\* (web/app.py, the handlers of saved devices and facilities).
THEOREM RequestsKeepToTheirUser == StoreSpec => OnlyOwnRowsChange
BY NextKeepsToItsUser, InitRows, NextKeepsRows, PTL DEF StoreSpec, OnlyOwnRowsChange

-----------------------------------------------------------------------------
\* Facilities in the order of their members' ids.

LEMMA MembersAreIds ==
    ASSUME IdsAreGiven
    PROVE  \A f : AreIds(MembersOf(f))
BY DEF IdsAreGiven, AreIds, MembersOf

LEMMA InOrderFacts ==
    ASSUME NEW f, AreIds(MembersOf(f))
    PROVE  /\ Cardinality(MembersOf(f)) \in Nat
           /\ DOMAIN InOrder(f) = 1 .. Cardinality(MembersOf(f))
           /\ \A i \in 1 .. Cardinality(MembersOf(f)) :
                 /\ InOrder(f)[i] \in MembersOf(f)
                 /\ Cardinality(UpTo(MembersOf(f), InOrder(f)[i])) = i
<1> DEFINE S == MembersOf(f)
<1>1. Cardinality(S) \in Nat
  BY IdsAreFinite
<1>2. \A i \in 1 .. Cardinality(S) : \E m \in S : Cardinality(UpTo(S, m)) = i
  BY NthIsThere
<1>3. InOrder(f) = [i \in 1 .. Cardinality(S) |->
                      CHOOSE m \in S : Cardinality(UpTo(S, m)) = i]
  BY DEF InOrder, UpTo
<1> HIDE DEF S
<1>4. ASSUME NEW i \in 1 .. Cardinality(S)
      PROVE  InOrder(f)[i] \in S /\ Cardinality(UpTo(S, InOrder(f)[i])) = i
  BY <1>2, <1>3
<1>5. DOMAIN InOrder(f) = 1 .. Cardinality(S)
  BY <1>3
<1> QED
  BY <1>1, <1>4, <1>5 DEF S

\* A facility's plan depends on its members' snapshots and overrides alone.
PlanEntry(f, i) ==
    Effective([config |-> members[InOrder(f)[i]].config,
               override |-> members[InOrder(f)[i]].override])

LEMMA PlanForm ==
    ASSUME NEW f, AreIds(MembersOf(f))
    PROVE  Plan(f) = [i \in 1 .. Cardinality(MembersOf(f)) |-> PlanEntry(f, i)]
<1>1. DOMAIN InOrder(f) = 1 .. Cardinality(MembersOf(f))
  BY InOrderFacts
<1> QED
  BY <1>1 DEF Plan, PlanOf, Exported, PlanEntry

LEMMA PlanStays ==
    ASSUME NEW f, AreIds(MembersOf(f)), MembersOf(f)' = MembersOf(f),
           \A m \in MembersOf(f) : /\ members'[m].config = members[m].config
                                   /\ members'[m].override = members[m].override
    PROVE  Plan(f)' = Plan(f)
<1>1. InOrder(f)' = InOrder(f)
  BY DEF InOrder
<1>2. \A i \in DOMAIN InOrder(f) : InOrder(f)[i] \in MembersOf(f)
  BY InOrderFacts
<1>3. Exported(f)' = Exported(f)
  BY <1>1, <1>2 DEF Exported
<1> QED
  BY <1>3 DEF Plan, PlanOf

LEMMA EditKeepsPlans ==
    ASSUME RowInv, NEW t \in Threads, NEW u \in Users, LibraryEdit(t, u), NEW f
    PROVE  Plan(f)' = Plan(f)
<1>1. AreIds(MembersOf(f))
  BY MembersAreIds DEF RowInv
<1>2. /\ DOMAIN members' = DOMAIN members
      /\ \A m \in DOMAIN members :
            /\ members'[m].facility = members[m].facility
            /\ members'[m].config = members[m].config
            /\ members'[m].override = members[m].override
  BY DEF LibraryEdit, SaveDevice, EditDevice, SnapshotsAfterEdit, DeleteDevice,
         RowInv, RowsHaveColumns
<1>3. MembersOf(f)' = MembersOf(f)
  BY <1>2 DEF MembersOf
<1>4. MembersOf(f) \subseteq DOMAIN members
  BY DEF MembersOf
<1> QED
  BY <1>1, <1>2, <1>3, <1>4, PlanStays

LEMMA NextKeepsPlans ==
    ASSUME RowInv
    PROVE  [\A t \in Threads, u \in Users :
               LibraryEdit(t, u) =>
                  \A f \in DOMAIN facilities : Plan(f)' = Plan(f)]_storeVars
BY EditKeepsPlans

\* README: "Facility membership is snapshotted by value when a saved config is
\* added"; no edit of the library, nor a deletion from it, changes what a
\* facility launches (web/app.py, persist_saved_device and
\* api_saved_devices_delete).
THEOREM PlansOutliveTheLibrary == StoreSpec => LibraryEditsKeepPlans
BY NextKeepsPlans, InitRows, NextKeepsRows, PTL DEF StoreSpec, LibraryEditsKeepPlans

-----------------------------------------------------------------------------
\* Types of the tables, the exported files and the requests.

TablesAreFunctions ==
    /\ saved = [s \in DOMAIN saved |-> saved[s]]
    /\ members = [m \in DOMAIN members |-> members[m]]

StoreInv == StoreTypeOK /\ TablesAreFunctions

Launchable == [member : Nat \cup {None}, target : Targets]
Instances == [facility : Nat \cup {None}, member : Nat \cup {None}, target : Targets]

LEMMA JobForms ==
    /\ Idle \in Jobs /\ Idle.do = "idle"
    /\ \A j \in Jobs :
          /\ j.do = "add" => /\ j.user \in Users /\ j.facility \in Nat /\ j.saved \in Nat
                             /\ j.override \in Overrides /\ j.config \in Configs
          /\ j.do = "fill" => /\ j.user \in Users /\ j.facility \in Nat
                              /\ j.entries \in Seq(Entry)
          /\ j.do = "delete" => j.user \in Users /\ j.facility \in Nat
          /\ j.do = "launch" => /\ j.user \in Users /\ j.facility \in Nat \cup {None}
                                /\ j.planned \in Seq(Launchable)
                                /\ j.launched \in SUBSET Instances
BY DEF Jobs, Idle, Launchable, Instances

\* Requests that are begun.
LEMMA NewJobs ==
    ASSUME NEW u \in Users, NEW f \in Nat
    PROVE  /\ \A s \in Nat, o \in Overrides, c \in Configs :
                 [do |-> "add", user |-> u, facility |-> f, saved |-> s,
                  override |-> o, config |-> c] \in Jobs
           /\ \A e \in Seq(Entry) :
                 [do |-> "fill", user |-> u, facility |-> f, entries |-> e] \in Jobs
           /\ [do |-> "delete", user |-> u, facility |-> f] \in Jobs
BY DEF Jobs

LEMMA LaunchJobs ==
    ASSUME NEW u \in Users, NEW f \in Nat \cup {None}, NEW p \in Seq(Launchable),
           NEW l \in SUBSET Instances
    PROVE  [do |-> "launch", user |-> u, facility |-> f, planned |-> p,
            launched |-> l] \in Jobs
BY DEF Jobs, Launchable, Instances

LEMMA ServeKeepsJobs ==
    ASSUME jobs \in [Threads -> Jobs], NEW t \in Threads, NEW job \in Jobs, Serve(t, job)
    PROVE  jobs' \in [Threads -> Jobs]
BY DEF Serve

LEMMA ExportedAreEntries ==
    ASSUME StoreTypeOK, NEW f
    PROVE  Exported(f) \in Seq(Entry)
<1>1. AreIds(MembersOf(f))
  BY DEF StoreTypeOK, AreIds, MembersOf
<1> DEFINE n == Cardinality(MembersOf(f))
<1>2. n \in Nat /\ DOMAIN InOrder(f) = 1 .. n
  BY <1>1, InOrderFacts
<1>3. ASSUME NEW i \in 1 .. n
      PROVE  [config |-> members[InOrder(f)[i]].config,
              override |-> members[InOrder(f)[i]].override] \in Entry
  <2>1. InOrder(f)[i] \in DOMAIN members
    BY <1>1, InOrderFacts DEF MembersOf
  <2>2. /\ members[InOrder(f)[i]].config \in Configs
        /\ members[InOrder(f)[i]].override \in Overrides
    BY <2>1 DEF StoreTypeOK
  <2> QED
    BY <2>2 DEF Entry
<1> HIDE DEF n
<1> QED
  BY <1>2, <1>3 DEF Exported

LEMMA PlannedAreLaunchable ==
    ASSUME StoreTypeOK, NEW f
    PROVE  Planned(f) \in Seq(Launchable)
<1>1. AreIds(MembersOf(f))
  BY DEF StoreTypeOK, AreIds, MembersOf
<1> DEFINE n == Cardinality(MembersOf(f))
<1>2. n \in Nat /\ DOMAIN InOrder(f) = 1 .. n
  BY <1>1, InOrderFacts
<1>3. ASSUME NEW i \in 1 .. n
      PROVE  [member |-> InOrder(f)[i], target |-> Plan(f)[i].target] \in Launchable
  <2>1. InOrder(f)[i] \in DOMAIN members
    BY <1>1, InOrderFacts DEF MembersOf
  <2>2. /\ members[InOrder(f)[i]].config \in Configs
        /\ members[InOrder(f)[i]].override \in Overrides
        /\ InOrder(f)[i] \in Nat
    BY <2>1 DEF StoreTypeOK
  <2>3. Plan(f)[i] = PlanEntry(f, i)
    BY <1>1, PlanForm
  <2>4. PlanEntry(f, i).target \in Targets
    BY <2>2 DEF PlanEntry, Effective, Configs, Overrides
  <2> QED
    BY <2>2, <2>3, <2>4 DEF Launchable
<1> HIDE DEF n
<1> QED
  BY <1>2, <1>3 DEF Planned

\* The steps of the library and of members.
LEMMA LibraryKeepsTypes ==
    ASSUME StoreInv, NEW t \in Threads, NEW u \in Users, LibraryEdit(t, u)
    PROVE  StoreInv'
<1>1. ASSUME NEW config \in Configs, SaveDevice(t, u, config)
      PROVE  StoreInv'
  <2> DEFINE id == lastId.saved + 1
  <2>1. /\ id \in Nat
        /\ lastId' = [lastId EXCEPT !.saved = id]
        /\ saved' = [s \in DOMAIN saved \cup {id} |->
                        IF s = id THEN [user |-> u, config |-> config] ELSE saved[s]]
        /\ UNCHANGED <<facilities, members, exports, types, jobs>>
    BY <1>1 DEF SaveDevice, With, StoreInv, StoreTypeOK
  <2>2. /\ lastId' \in [saved : Nat, facility : Nat, member : Nat]
        /\ lastId'.saved = id /\ lastId'.facility = lastId.facility
        /\ lastId'.member = lastId.member
    BY <2>1 DEF StoreInv, StoreTypeOK
  <2>3. /\ DOMAIN saved' \subseteq 1 .. lastId'.saved
        /\ \A s \in DOMAIN saved' : saved'[s] \in [user : Users, config : Configs]
        /\ saved' = [s \in DOMAIN saved' |-> saved'[s]]
    BY <1>1, <2>1, <2>2 DEF StoreInv, StoreTypeOK
  <2> QED
    BY <2>1, <2>2, <2>3 DEF StoreInv, StoreTypeOK, TablesAreFunctions
<1>2. ASSUME NEW s \in OwnSaved(u), NEW config \in Configs, EditDevice(t, u, s, config)
      PROVE  StoreInv'
  <2>1. /\ saved' = [saved EXCEPT ![s].config = config] /\ s \in DOMAIN saved
        /\ UNCHANGED <<facilities, members, lastId, exports, types, jobs>>
    BY <1>2 DEF EditDevice, SnapshotsAfterEdit, OwnSaved
  <2>2. /\ DOMAIN saved' = DOMAIN saved
        /\ \A r \in DOMAIN saved : saved'[r] \in [user : Users, config : Configs]
        /\ saved' = [r \in DOMAIN saved' |-> saved'[r]]
    BY <2>1 DEF StoreInv, StoreTypeOK
  <2> QED
    BY <2>1, <2>2 DEF StoreInv, StoreTypeOK, TablesAreFunctions
<1>3. ASSUME NEW s \in OwnSaved(u), DeleteDevice(t, u, s)
      PROVE  StoreInv'
  <2>1. /\ saved' = [r \in DOMAIN saved \ {s} |-> saved[r]]
        /\ members' = [m \in DOMAIN members |->
                          IF members[m].saved = s THEN [members[m] EXCEPT !.saved = None]
                          ELSE members[m]]
        /\ UNCHANGED <<facilities, lastId, exports, types, jobs>>
    BY <1>3 DEF DeleteDevice, Without
  <2>2. /\ DOMAIN saved' \subseteq DOMAIN saved
        /\ \A r \in DOMAIN saved' : saved'[r] = saved[r]
        /\ saved' = [r \in DOMAIN saved' |-> saved'[r]]
        /\ DOMAIN members' = DOMAIN members
        /\ members' = [m \in DOMAIN members' |-> members'[m]]
    BY <2>1
  <2>3. ASSUME NEW m \in DOMAIN members'
        PROVE  members'[m] \in [facility : Nat, saved : Nat \cup {None},
                                override : Overrides, config : Configs]
    BY <2>1, <2>2 DEF StoreInv, StoreTypeOK
  <2> QED
    BY <2>1, <2>2, <2>3 DEF StoreInv, StoreTypeOK, TablesAreFunctions
<1> QED
  BY <1>1, <1>2, <1>3 DEF LibraryEdit

LEMMA MemberEditsKeepTypes ==
    ASSUME StoreInv, NEW t \in Threads, NEW u \in Users,
           UpdateMember(t, u) \/ DeleteMember(t, u)
    PROVE  StoreInv'
<1>1. CASE UpdateMember(t, u)
  <2>1. PICK m \in DOMAIN members, o \in Overrides :
          members' = [members EXCEPT ![m].override = o]
    BY <1>1 DEF UpdateMember, Addressed, MembersOf
  <2>2. /\ DOMAIN members' = DOMAIN members
        /\ members' = [k \in DOMAIN members' |-> members'[k]]
        /\ \A k \in DOMAIN members :
              members'[k] \in [facility : Nat, saved : Nat \cup {None},
                               override : Overrides, config : Configs]
    BY <2>1 DEF StoreInv, StoreTypeOK
  <2>3. UNCHANGED <<saved, facilities, lastId, exports, types, jobs>>
    BY <1>1 DEF UpdateMember
  <2> QED
    BY <2>2, <2>3 DEF StoreInv, StoreTypeOK, TablesAreFunctions
<1>2. CASE DeleteMember(t, u)
  <2>1. PICK m : members' = [k \in DOMAIN members \ {m} |-> members[k]]
    BY <1>2 DEF DeleteMember, Without
  <2>2. /\ DOMAIN members' \subseteq DOMAIN members
        /\ members' = [k \in DOMAIN members' |-> members'[k]]
        /\ \A k \in DOMAIN members' : members'[k] = members[k]
    BY <2>1
  <2> QED
    BY <1>2, <2>2 DEF DeleteMember, StoreInv, StoreTypeOK, TablesAreFunctions
<1> QED
  BY <1>1, <1>2

LEMMA NewFacilitiesKeepTypes ==
    ASSUME StoreInv, NEW t \in Threads, NEW u \in Users,
           CreateFacility(t, u) \/ ImportFacility(t, u)
    PROVE  StoreInv'
<1> DEFINE id == lastId.facility + 1
<1>1. /\ id \in Nat
      /\ facilities' = [f \in DOMAIN facilities \cup {id} |->
                          IF f = id THEN u ELSE facilities[f]]
      /\ lastId' = [lastId EXCEPT !.facility = id]
      /\ UNCHANGED <<saved, members, exports, types>>
  BY DEF CreateFacility, ImportFacility, With, StoreInv, StoreTypeOK
<1>2. /\ lastId' \in [saved : Nat, facility : Nat, member : Nat]
      /\ lastId'.facility = id /\ lastId'.saved = lastId.saved
      /\ lastId'.member = lastId.member
  BY <1>1 DEF StoreInv, StoreTypeOK
<1>3. /\ DOMAIN facilities' \subseteq 1 .. lastId'.facility
      /\ \A f \in DOMAIN facilities' : facilities'[f] \in Users
  BY <1>1, <1>2 DEF StoreInv, StoreTypeOK
<1>4. jobs' \in [Threads -> Jobs]
  <2>1. CASE CreateFacility(t, u)
    BY <2>1 DEF CreateFacility, StoreInv, StoreTypeOK
  <2>2. CASE ImportFacility(t, u)
    <3>1. PICK e \in exports :
            Serve(t, [do |-> "fill", user |-> u, facility |-> id, entries |-> e])
      BY <2>2 DEF ImportFacility
    <3>2. e \in Seq(Entry)
      BY DEF StoreInv, StoreTypeOK
    <3> QED
      BY <1>1, <3>1, <3>2, NewJobs, ServeKeepsJobs DEF StoreInv, StoreTypeOK
  <2> QED
    BY <2>1, <2>2
<1> QED
  BY <1>1, <1>2, <1>3, <1>4 DEF StoreInv, StoreTypeOK, TablesAreFunctions

LEMMA InsertMemberKeepsTypes ==
    ASSUME StoreInv, NEW t \in Threads, InsertMember(t)
    PROVE  StoreInv'
<1> DEFINE j == jobs[t]
           id == lastId.member + 1
           row == [facility |-> j.facility, saved |-> j.saved,
                   override |-> j.override, config |-> j.config]
<1>1. UNCHANGED <<saved, facilities, exports, types>>
  BY DEF InsertMember
<1>2. jobs' \in [Threads -> Jobs]
  BY JobForms, ServeKeepsJobs DEF InsertMember, StoreInv, StoreTypeOK
<1>3. row \in [facility : Nat, saved : Nat \cup {None},
               override : Overrides, config : Configs]
  BY JobForms DEF InsertMember, StoreInv, StoreTypeOK
<1> HIDE DEF row
<1>4. CASE UNCHANGED <<members, lastId>>
  BY <1>1, <1>2, <1>4 DEF StoreInv, StoreTypeOK, TablesAreFunctions
<1>5. CASE /\ members' = With(members, id, row)
           /\ lastId' = [lastId EXCEPT !.member = @ + 1]
  <2>1. /\ lastId' \in [saved : Nat, facility : Nat, member : Nat]
        /\ lastId'.member = id /\ lastId'.saved = lastId.saved
        /\ lastId'.facility = lastId.facility /\ id \in Nat
    BY <1>5 DEF StoreInv, StoreTypeOK
  <2>2. members' = [m \in DOMAIN members \cup {id} |-> IF m = id THEN row ELSE members[m]]
    BY <1>5 DEF With
  <2>3. /\ DOMAIN members' \subseteq 1 .. lastId'.member
        /\ members' = [m \in DOMAIN members' |-> members'[m]]
        /\ \A m \in DOMAIN members' :
              members'[m] \in [facility : Nat, saved : Nat \cup {None},
                               override : Overrides, config : Configs]
    BY <1>3, <2>1, <2>2 DEF StoreInv, StoreTypeOK
  <2> QED
    BY <1>1, <1>2, <2>1, <2>3 DEF StoreInv, StoreTypeOK, TablesAreFunctions
<1> QED
  BY <1>4, <1>5 DEF InsertMember, row

LEMMA DeleteFacilityRowKeepsTypes ==
    ASSUME StoreInv, NEW t \in Threads, DeleteFacilityRow(t)
    PROVE  StoreInv'
<1>1. /\ DOMAIN facilities' \subseteq DOMAIN facilities
      /\ \A f \in DOMAIN facilities' : facilities'[f] = facilities[f]
      /\ DOMAIN members' \subseteq DOMAIN members
      /\ members' = [m \in DOMAIN members' |-> members'[m]]
      /\ \A m \in DOMAIN members' : members'[m] = members[m]
      /\ UNCHANGED <<saved, lastId, exports, types>>
  BY DEF DeleteFacilityRow, Without
<1>2. jobs' \in [Threads -> Jobs]
  BY JobForms, ServeKeepsJobs DEF DeleteFacilityRow, StoreInv, StoreTypeOK
<1> QED
  BY <1>1, <1>2 DEF StoreInv, StoreTypeOK, TablesAreFunctions

\* What is filled in are the entries of a file, and only if all can be.
LEMMA KeptAreInsertable ==
    ASSUME NEW entries \in Seq(Entry)
    PROVE  /\ Kept(entries) \in Seq(Entry)
           /\ \A n \in 1 .. Len(Kept(entries)) :
                 Kept(entries)[n].config \in Configs /\ Kept(entries)[n].override \in Overrides
<1>1. Kept(entries) \in {entries, <<>>}
  BY DEF Kept
<1>2. CASE Kept(entries) = <<>>
  BY <1>2
<1>3. CASE Kept(entries) = entries /\ Kept(entries) # <<>>
  <2>1. \A n \in DOMAIN entries : Insertable(entries[n])
    BY <1>3 DEF Kept
  <2>2. \A n \in 1 .. Len(entries) : entries[n] \in Entry /\ Insertable(entries[n])
    BY <2>1
  <2>3. \A n \in 1 .. Len(entries) :
           entries[n].config \in Configs /\ entries[n].override \in Overrides
    BY <2>2 DEF Entry, Insertable
  <2> QED
    BY <1>3, <2>3
<1> QED
  BY <1>1, <1>2, <1>3

LEMMA FillFacilityKeepsTypes ==
    ASSUME StoreInv, NEW t \in Threads, FillFacility(t)
    PROVE  StoreInv'
<1> DEFINE j == jobs[t]
           kept == IF j.facility \in DOMAIN facilities THEN Kept(j.entries) ELSE <<>>
           n == Len(kept)
<1>1. j.user \in Users /\ j.facility \in Nat /\ j.entries \in Seq(Entry)
  BY JobForms DEF FillFacility, StoreInv, StoreTypeOK
<1>2. /\ n \in Nat
      /\ \A i \in 1 .. n : kept[i].config \in Configs /\ kept[i].override \in Overrides
  <2>1. CASE j.facility \in DOMAIN facilities
    BY <1>1, <2>1, KeptAreInsertable
  <2>2. CASE j.facility \notin DOMAIN facilities
    BY <2>2
  <2> QED
    BY <2>1, <2>2
<1>3. /\ saved' = [s \in DOMAIN saved \cup lastId.saved + 1 .. lastId.saved + n |->
                      IF s \in DOMAIN saved THEN saved[s]
                      ELSE [user |-> j.user, config |-> kept[s - lastId.saved].config]]
      /\ members' = [m \in DOMAIN members \cup lastId.member + 1 .. lastId.member + n |->
                        IF m \in DOMAIN members THEN members[m]
                        ELSE [facility |-> j.facility,
                              saved |-> lastId.saved + (m - lastId.member),
                              override |-> kept[m - lastId.member].override,
                              config |-> kept[m - lastId.member].config]]
      /\ lastId' = [saved |-> lastId.saved + n, facility |-> lastId.facility,
                    member |-> lastId.member + n]
      /\ UNCHANGED <<facilities, exports, types>>
  BY DEF FillFacility
<1>4. jobs' \in [Threads -> Jobs]
  BY JobForms, ServeKeepsJobs DEF FillFacility, StoreInv, StoreTypeOK
<1> HIDE DEF j, n, kept
<1>5. lastId \in [saved : Nat, facility : Nat, member : Nat]
  BY DEF StoreInv, StoreTypeOK
<1>6. /\ lastId' \in [saved : Nat, facility : Nat, member : Nat]
      /\ lastId'.saved = lastId.saved + n /\ lastId'.facility = lastId.facility
      /\ lastId'.member = lastId.member + n
  BY <1>2, <1>3, <1>5
<1>7. /\ DOMAIN saved' \subseteq 1 .. lastId'.saved
      /\ saved' = [s \in DOMAIN saved' |-> saved'[s]]
      /\ \A s \in DOMAIN saved' : saved'[s] \in [user : Users, config : Configs]
  <2>1. DOMAIN saved' = DOMAIN saved \cup lastId.saved + 1 .. lastId.saved + n
    BY <1>3
  <2>2. DOMAIN saved' \subseteq 1 .. lastId'.saved
    BY <1>2, <1>5, <1>6, <2>1 DEF StoreInv, StoreTypeOK
  <2>3. ASSUME NEW s \in DOMAIN saved', s \notin DOMAIN saved
        PROVE  saved'[s] \in [user : Users, config : Configs]
    <3>1. s - lastId.saved \in 1 .. n
      BY <1>2, <1>5, <2>1, <2>3
    <3>2. saved'[s] = [user |-> j.user, config |-> kept[s - lastId.saved].config]
      BY <1>3, <2>3
    <3> QED
      BY <1>1, <1>2, <3>1, <3>2
  <2>4. \A s \in DOMAIN saved : saved'[s] = saved[s]
    BY <1>3
  <2>5. saved' = [s \in DOMAIN saved' |-> saved'[s]]
    BY <1>3
  <2> QED
    BY <2>2, <2>3, <2>4, <2>5 DEF StoreInv, StoreTypeOK
<1>8. /\ DOMAIN members' \subseteq 1 .. lastId'.member
      /\ members' = [m \in DOMAIN members' |-> members'[m]]
      /\ \A m \in DOMAIN members' :
            members'[m] \in [facility : Nat, saved : Nat \cup {None},
                             override : Overrides, config : Configs]
  <2>1. DOMAIN members' = DOMAIN members \cup lastId.member + 1 .. lastId.member + n
    BY <1>3
  <2>2. DOMAIN members' \subseteq 1 .. lastId'.member
    BY <1>2, <1>5, <1>6, <2>1 DEF StoreInv, StoreTypeOK
  <2>3. ASSUME NEW m \in DOMAIN members', m \notin DOMAIN members
        PROVE  members'[m] \in [facility : Nat, saved : Nat \cup {None},
                                override : Overrides, config : Configs]
    <3>1. m - lastId.member \in 1 .. n /\ lastId.saved + (m - lastId.member) \in Nat
      BY <1>2, <1>5, <2>1, <2>3
    <3>2. members'[m] = [facility |-> j.facility,
                         saved |-> lastId.saved + (m - lastId.member),
                         override |-> kept[m - lastId.member].override,
                         config |-> kept[m - lastId.member].config]
      BY <1>3, <2>3
    <3> QED
      BY <1>1, <1>2, <3>1, <3>2
  <2>4. \A m \in DOMAIN members : members'[m] = members[m]
    BY <1>3
  <2>5. members' = [m \in DOMAIN members' |-> members'[m]]
    BY <1>3
  <2> QED
    BY <2>2, <2>3, <2>4, <2>5 DEF StoreInv, StoreTypeOK
<1> QED
  BY <1>3, <1>4, <1>6, <1>7, <1>8 DEF StoreInv, StoreTypeOK, TablesAreFunctions

\* Steps that leave the tables alone.
LEMMA RequestsKeepTypes ==
    ASSUME StoreInv, UNCHANGED <<saved, facilities, members, lastId>>,
           exports' \subseteq Seq(Entry), types' \in (SUBSET Types) \cup {{Raises}},
           jobs' \in [Threads -> Jobs]
    PROVE  StoreInv'
BY DEF StoreInv, StoreTypeOK, TablesAreFunctions

LEMMA OtherRequestsKeepTypes ==
    ASSUME StoreInv, NEW t \in Threads, NEW u \in Users,
           \/ AddMember(t, u) \/ DeleteFacility(t, u) \/ ExportFacility(t, u)
           \/ LaunchDevice(t, u) \/ LaunchFacility(t, u)
           \/ StopFacility(t, u) \/ DeleteInstance(t, u)
    PROVE  StoreInv'
<1>1. /\ UNCHANGED <<saved, facilities, members, lastId, types>>
      /\ types' \in (SUBSET Types) \cup {{Raises}}
  BY DEF AddMember, DeleteFacility, ExportFacility, LaunchDevice, LaunchFacility,
         StopFacility, DeleteInstance, StoreInv, StoreTypeOK
<1>2. exports' \subseteq Seq(Entry)
  BY ExportedAreEntries
     DEF AddMember, DeleteFacility, ExportFacility, LaunchDevice, LaunchFacility,
         StopFacility, DeleteInstance, StoreInv, StoreTypeOK
<1>3. /\ OwnFacilities(u) \subseteq Nat /\ OwnSaved(u) \subseteq Nat
      /\ \A s \in OwnSaved(u) : saved[s].config \in Configs
      /\ jobs \in [Threads -> Jobs]
  BY DEF OwnFacilities, OwnSaved, StoreInv, StoreTypeOK
<1>4. CASE AddMember(t, u)
  <2>1. PICK f \in OwnFacilities(u), s \in OwnSaved(u), o \in Overrides :
          Serve(t, [do |-> "add", user |-> u, facility |-> f, saved |-> s,
                    override |-> o, config |-> saved[s].config])
    BY <1>4 DEF AddMember, ReadableSaved
  <2>2. [do |-> "add", user |-> u, facility |-> f, saved |-> s,
         override |-> o, config |-> saved[s].config] \in Jobs
    BY <1>3, NewJobs
  <2>3. jobs' \in [Threads -> Jobs]
    BY <1>3, <2>1, <2>2, ServeKeepsJobs
  <2> QED
    BY <1>1, <1>2, <2>3, RequestsKeepTypes
<1>5. CASE DeleteFacility(t, u)
  <2>1. PICK f \in OwnFacilities(u) :
          Serve(t, [do |-> "delete", user |-> u, facility |-> f])
    BY <1>5 DEF DeleteFacility
  <2>2. jobs' \in [Threads -> Jobs]
    BY <1>3, <2>1, NewJobs, ServeKeepsJobs
  <2> QED
    BY <1>1, <1>2, <2>2, RequestsKeepTypes
<1>6. CASE LaunchDevice(t, u)
  <2>1. PICK s \in OwnSaved(u) :
          Serve(t, [do |-> "launch", user |-> u, facility |-> None,
                    planned |-> <<[member |-> None, target |-> saved[s].config.target]>>,
                    launched |-> {}])
    BY <1>6 DEF LaunchDevice
  <2>2. [member |-> None, target |-> saved[s].config.target] \in Launchable
    BY <1>3 DEF Configs, Launchable
  <2>3. <<[member |-> None, target |-> saved[s].config.target]>> \in Seq(Launchable)
    BY <2>2
  <2>4. jobs' \in [Threads -> Jobs]
    BY <1>3, <2>1, <2>3, LaunchJobs, ServeKeepsJobs
  <2> QED
    BY <1>1, <1>2, <2>4, RequestsKeepTypes
<1>7. CASE LaunchFacility(t, u)
  <2>1. PICK f \in OwnFacilities(u) :
          Serve(t, [do |-> "launch", user |-> u, facility |-> f,
                    planned |-> Planned(f), launched |-> {}])
    BY <1>7 DEF LaunchFacility
  <2>2. Planned(f) \in Seq(Launchable)
    BY PlannedAreLaunchable DEF StoreInv
  <2>3. jobs' \in [Threads -> Jobs]
    BY <1>3, <2>1, <2>2, LaunchJobs, ServeKeepsJobs
  <2> QED
    BY <1>1, <1>2, <2>3, RequestsKeepTypes
<1>8. CASE ExportFacility(t, u) \/ StopFacility(t, u) \/ DeleteInstance(t, u)
  <2>1. jobs' \in [Threads -> Jobs]
    BY <1>3, <1>8 DEF ExportFacility, StopFacility, DeleteInstance
  <2> QED
    BY <1>1, <1>2, <2>1, RequestsKeepTypes
<1> QED
  BY <1>4, <1>5, <1>6, <1>7, <1>8

LEMMA LaunchNextKeepsTypes ==
    ASSUME StoreInv, NEW t \in Threads, LaunchNext(t)
    PROVE  StoreInv'
<1> DEFINE j == jobs[t]
           i == [facility |-> j.facility, member |-> Head(j.planned).member,
                 target |-> Head(j.planned).target]
<1>1. /\ UNCHANGED <<saved, facilities, members, lastId, exports, types>>
      /\ jobs \in [Threads -> Jobs] /\ exports \subseteq Seq(Entry)
      /\ types \in (SUBSET Types) \cup {{Raises}}
  BY DEF LaunchNext, StoreInv, StoreTypeOK
<1>2. /\ j.user \in Users /\ j.facility \in Nat \cup {None}
      /\ j.planned \in Seq(Launchable) /\ j.launched \in SUBSET Instances
  BY <1>1, JobForms DEF LaunchNext
<1>3. \/ Serve(t, Idle)
      \/ /\ j.planned # <<>>
         /\ Serve(t, [do |-> "launch", user |-> j.user, facility |-> j.facility,
                      planned |-> Tail(j.planned), launched |-> j.launched \cup {i}])
  BY DEF LaunchNext
<1>4. CASE Serve(t, Idle)
  BY <1>1, <1>4, JobForms, ServeKeepsJobs, RequestsKeepTypes
<1>5. CASE /\ j.planned # <<>>
           /\ Serve(t, [do |-> "launch", user |-> j.user, facility |-> j.facility,
                        planned |-> Tail(j.planned), launched |-> j.launched \cup {i}])
  <2>1. Head(j.planned) \in Launchable /\ Tail(j.planned) \in Seq(Launchable)
    BY <1>2, <1>5
  <2>2. i \in Instances
    BY <1>2, <2>1 DEF Launchable, Instances
  <2> HIDE DEF i, j
  <2>3. j.launched \cup {i} \in SUBSET Instances
    BY <1>2, <2>2
  <2>4. [do |-> "launch", user |-> j.user, facility |-> j.facility,
         planned |-> Tail(j.planned), launched |-> j.launched \cup {i}] \in Jobs
    BY <1>2, <2>1, <2>3, LaunchJobs
  <2>5. jobs' \in [Threads -> Jobs]
    BY <1>1, <1>5, <2>4, ServeKeepsJobs
  <2> QED
    BY <1>1, <2>5, RequestsKeepTypes
<1> QED
  BY <1>3, <1>4, <1>5

LEMMA NextKeepsTypes == StoreInv /\ [StoreNext]_storeVars => StoreInv'
<1> SUFFICES ASSUME StoreInv, [StoreNext]_storeVars PROVE StoreInv'
  OBVIOUS
<1>1. ASSUME NEW t \in Threads, NEW u \in Users, StoreRequest(t, u)
      PROVE  StoreInv'
  BY <1>1, LibraryKeepsTypes, MemberEditsKeepTypes, NewFacilitiesKeepTypes,
     OtherRequestsKeepTypes DEF StoreRequest
<1>2. ASSUME NEW t \in Threads, StoreWork(t)
      PROVE  StoreInv'
  BY <1>2, InsertMemberKeepsTypes, DeleteFacilityRowKeepsTypes, FillFacilityKeepsTypes,
     LaunchNextKeepsTypes DEF StoreWork
<1>3. CASE TypesChange
  BY <1>3, RequestsKeepTypes DEF TypesChange, StoreInv, StoreTypeOK
<1>4. CASE UNCHANGED storeVars
  BY <1>4, RequestsKeepTypes DEF storeVars, StoreInv, StoreTypeOK
<1> QED
  BY <1>1, <1>2, <1>3, <1>4 DEF StoreNext

LEMMA InitTypes == StoreInit => StoreInv
<1> SUFFICES ASSUME StoreInit PROVE StoreInv
  OBVIOUS
<1>1. DOMAIN <<>> = {} /\ <<>> = [x \in DOMAIN <<>> |-> <<>>[x]]
  OBVIOUS
<1> QED
  BY <1>1, StoreAssumption, JobForms DEF StoreInit, StoreInv, StoreTypeOK, TablesAreFunctions

\* The columns hold what the handlers check before they write them, an exported
\* file holds the facility's members in their order, and a request that is under
\* way holds rows that were given out (web/app.py, the tables of init_db).
THEOREM StoreTypeCorrect == StoreSpec => []StoreTypeOK
<1>1. StoreInv => StoreTypeOK
  BY DEF StoreInv
<1> QED
  BY <1>1, InitTypes, NextKeepsTypes, PTL DEF StoreSpec

-----------------------------------------------------------------------------
\* What an import adds to a facility.

\* The members of a facility whose rows are the last ones added, with the older
\* ones in S and n new ones.
AreAppended(S, T, last, n) ==
    last \in Nat /\ n \in Nat /\ S \subseteq 1 .. last /\ T = S \cup last + 1 .. last + n

LEMMA OrderAfterFill ==
    ASSUME NEW last, NEW n, NEW S, NEW T, AreAppended(S, T, last, n)
    PROVE  /\ AreIds(S) /\ AreIds(T)
           /\ Cardinality(S) \in Nat /\ Cardinality(T) = Cardinality(S) + n
           /\ \A m \in S : UpTo(T, m) = UpTo(S, m)
           /\ \A i \in 1 .. n : Cardinality(UpTo(T, last + i)) = Cardinality(S) + i
<1> USE DEF AreAppended
<1>1. AreIds(S) /\ AreIds(T)
  <2>1. T \subseteq 1 .. last + n /\ last + n \in Nat
    OBVIOUS
  <2> QED
    BY <2>1 DEF AreIds
<1>2. IsFiniteSet(S) /\ Cardinality(S) \in Nat
  BY <1>1, IdsAreFinite
<1>3. ASSUME NEW i \in 0 .. n
      PROVE  Cardinality(S \cup last + 1 .. last + i) = Cardinality(S) + i
  <2> DEFINE J == last + 1 .. last + i
  <2>1. /\ IsFiniteSet(J) /\ Cardinality(J) = i
    BY FS_Interval
  <2>2. S \cap J = {}
    OBVIOUS
  <2> HIDE DEF J
  <2>3. Cardinality(S \cup J) = Cardinality(S) + Cardinality(J) - Cardinality(S \cap J)
    BY <1>2, <2>1, FS_Union
  <2>4. Cardinality(S \cap J) = 0
    BY <2>2, FS_EmptySet
  <2>5. Cardinality(S \cup J) = Cardinality(S) + i
    BY <1>2, <2>1, <2>3, <2>4
  <2> QED
    BY <2>5 DEF J
<1>4. Cardinality(T) = Cardinality(S) + n
  BY <1>3
<1>5. ASSUME NEW m \in S
      PROVE  UpTo(T, m) = UpTo(S, m)
  BY DEF UpTo
<1>6. ASSUME NEW i \in 1 .. n
      PROVE  Cardinality(UpTo(T, last + i)) = Cardinality(S) + i
  <2>1. ASSUME NEW k
        PROVE  k \in UpTo(T, last + i) <=> k \in S \cup last + 1 .. last + i
    <3>1. k \in S => k \in Nat /\ k <= last + i
      OBVIOUS
    <3>2. k \in last + 1 .. last + i <=> k \in last + 1 .. last + n /\ k <= last + i
      OBVIOUS
    <3> QED
      BY <3>1, <3>2 DEF UpTo
  <2>2. i \in 0 .. n
    OBVIOUS
  <2>3. UpTo(T, last + i) = S \cup last + 1 .. last + i
    BY <2>1
  <2> QED
    BY <1>3, <2>2, <2>3
<1> QED
  BY <1>1, <1>2, <1>4, <1>5, <1>6

\* The i-th member of a facility.
LEMMA IthMember ==
    ASSUME NEW f, AreIds(MembersOf(f)), NEW m \in MembersOf(f),
           NEW i \in 1 .. Cardinality(MembersOf(f)),
           Cardinality(UpTo(MembersOf(f), m)) = i
    PROVE  InOrder(f)[i] = m
<1>1. /\ InOrder(f)[i] \in MembersOf(f)
      /\ Cardinality(UpTo(MembersOf(f), InOrder(f)[i])) = i
  BY InOrderFacts
<1> QED
  BY <1>1, NthIsOne

LEMMA EffectiveOfRow ==
    ASSUME NEW row, NEW entry, row.config = entry.config, row.override = entry.override
    PROVE  Effective([config |-> row.config, override |-> row.override]) = Effective(entry)
BY DEF Effective

LEMMA OneAfterTheOther ==
    ASSUME NEW c \in Nat, NEW n \in Nat, NEW p, NEW q,
           p = [i \in 1 .. c |-> p[i]], q = [i \in 1 .. n |-> q[i]]
    PROVE  p \o q = [i \in 1 .. c + n |-> IF i <= c THEN p[i] ELSE q[i - c]]
<1> DEFINE S == {p[i] : i \in 1 .. c} \cup {q[i] : i \in 1 .. n}
<1>1. /\ \A i \in 1 .. c : p[i] \in S
      /\ \A i \in 1 .. n : q[i] \in S
  OBVIOUS
<1> HIDE DEF S
<1>2. p \in Seq(S) /\ q \in Seq(S) /\ Len(p) = c /\ Len(q) = n
  BY <1>1
<1> QED
  BY <1>2

\* A fill of all of a file's entries puts them behind what the plan had.
LEMMA FilledPlan ==
    ASSUME StoreTypeOK, NEW f, NEW entries \in Seq(Entry),
           members' = [m \in DOMAIN members
                               \cup lastId.member + 1 .. lastId.member + Len(entries) |->
                          IF m \in DOMAIN members THEN members[m]
                          ELSE [facility |-> f,
                                saved |-> lastId.saved + (m - lastId.member),
                                override |-> entries[m - lastId.member].override,
                                config |-> entries[m - lastId.member].config]]
    PROVE  Plan(f)' = Plan(f) \o PlanOf(entries)
<1> DEFINE last == lastId.member
           n == Len(entries)
           S == MembersOf(f)
           c == Cardinality(S)
<1>1. /\ last \in Nat /\ n \in Nat /\ DOMAIN members \subseteq 1 .. last
      /\ S \subseteq 1 .. last /\ S \subseteq DOMAIN members
  BY DEF StoreTypeOK, MembersOf
<1>2. /\ DOMAIN members' = DOMAIN members \cup last + 1 .. last + n
      /\ \A m \in DOMAIN members : members'[m] = members[m]
      /\ \A i \in 1 .. n :
            members'[last + i] = [facility |-> f, saved |-> lastId.saved + ((last + i) - last),
                                  override |-> entries[(last + i) - last].override,
                                  config |-> entries[(last + i) - last].config]
  <2>1. \A i \in 1 .. n : last + i \in last + 1 .. last + n /\ last + i \notin DOMAIN members
    BY <1>1
  <2> HIDE DEF last, n
  <2> QED
    BY <2>1 DEF last, n
<1>3. ASSUME NEW i \in 1 .. n
      PROVE  /\ members'[last + i].facility = f
             /\ members'[last + i].override = entries[i].override
             /\ members'[last + i].config = entries[i].config
  <2>1. (last + i) - last = i
    BY <1>1
  <2>2. members'[last + i] = [facility |-> f, saved |-> lastId.saved + ((last + i) - last),
                              override |-> entries[(last + i) - last].override,
                              config |-> entries[(last + i) - last].config]
    BY <1>2
  <2> HIDE DEF last, n
  <2> QED
    BY <2>1, <2>2
<1>4. MembersOf(f)' = S \cup last + 1 .. last + n
  <2>1. \A m \in last + 1 .. last + n : \E i \in 1 .. n : m = last + i
    <3> SUFFICES ASSUME NEW m \in last + 1 .. last + n
                 PROVE  m - last \in 1 .. n /\ m = last + (m - last)
      OBVIOUS
    <3> QED
      BY <1>1
  <2>2. \A m \in last + 1 .. last + n : members'[m].facility = f
    BY <1>3, <2>1
  <2> QED
    BY <1>2, <2>2 DEF MembersOf
<1> DEFINE T == S \cup last + 1 .. last + n
<1>5. /\ AreIds(S) /\ AreIds(T) /\ c \in Nat /\ Cardinality(T) = c + n
      /\ \A m \in S : UpTo(T, m) = UpTo(S, m)
      /\ \A i \in 1 .. n : Cardinality(UpTo(T, last + i)) = c + i
  <2>1. AreAppended(S, T, last, n)
    BY <1>1 DEF AreAppended
  <2> HIDE DEF last, n, S, T
  <2>2. /\ AreIds(S) /\ AreIds(T)
        /\ Cardinality(S) \in Nat /\ Cardinality(T) = Cardinality(S) + n
        /\ \A m \in S : UpTo(T, m) = UpTo(S, m)
        /\ \A i \in 1 .. n : Cardinality(UpTo(T, last + i)) = Cardinality(S) + i
    BY <2>1, OrderAfterFill
  <2> QED
    BY <2>2 DEF c
<1>6. AreIds(MembersOf(f)')
  BY <1>4, <1>5
<1>7. /\ DOMAIN InOrder(f)' = 1 .. c + n
      /\ \A i \in 1 .. c + n : /\ InOrder(f)'[i] \in T
                               /\ Cardinality(UpTo(T, InOrder(f)'[i])) = i
  <2>1. InOrder(f)' = [i \in 1 .. Cardinality(T) |->
                         CHOOSE m \in T : Cardinality({k \in T : k <= m}) = i]
    BY <1>4 DEF InOrder
  <2>2. \A i \in 1 .. Cardinality(T) : \E m \in T : Cardinality(UpTo(T, m)) = i
    BY <1>5, NthIsThere
  <2>3. InOrder(f)' = [i \in 1 .. c + n |->
                         CHOOSE m \in T : Cardinality(UpTo(T, m)) = i]
    BY <1>5, <2>1 DEF UpTo
  <2> HIDE DEF T, c, n
  <2> QED
    BY <1>5, <2>2, <2>3
<1>8. ASSUME NEW i \in 1 .. c
      PROVE  InOrder(f)'[i] = InOrder(f)[i] /\ InOrder(f)[i] \in S
  <2>1. InOrder(f)[i] \in S /\ Cardinality(UpTo(S, InOrder(f)[i])) = i
    BY <1>5, InOrderFacts
  <2>2. i \in 1 .. c + n
    BY <1>1, <1>5
  <2>3. Cardinality(UpTo(T, InOrder(f)[i])) = i /\ InOrder(f)[i] \in T
    BY <1>5, <2>1
  <2> HIDE DEF T, c, n, S
  <2> QED
    BY <1>5, <1>7, <2>1, <2>2, <2>3, NthIsOne
<1>9. ASSUME NEW i \in 1 .. n
      PROVE  InOrder(f)'[c + i] = last + i
  <2>1. c + i \in 1 .. c + n /\ last + i \in T
    BY <1>1, <1>5
  <2>2. Cardinality(UpTo(T, last + i)) = c + i
    BY <1>5
  <2> HIDE DEF T, c, n
  <2> QED
    BY <1>5, <1>7, <2>1, <2>2, NthIsOne
<1>10. Plan(f) = [i \in 1 .. c |-> PlanEntry(f, i)]
  BY <1>5, PlanForm
<1>11. Plan(f)' = [i \in 1 .. c + n |->
                     Effective([config |-> members'[InOrder(f)'[i]].config,
                                override |-> members'[InOrder(f)'[i]].override])]
  BY <1>7 DEF Plan, PlanOf, Exported
<1>12. PlanOf(entries) = [i \in 1 .. n |-> Effective(entries[i])]
  BY DEF PlanOf
<1>13. ASSUME NEW i \in 1 .. c
       PROVE  Plan(f)'[i] = PlanEntry(f, i)
  <2>1. i \in 1 .. c + n
    BY <1>1, <1>5
  <2>2. members'[InOrder(f)'[i]] = members[InOrder(f)[i]]
    BY <1>1, <1>2, <1>8
  <2> HIDE DEF c, n
  <2> QED
    BY <1>11, <2>1, <2>2 DEF PlanEntry
<1>14. ASSUME NEW i \in 1 .. n
       PROVE  Plan(f)'[c + i] = Effective(entries[i])
  <2>1. c + i \in 1 .. c + n
    BY <1>1, <1>5
  <2>2. Effective([config |-> members'[InOrder(f)'[c + i]].config,
                   override |-> members'[InOrder(f)'[c + i]].override])
           = Effective(entries[i])
    <3>1. InOrder(f)'[c + i] = last + i
      BY <1>9
    <3>2. /\ members'[last + i].override = entries[i].override
          /\ members'[last + i].config = entries[i].config
      BY <1>3
    <3> DEFINE row == members'[last + i]
    <3>3. Effective([config |-> row.config, override |-> row.override])
             = Effective(entries[i])
      BY <3>2, EffectiveOfRow
    <3> HIDE DEF c, n
    <3> QED
      BY <3>1, <3>3
  <2> HIDE DEF c, n
  <2> QED
    BY <1>11, <2>1, <2>2
<1> HIDE DEF c, n
<1>15. /\ Plan(f) = [i \in 1 .. c |-> Plan(f)[i]]
       /\ PlanOf(entries) = [i \in 1 .. n |-> PlanOf(entries)[i]]
  BY <1>10, <1>12
<1>16. Plan(f) \o PlanOf(entries)
          = [i \in 1 .. c + n |-> IF i <= c THEN Plan(f)[i] ELSE PlanOf(entries)[i - c]]
  BY <1>1, <1>5, <1>15, OneAfterTheOther
<1>17. ASSUME NEW i \in 1 .. c + n
       PROVE  Plan(f)'[i] = IF i <= c THEN Plan(f)[i] ELSE PlanOf(entries)[i - c]
  <2>1. CASE i <= c
    <3>1. i \in 1 .. c
      BY <2>1
    <3> QED
      BY <1>10, <1>13, <2>1, <3>1
  <2>2. CASE ~ (i <= c)
    <3>1. i - c \in 1 .. n /\ c + (i - c) = i
      BY <1>1, <1>5, <2>2
    <3> QED
      BY <1>12, <1>14, <2>2, <3>1
  <2> QED
    BY <2>1, <2>2
<1> QED
  BY <1>11, <1>16, <1>17

\* A step of one thread leaves the requests of the others as they are.
LEMMA ServeTouchesOne ==
    ASSUME jobs \in [Threads -> Jobs], NEW v \in Threads, NEW t \in Threads \ {v},
           StoreWork(v) \/ \E u \in Users : StoreRequest(v, u)
    PROVE  jobs'[t] = jobs[t]
<1>1. \A job : Serve(v, job) => jobs'[t] = jobs[t]
  BY DEF Serve
<1>2. CASE StoreWork(v)
  BY <1>1, <1>2 DEF StoreWork, InsertMember, DeleteFacilityRow, FillFacility, LaunchNext
<1>3. ASSUME NEW u \in Users, StoreRequest(v, u)
      PROVE  jobs'[t] = jobs[t]
  <2>1. CASE AddMember(v, u) \/ DeleteFacility(v, u) \/ ImportFacility(v, u)
             \/ LaunchDevice(v, u) \/ LaunchFacility(v, u)
    BY <1>1, <2>1 DEF AddMember, DeleteFacility, ImportFacility, LaunchDevice, LaunchFacility
  <2>2. CASE LibraryEdit(v, u) \/ CreateFacility(v, u) \/ UpdateMember(v, u)
             \/ DeleteMember(v, u) \/ ExportFacility(v, u) \/ StopFacility(v, u)
             \/ DeleteInstance(v, u)
    BY <2>2 DEF LibraryEdit, SaveDevice, EditDevice, DeleteDevice, CreateFacility,
                UpdateMember, DeleteMember, ExportFacility, StopFacility, DeleteInstance
  <2> QED
    BY <1>3, <2>1, <2>2 DEF StoreRequest
<1> QED
  BY <1>2, <1>3

LEMMA NextFillsAllOrNothing ==
    ASSUME RowInv, StoreInv, [StoreNext]_storeVars
    PROVE  [\A t \in Threads : \A f \in DOMAIN facilities :
               jobs[t].do = "fill" /\ jobs'[t] = Idle /\ jobs[t].facility = f =>
                  \/ saved' = saved /\ members' = members
                  \/ /\ Plan(f)' = Plan(f) \o PlanOf(jobs[t].entries)
                     /\ \A m \in MembersOf(f)' \ MembersOf(f) :
                           members'[m].saved \in DOMAIN saved' \ DOMAIN saved]_storeVars
<1> DEFINE IsWhole(t, f) ==
              \/ saved' = saved /\ members' = members
              \/ /\ Plan(f)' = Plan(f) \o PlanOf(jobs[t].entries)
                 /\ \A m \in MembersOf(f)' \ MembersOf(f) :
                       members'[m].saved \in DOMAIN saved' \ DOMAIN saved
<1>1. ASSUME RowInv, StoreInv, NEW t \in Threads, NEW f \in DOMAIN facilities,
             FillFacility(t), jobs[t].facility = f
      PROVE  IsWhole(t, f)
  <2> DEFINE entries == jobs[t].entries
  <2>1. entries \in Seq(Entry)
    BY <1>1, JobForms DEF FillFacility, StoreInv, StoreTypeOK
  <2>2. Kept(entries) \in {entries, <<>>}
    BY DEF Kept
  <2>3. /\ saved' = [s \in DOMAIN saved
                            \cup lastId.saved + 1 .. lastId.saved + Len(Kept(entries)) |->
                        IF s \in DOMAIN saved THEN saved[s]
                        ELSE [user |-> jobs[t].user,
                              config |-> Kept(entries)[s - lastId.saved].config]]
        /\ members' = [m \in DOMAIN members
                              \cup lastId.member + 1 .. lastId.member + Len(Kept(entries)) |->
                          IF m \in DOMAIN members THEN members[m]
                          ELSE [facility |-> f,
                                saved |-> lastId.saved + (m - lastId.member),
                                override |-> Kept(entries)[m - lastId.member].override,
                                config |-> Kept(entries)[m - lastId.member].config]]
    BY <1>1 DEF FillFacility
  <2> HIDE DEF entries
  <2>4. lastId \in [saved : Nat, facility : Nat, member : Nat]
    BY <1>1 DEF StoreInv, StoreTypeOK
  <2>5. CASE Kept(entries) = <<>>
    <3>1. /\ lastId.saved + 1 .. lastId.saved + Len(Kept(entries)) = {}
          /\ lastId.member + 1 .. lastId.member + Len(Kept(entries)) = {}
      BY <2>4, <2>5
    <3>2. /\ saved' = [s \in DOMAIN saved |-> saved[s]]
          /\ members' = [m \in DOMAIN members |-> members[m]]
      BY <2>3, <3>1
    <3> QED
      BY <1>1, <3>2 DEF StoreInv, TablesAreFunctions
  <2>6. CASE Kept(entries) = entries
    <3>1. Plan(f)' = Plan(f) \o PlanOf(entries)
      BY <1>1, <2>1, <2>3, <2>6, FilledPlan DEF StoreInv
    <3>2. \A m \in DOMAIN members' \ DOMAIN members :
             members'[m].saved \in DOMAIN saved' \ DOMAIN saved
      BY <1>1, FillAddsRows
    <3>3. \A m \in MembersOf(f)' \ MembersOf(f) : m \in DOMAIN members' \ DOMAIN members
      BY <2>3 DEF MembersOf
    <3> QED
      BY <3>1, <3>2, <3>3 DEF entries
  <2> QED
    BY <2>2, <2>5, <2>6
<1>2. ASSUME NEW t \in Threads,
             jobs[t].do = "fill", jobs'[t] = Idle
      PROVE  FillFacility(t)
  <2>1. jobs'[t] # jobs[t]
    BY <1>2 DEF Idle
  <2>2. ASSUME NEW v \in Threads, StoreWork(v) \/ \E u \in Users : StoreRequest(v, u)
        PROVE  v = t
    BY <1>2, <2>1, <2>2, ServeTouchesOne DEF StoreInv, StoreTypeOK
  <2>3. ~ \E u \in Users : StoreRequest(t, u)
    BY <1>2 DEF StoreRequest, Idle
  <2>4. ~ UNCHANGED storeVars /\ ~ TypesChange
    BY <2>1 DEF storeVars, TypesChange
  <2>5. StoreWork(t)
    BY <1>2, <2>2, <2>3, <2>4 DEF StoreNext
  <2> QED
    BY <1>2, <2>5 DEF StoreWork, InsertMember, DeleteFacilityRow, LaunchNext
<1> QED
  BY <1>1, <1>2

\* README: an import "creates a new private Facility under the importing user
\* and fresh saved-device rows"; it launches what the exported facility would,
\* and an entry that fails leaves no half of it (web/app.py,
\* import_facility_for_user).
THEOREM ImportsAreWhole == StoreSpec => ImportFillsAllOrNothing
BY NextFillsAllOrNothing, InitRows, NextKeepsRows, InitTypes, NextKeepsTypes, PTL
   DEF StoreSpec, ImportFillsAllOrNothing

-----------------------------------------------------------------------------
\* Accounts and the lockout.

\* The failures that a list or a request holds are in the history of its key.
HeldAreInHistory ==
    /\ \A k \in Keys : attempts[k] \subseteq DOMAIN failures[k]
    /\ \A t \in Threads :
          logins[t].do = "append" =>
             logins[t].list \cup {logins[t].failure}
                \subseteq DOMAIN failures[KeyOf[logins[t].user]]

\* A request that is about to append to a list has pruned it, and time has not
\* passed since; what others added to it meanwhile is as recent.
AppendsAreRecent ==
    \A t \in Threads :
        logins[t].do = "append" =>
            LET k == KeyOf[logins[t].user]
            IN  \A n \in logins[t].list \cup {logins[t].failure}
                         \cup (IF logins[t].stale THEN {} ELSE attempts[k]) :
                   failures[k][n] <= Window

AccountInv ==
    /\ AccountsTypeOK /\ NamesAreUnique
    /\ HeldAreInHistory /\ AppendsAreRecent /\ LockoutIsEarned

LEMMA LoginForms ==
    /\ Out \in Logins /\ Out.do = "out"
    /\ \A u \in Users : /\ [do |-> "insert", user |-> u] \in Logins
                        /\ [do |-> "verify", user |-> u] \in Logins
    /\ \A login \in Logins :
          /\ login.do \in {"insert", "verify"} =>
                login = [do |-> login.do, user |-> login.user] /\ login.user \in Users
          /\ login.do = "append" =>
                login \in [do : {"append"}, user : Users, failure : Nat,
                           list : SUBSET Nat, stale : BOOLEAN]
BY DEF Logins, Out

\* A key of a request that is served.
LEMMA KeysOfLogins ==
    ASSUME AccountsTypeOK, NEW t \in Threads, logins[t].do \in {"verify", "append"}
    PROVE  logins[t].user \in Users /\ KeyOf[logins[t].user] \in Keys
BY LoginForms DEF AccountsTypeOK, Keys

-----------------------------------------------------------------------------
LEMMA HistoryFacts ==
    ASSUME NEW S, NEW history \in Seq(S)
    PROVE  /\ Len(history) \in Nat
           /\ DOMAIN history = 1 .. Len(history)
           /\ \A n \in DOMAIN history : history[n] \in S
OBVIOUS

LEMMA HistoryForm ==
    ASSUME NEW S, NEW history, NEW m \in Nat, DOMAIN history = 1 .. m,
           history = [n \in 1 .. m |-> history[n]], \A n \in 1 .. m : history[n] \in S
    PROVE  history \in Seq(S)
OBVIOUS

\* The failures of a history that are no older than an age.
Since(history, age) == {n \in DOMAIN history : history[n] <= age}

LEMMA HistoryIsFinite ==
    ASSUME NEW S, NEW history \in Seq(S), NEW age
    PROVE  IsFiniteSet(Since(history, age))
<1>1. DOMAIN history = 1 .. Len(history) /\ Len(history) \in Nat
  OBVIOUS
<1>2. IsFiniteSet(DOMAIN history)
  BY <1>1, FS_Interval
<1> QED
  BY <1>2, FS_Subset DEF Since

\* A lockout stays earned as long as it is there and its history keeps what is
\* recent.
LEMMA LockoutsStayEarned ==
    ASSUME AccountInv, AccountsTypeOK',
           \A k \in Keys :
              lockouts'[k] > 0 =>
                 /\ lockouts[k] > 0
                 /\ Since(failures[k], Window + Lockout - lockouts[k])
                       \subseteq Since(failures'[k], Window + Lockout - lockouts'[k])
    PROVE  LockoutIsEarned'
<1> SUFFICES ASSUME NEW k \in Keys, lockouts'[k] > 0
             PROVE  Cardinality(Since(failures'[k], Window + Lockout - lockouts'[k]))
                       >= Limit
  BY DEF LockoutIsEarned, Since
<1> DEFINE before == Since(failures[k], Window + Lockout - lockouts[k])
           after == Since(failures'[k], Window + Lockout - lockouts'[k])
<1>1. Cardinality(before) >= Limit
  BY DEF AccountInv, LockoutIsEarned, Since
<1>2. IsFiniteSet(before) /\ IsFiniteSet(after)
  BY HistoryIsFinite DEF AccountInv, AccountsTypeOK
<1>3. before \subseteq after
  OBVIOUS
<1> HIDE DEF before, after
<1>4. /\ Cardinality(before) \in Nat /\ Cardinality(after) \in Nat
      /\ Cardinality(before) <= Cardinality(after)
  BY <1>2, <1>3, FS_Subset, FS_CardinalityType
<1>5. Cardinality(after) >= Limit
  BY <1>1, <1>4, AccountsAssumption
<1> QED
  BY <1>5 DEF after

-----------------------------------------------------------------------------
\* Replacing a key's list marks the appends that still hold the old one.
LEMMA StaleFacts ==
    ASSUME AccountsTypeOK, NEW k, NEW t \in Threads, NEW login \in Logins,
           logins' = Stale(k, t, login)
    PROVE  /\ logins' \in [Threads -> Logins]
           /\ logins'[t] = login
           /\ \A v \in Threads \ {t} :
                 /\ logins'[v].do = logins[v].do
                 /\ logins'[v].do = "append" =>
                       /\ logins'[v].user = logins[v].user
                       /\ logins'[v].failure = logins[v].failure
                       /\ logins'[v].list = logins[v].list
                       /\ KeyOf[logins[v].user] = k => logins'[v].stale
                       /\ KeyOf[logins[v].user] # k =>
                             logins'[v].stale = logins[v].stale
<1>1. /\ DOMAIN logins' = Threads /\ logins'[t] = login
      /\ \A v \in Threads \ {t} :
            logins'[v] = IF logins[v].do = "append" /\ KeyOf[logins[v].user] = k
                         THEN [logins[v] EXCEPT !.stale = TRUE]
                         ELSE logins[v]
      /\ logins' = [v \in Threads |-> logins'[v]]
  BY DEF Stale
<1>2. ASSUME NEW v \in Threads \ {t}, logins[v].do = "append"
      PROVE  logins[v] \in [do : {"append"}, user : Users, failure : Nat,
                            list : SUBSET Nat, stale : BOOLEAN]
  BY <1>2, LoginForms DEF AccountsTypeOK
<1>3. ASSUME NEW v \in Threads \ {t}
      PROVE  /\ logins'[v] \in Logins
             /\ logins'[v].do = logins[v].do
             /\ logins'[v].do = "append" =>
                   /\ logins'[v].user = logins[v].user
                   /\ logins'[v].failure = logins[v].failure
                   /\ logins'[v].list = logins[v].list
                   /\ KeyOf[logins[v].user] = k => logins'[v].stale
                   /\ KeyOf[logins[v].user] # k => logins'[v].stale = logins[v].stale
  <2>1. CASE logins[v].do = "append" /\ KeyOf[logins[v].user] = k
    <3>1. logins'[v] = [logins[v] EXCEPT !.stale = TRUE]
      BY <1>1, <2>1
    <3>2. logins'[v] \in [do : {"append"}, user : Users, failure : Nat,
                          list : SUBSET Nat, stale : BOOLEAN]
      BY <1>2, <2>1, <3>1
    <3> QED
      BY <1>2, <2>1, <3>1, <3>2 DEF Logins
  <2>2. CASE ~ (logins[v].do = "append" /\ KeyOf[logins[v].user] = k)
    BY <1>1, <2>2 DEF AccountsTypeOK
  <2> QED
    BY <2>1, <2>2
<1>4. \A v \in Threads : logins'[v] \in Logins
  BY <1>1, <1>3
<1> QED
  BY <1>1, <1>3, <1>4

\* A step that ends a request, or takes it on, without touching lists.
LEMMA ContinueFacts ==
    ASSUME AccountsTypeOK, NEW t \in Threads, NEW login \in Logins, Continue(t, login)
    PROVE  /\ logins' \in [Threads -> Logins]
           /\ logins'[t] = login
           /\ \A v \in Threads \ {t} : logins'[v] = logins[v]
BY DEF AccountsTypeOK, Continue

-----------------------------------------------------------------------------
\* Steps that leave the failures, the lists and the lockouts alone.
LEMMA UntouchedAttempts ==
    ASSUME AccountInv, NEW t \in Threads, NEW login \in Logins, login.do # "append",
           Continue(t, login), UNCHANGED <<attempts, lockouts, failures>>,
           users' \in Seq(Users), NamesAreUnique',
           sessions' \in [Threads -> Users \cup {None}]
    PROVE  AccountInv'
<1>1. /\ logins' \in [Threads -> Logins]
      /\ logins'[t] = login
      /\ \A v \in Threads \ {t} : logins'[v] = logins[v]
  BY ContinueFacts DEF AccountInv
<1>2. AccountsTypeOK'
  BY <1>1 DEF AccountInv, AccountsTypeOK
<1>3. HeldAreInHistory' /\ AppendsAreRecent'
  BY <1>1 DEF AccountInv, HeldAreInHistory, AppendsAreRecent
<1>4. LockoutIsEarned'
  BY DEF AccountInv, LockoutIsEarned
<1> QED
  BY <1>2, <1>3, <1>4 DEF AccountInv

\* The insertion looks at the table again: the column is UNIQUE.
LEMMA InsertUserKeepsAccounts ==
    ASSUME AccountInv, NEW t \in Threads, InsertUser(t)
    PROVE  AccountInv'
<1> DEFINE u == logins[t].user
<1>1. u \in Users /\ users' = IF Registered(u) THEN users ELSE Append(users, u)
  BY LoginForms DEF InsertUser, InsertedOnce, AccountInv, AccountsTypeOK
<1>2. users' \in Seq(Users) /\ NamesAreUnique'
  <2>1. CASE Registered(u)
    BY <1>1, <2>1 DEF AccountInv, AccountsTypeOK, NamesAreUnique
  <2>2. CASE ~ Registered(u)
    <3>1. /\ Len(users) \in Nat /\ DOMAIN users = 1 .. Len(users)
          /\ \A i \in DOMAIN users : users[i] # u
      BY <2>2 DEF AccountInv, AccountsTypeOK, Registered, Range
    <3>2. /\ users' \in Seq(Users)
          /\ DOMAIN users' = 1 .. Len(users) + 1
          /\ \A i \in DOMAIN users : users'[i] = users[i]
          /\ users'[Len(users) + 1] = u
      BY <1>1, <2>2, <3>1 DEF AccountInv, AccountsTypeOK
    <3>3. \A i, j \in DOMAIN users' : users'[i] = users'[j] => i = j
      BY <3>1, <3>2 DEF AccountInv, NamesAreUnique, IsInjective
    <3> QED
      BY <3>2, <3>3 DEF NamesAreUnique, IsInjective
  <2> QED
    BY <2>1, <2>2
<1> QED
  BY <1>2, LoginForms, UntouchedAttempts DEF InsertUser, AccountInv, AccountsTypeOK

LEMMA RegisterKeepsAccounts ==
    ASSUME AccountInv, NEW t \in Threads, NEW u \in Users, Register(t, u)
    PROVE  AccountInv'
<1> DEFINE login == [do |-> "insert", user |-> u]
<1>1. login \in Logins /\ login.do # "append"
  BY LoginForms
<1>2. Continue(t, login) /\ UNCHANGED <<users, sessions, attempts, lockouts, failures>>
  BY DEF Register
<1> HIDE DEF login
<1> QED
  BY <1>1, <1>2, UntouchedAttempts
     DEF AccountInv, AccountsTypeOK, NamesAreUnique

LEMMA LogoutKeepsAccounts ==
    ASSUME AccountInv, NEW t \in Threads, Logout(t)
    PROVE  AccountInv'
<1>1. sessions' \in [Threads -> Users \cup {None}]
  BY DEF Logout, AccountInv, AccountsTypeOK
<1>2. Continue(t, Out)
  BY DEF Logout, Continue, AccountInv, AccountsTypeOK
<1> QED
  BY <1>1, <1>2, LoginForms, UntouchedAttempts
     DEF Logout, AccountInv, AccountsTypeOK, NamesAreUnique

-----------------------------------------------------------------------------
LEMMA LoginCheckKeepsAccounts ==
    ASSUME AccountInv, NEW t \in Threads, NEW u \in Users, LoginCheck(t, u)
    PROVE  AccountInv'
<1> DEFINE k == KeyOf[u]
           login == IF LockedOut(KeyOf[u]) THEN Out ELSE [do |-> "verify", user |-> u]
<1>1. k \in Keys /\ login \in Logins /\ login.do # "append"
  BY LoginForms DEF Keys
<1>2. /\ logins' = Stale(k, t, login) /\ Prune(k)
      /\ UNCHANGED <<users, sessions, lockouts, failures>>
  BY DEF LoginCheck
<1> HIDE DEF login, k
<1>3. /\ logins' \in [Threads -> Logins] /\ logins'[t] = login
      /\ \A v \in Threads \ {t} :
            logins'[v].do = "append" =>
               /\ logins[v].do = "append"
               /\ logins'[v].user = logins[v].user
               /\ logins'[v].failure = logins[v].failure
               /\ logins'[v].list = logins[v].list
               /\ KeyOf[logins[v].user] = k => logins'[v].stale
               /\ KeyOf[logins[v].user] # k => logins'[v].stale = logins[v].stale
  BY <1>1, <1>2, StaleFacts DEF AccountInv
<1>4. /\ attempts' \in [Keys -> SUBSET Nat]
      /\ \A q \in Keys : attempts'[q] \subseteq attempts[q]
      /\ \A q \in Keys : q # k => attempts'[q] = attempts[q]
  BY <1>1, <1>2 DEF Prune, Recent, AccountInv, AccountsTypeOK
<1>5. AccountsTypeOK'
  BY <1>2, <1>3, <1>4 DEF AccountInv, AccountsTypeOK
<1>6. HeldAreInHistory'
  BY <1>1, <1>2, <1>3, <1>4, KeysOfLogins DEF AccountInv, HeldAreInHistory
<1>7. AppendsAreRecent'
  <2> SUFFICES ASSUME NEW v \in Threads, logins'[v].do = "append",
                      NEW n \in logins'[v].list \cup {logins'[v].failure}
                           \cup (IF logins'[v].stale THEN {}
                                 ELSE attempts'[KeyOf[logins'[v].user]])
               PROVE  failures'[KeyOf[logins'[v].user]][n] <= Window
    BY DEF AppendsAreRecent
  <2>1. /\ v # t /\ logins[v].do = "append"
        /\ logins'[v].user = logins[v].user
    BY <1>1, <1>3
  <2>2. KeyOf[logins[v].user] \in Keys
    BY <2>1, KeysOfLogins DEF AccountInv
  <2>3. n \in logins[v].list \cup {logins[v].failure}
               \cup (IF logins[v].stale THEN {} ELSE attempts[KeyOf[logins[v].user]])
    BY <1>3, <1>4, <2>1, <2>2
  <2> QED
    BY <1>2, <2>1, <2>3 DEF AccountInv, AppendsAreRecent
<1>8. LockoutIsEarned' /\ NamesAreUnique'
  BY <1>2 DEF AccountInv, LockoutIsEarned, NamesAreUnique
<1> QED
  BY <1>5, <1>6, <1>7, <1>8 DEF AccountInv

LEMMA LoginSucceedsKeepsAccounts ==
    ASSUME AccountInv, NEW t \in Threads, LoginSucceeds(t)
    PROVE  AccountInv'
<1> DEFINE k == KeyOf[logins[t].user]
<1>1. k \in Keys /\ logins[t].user \in Users /\ Out \in Logins /\ Out.do # "append"
  BY LoginForms, KeysOfLogins DEF LoginSucceeds, AccountInv
<1>2. /\ logins' = Stale(k, t, Out)
      /\ attempts' = [attempts EXCEPT ![k] = {}]
      /\ lockouts' = [lockouts EXCEPT ![k] = 0]
      /\ sessions' = [sessions EXCEPT ![t] = logins[t].user]
      /\ UNCHANGED <<users, failures>>
  BY DEF LoginSucceeds
<1> HIDE DEF k
<1>3. /\ logins' \in [Threads -> Logins] /\ logins'[t] = Out
      /\ \A v \in Threads \ {t} :
            logins'[v].do = "append" =>
               /\ logins[v].do = "append"
               /\ logins'[v].user = logins[v].user
               /\ logins'[v].failure = logins[v].failure
               /\ logins'[v].list = logins[v].list
               /\ KeyOf[logins[v].user] = k => logins'[v].stale
               /\ KeyOf[logins[v].user] # k => logins'[v].stale = logins[v].stale
  BY <1>1, <1>2, StaleFacts DEF AccountInv
<1>4. /\ attempts' \in [Keys -> SUBSET Nat]
      /\ \A q \in Keys : attempts'[q] \subseteq attempts[q]
      /\ \A q \in Keys : q # k => attempts'[q] = attempts[q]
  BY <1>1, <1>2 DEF AccountInv, AccountsTypeOK
<1>5. /\ lockouts' \in [Keys -> 0 .. Lockout]
      /\ \A q \in Keys : lockouts'[q] > 0 => lockouts'[q] = lockouts[q]
  BY <1>1, <1>2, AccountsAssumption DEF AccountInv, AccountsTypeOK
<1>6. AccountsTypeOK'
  BY <1>1, <1>2, <1>3, <1>4, <1>5 DEF AccountInv, AccountsTypeOK
<1>7. HeldAreInHistory'
  BY <1>1, <1>2, <1>3, <1>4, KeysOfLogins DEF AccountInv, HeldAreInHistory
<1>8. AppendsAreRecent'
  <2> SUFFICES ASSUME NEW v \in Threads, logins'[v].do = "append",
                      NEW n \in logins'[v].list \cup {logins'[v].failure}
                           \cup (IF logins'[v].stale THEN {}
                                 ELSE attempts'[KeyOf[logins'[v].user]])
               PROVE  failures'[KeyOf[logins'[v].user]][n] <= Window
    BY DEF AppendsAreRecent
  <2>1. /\ v # t /\ logins[v].do = "append"
        /\ logins'[v].user = logins[v].user
    BY <1>1, <1>3
  <2>2. KeyOf[logins[v].user] \in Keys
    BY <2>1, KeysOfLogins DEF AccountInv
  <2>3. n \in logins[v].list \cup {logins[v].failure}
               \cup (IF logins[v].stale THEN {} ELSE attempts[KeyOf[logins[v].user]])
    BY <1>3, <1>4, <2>1, <2>2
  <2> QED
    BY <1>2, <2>1, <2>3 DEF AccountInv, AppendsAreRecent
<1>9. LockoutIsEarned' /\ NamesAreUnique'
  BY <1>2, <1>5 DEF AccountInv, LockoutIsEarned, NamesAreUnique
<1> QED
  BY <1>6, <1>7, <1>8, <1>9 DEF AccountInv

\* A failure that is added to the history changes nothing of what was there.
LEMMA LoginFailsKeepsAccounts ==
    ASSUME AccountInv, NEW t \in Threads, LoginFails(t)
    PROVE  AccountInv'
<1> DEFINE k == KeyOf[logins[t].user]
           last == Len(failures[k]) + 1
           login == [do |-> "append", user |-> logins[t].user, failure |-> last,
                     list |-> Recent(k), stale |-> FALSE]
<1>1. k \in Keys /\ logins[t].user \in Users
  BY KeysOfLogins DEF LoginFails, AccountInv
<1>2. /\ last \in Nat /\ failures[k] \in Seq(0 .. Oldest)
      /\ DOMAIN failures[k] = 1 .. last - 1
  BY <1>1 DEF AccountInv, AccountsTypeOK
<1>3. Recent(k) \in SUBSET Nat /\ login \in Logins
  BY <1>1, <1>2 DEF Recent, AccountInv, AccountsTypeOK, Logins
<1>4. /\ logins' = Stale(k, t, login) /\ Prune(k)
      /\ failures' = [failures EXCEPT ![k] = Append(@, 0)]
      /\ UNCHANGED <<users, sessions, lockouts>>
  BY DEF LoginFails
<1>5. /\ 0 <= Window /\ 0 \in 0 .. Oldest
  BY AccountsAssumption DEF Oldest
<1>6. /\ failures' \in [Keys -> Seq(0 .. Oldest)]
      /\ failures'[k][last] = 0 /\ last \in DOMAIN failures'[k]
      /\ \A q \in Keys : /\ DOMAIN failures[q] \subseteq DOMAIN failures'[q]
                         /\ \A n \in DOMAIN failures[q] : failures'[q][n] = failures[q][n]
  <2>1. /\ failures'[k] = Append(failures[k], 0)
        /\ \A q \in Keys : q # k => failures'[q] = failures[q]
        /\ DOMAIN failures' = Keys
        /\ failures' = [q \in Keys |-> failures'[q]]
    BY <1>1, <1>4 DEF AccountInv, AccountsTypeOK
  <2>2. /\ failures'[k] \in Seq(0 .. Oldest)
        /\ DOMAIN failures'[k] = 1 .. last
        /\ failures'[k][last] = 0
        /\ \A n \in 1 .. last - 1 : failures'[k][n] = failures[k][n]
    BY <1>2, <1>5, <2>1
  <2>3. \A q \in Keys : failures'[q] \in Seq(0 .. Oldest)
    BY <2>1, <2>2 DEF AccountInv, AccountsTypeOK
  <2>4. failures' \in [Keys -> Seq(0 .. Oldest)]
    BY <2>1, <2>3
  <2>5. ASSUME NEW q \in Keys, NEW n \in DOMAIN failures[q]
        PROVE  n \in DOMAIN failures'[q] /\ failures'[q][n] = failures[q][n]
    <3>1. CASE q = k
      BY <1>2, <2>2, <3>1
    <3> QED
      BY <2>1, <3>1
  <2> QED
    BY <1>2, <2>2, <2>4, <2>5
<1>7. /\ logins' \in [Threads -> Logins] /\ logins'[t] = login
      /\ \A v \in Threads \ {t} :
            logins'[v].do = "append" =>
               /\ logins[v].do = "append"
               /\ logins'[v].user = logins[v].user
               /\ logins'[v].failure = logins[v].failure
               /\ logins'[v].list = logins[v].list
               /\ KeyOf[logins[v].user] = k => logins'[v].stale
               /\ KeyOf[logins[v].user] # k => logins'[v].stale = logins[v].stale
  <2> HIDE DEF login, k
  <2> QED
    BY <1>3, <1>4, StaleFacts DEF AccountInv
<1>8. login.user = logins[t].user /\ login.failure = last /\ login.list = Recent(k)
  OBVIOUS
<1> HIDE DEF login, k, last
<1>9. /\ attempts' \in [Keys -> SUBSET Nat]
      /\ attempts'[k] = Recent(k)
      /\ \A q \in Keys : q # k => attempts'[q] = attempts[q]
  BY <1>1, <1>4 DEF Prune, Recent, AccountInv, AccountsTypeOK
<1>10. AccountsTypeOK'
  BY <1>4, <1>6, <1>7, <1>9 DEF AccountInv, AccountsTypeOK
<1>11. /\ Recent(k) \subseteq DOMAIN failures[k]
       /\ \A n \in Recent(k) : failures[k][n] <= Window
  BY <1>1 DEF Recent, AccountInv, HeldAreInHistory
<1>12. ASSUME NEW v \in Threads, logins'[v].do = "append"
       PROVE  /\ logins'[v].list \cup {logins'[v].failure}
                    \subseteq DOMAIN failures'[KeyOf[logins'[v].user]]
              /\ LET q == KeyOf[logins'[v].user]
                 IN  \A n \in logins'[v].list \cup {logins'[v].failure}
                              \cup (IF logins'[v].stale THEN {} ELSE attempts'[q]) :
                        failures'[q][n] <= Window
  <2>1. CASE v = t
    <3>1. KeyOf[logins'[v].user] = k
      BY <1>7, <1>8, <2>1 DEF k
    <3> QED
      BY <1>1, <1>5, <1>6, <1>7, <1>8, <1>9, <1>11, <2>1, <3>1
  <2>2. CASE v # t
    <3>1. KeyOf[logins[v].user] \in Keys
      BY <1>7, <1>12, <2>2, KeysOfLogins DEF AccountInv
    <3>2. /\ logins[v].do = "append" /\ logins'[v].user = logins[v].user
          /\ logins'[v].list \cup {logins'[v].failure}
                \subseteq DOMAIN failures[KeyOf[logins[v].user]]
      BY <1>7, <1>12, <2>2 DEF AccountInv, HeldAreInHistory
    <3>3. ASSUME NEW n \in logins'[v].list \cup {logins'[v].failure}
                             \cup (IF logins'[v].stale THEN {}
                                   ELSE attempts'[KeyOf[logins[v].user]])
          PROVE  /\ n \in DOMAIN failures[KeyOf[logins[v].user]]
                 /\ failures[KeyOf[logins[v].user]][n] <= Window
      <4>1. n \in logins[v].list \cup {logins[v].failure}
                   \cup (IF logins[v].stale THEN {} ELSE attempts[KeyOf[logins[v].user]])
        BY <1>7, <1>9, <1>12, <2>2, <3>1, <3>3
      <4> QED
        BY <3>1, <3>2, <4>1 DEF AccountInv, HeldAreInHistory, AppendsAreRecent
    <3> QED
      BY <1>6, <3>1, <3>2, <3>3
  <2> QED
    BY <2>1, <2>2
<1>13. \A q \in Keys : attempts'[q] \subseteq DOMAIN failures'[q]
  BY <1>1, <1>6, <1>9, <1>11 DEF AccountInv, HeldAreInHistory
<1>14. HeldAreInHistory' /\ AppendsAreRecent'
  BY <1>12, <1>13 DEF HeldAreInHistory, AppendsAreRecent
<1>15. LockoutIsEarned'
  <2>1. \A q \in Keys : \A age : Since(failures[q], age) \subseteq Since(failures'[q], age)
    BY <1>6 DEF Since
  <2> QED
    BY <1>4, <1>10, <2>1, LockoutsStayEarned
<1> QED
  BY <1>4, <1>10, <1>14, <1>15 DEF AccountInv, NamesAreUnique

\* The list that reaches the limit is a list of recent failures.
LEMMA RecordFailureKeepsAccounts ==
    ASSUME AccountInv, NEW t \in Threads, RecordFailure(t)
    PROVE  AccountInv'
<1> DEFINE j == logins[t]
           k == KeyOf[j.user]
           list == (IF j.stale THEN j.list ELSE attempts[k]) \cup {j.failure}
<1>1. /\ k \in Keys /\ j.do = "append"
      /\ j \in [do : {"append"}, user : Users, failure : Nat, list : SUBSET Nat,
                stale : BOOLEAN]
  BY KeysOfLogins, LoginForms DEF RecordFailure, AccountInv, AccountsTypeOK
<1>2. /\ attempts' = IF j.stale THEN attempts ELSE [attempts EXCEPT ![k] = list]
      /\ lockouts' = IF LimitReached(Cardinality(list))
                     THEN [lockouts EXCEPT ![k] = Lockout] ELSE lockouts
      /\ Continue(t, Out)
      /\ UNCHANGED <<users, sessions, failures>>
  BY DEF RecordFailure
<1>3. /\ list \in SUBSET Nat
      /\ list \subseteq DOMAIN failures[k]
      /\ \A n \in list : failures[k][n] <= Window
  BY <1>1 DEF AccountInv, AccountsTypeOK, HeldAreInHistory, AppendsAreRecent
<1>4. /\ logins' \in [Threads -> Logins]
      /\ logins'[t] = Out
      /\ \A v \in Threads \ {t} : logins'[v] = logins[v]
  BY <1>2, LoginForms, ContinueFacts DEF AccountInv
<1>5. /\ attempts' \in [Keys -> SUBSET Nat]
      /\ \A q \in Keys : q # k => attempts'[q] = attempts[q]
      /\ attempts'[k] \in {attempts[k], list}
  BY <1>1, <1>2, <1>3 DEF AccountInv, AccountsTypeOK
<1>6. /\ lockouts' \in [Keys -> 0 .. Lockout]
      /\ \A q \in Keys : \/ lockouts'[q] = lockouts[q]
                         \/ /\ q = k /\ lockouts'[q] = Lockout
                            /\ LimitReached(Cardinality(list))
  BY <1>1, <1>2, AccountsAssumption DEF AccountInv, AccountsTypeOK
<1> HIDE DEF list
<1>7. AccountsTypeOK'
  BY <1>2, <1>4, <1>5, <1>6 DEF AccountInv, AccountsTypeOK
<1>8. HeldAreInHistory'
  BY <1>1, <1>2, <1>3, <1>4, <1>5, LoginForms DEF AccountInv, HeldAreInHistory
<1>9. AppendsAreRecent'
  <2> SUFFICES ASSUME NEW v \in Threads, logins'[v].do = "append",
                      NEW n \in logins'[v].list \cup {logins'[v].failure}
                           \cup (IF logins'[v].stale THEN {}
                                 ELSE attempts'[KeyOf[logins'[v].user]])
               PROVE  failures'[KeyOf[logins'[v].user]][n] <= Window
    BY DEF AppendsAreRecent
  <2>1. v # t /\ logins'[v] = logins[v]
    BY <1>4, LoginForms
  <2>2. KeyOf[logins[v].user] \in Keys
    BY <2>1, KeysOfLogins DEF AccountInv
  <2> QED
    BY <1>2, <1>3, <1>5, <2>1, <2>2 DEF AccountInv, AppendsAreRecent
<1>10. Cardinality(list) >= Limit => Cardinality(Since(failures[k], Window)) >= Limit
  <2> HIDE DEF k
  <2>1. list \subseteq Since(failures[k], Window)
    BY <1>3 DEF Since
  <2>2. IsFiniteSet(Since(failures[k], Window))
    BY <1>1, HistoryIsFinite DEF AccountInv, AccountsTypeOK
  <2>3. /\ Cardinality(list) \in Nat /\ Cardinality(Since(failures[k], Window)) \in Nat
        /\ Cardinality(list) <= Cardinality(Since(failures[k], Window))
    BY <2>1, <2>2, FS_Subset, FS_CardinalityType
  <2> QED
    BY <2>3, AccountsAssumption
<1>11. LockoutIsEarned'
  <2> SUFFICES ASSUME NEW q \in Keys, lockouts'[q] > 0
               PROVE  Cardinality(Since(failures[q], Window + Lockout - lockouts'[q])) >= Limit
    BY <1>2 DEF LockoutIsEarned, Since
  <2>1. CASE lockouts'[q] = lockouts[q]
    BY <2>1 DEF AccountInv, LockoutIsEarned, Since
  <2>2. CASE q = k /\ lockouts'[q] = Lockout /\ LimitReached(Cardinality(list))
    <3>1. Window + Lockout - Lockout = Window
      BY AccountsAssumption
    <3> QED
      BY <1>10, <2>2, <3>1 DEF LimitReached
  <2> QED
    BY <1>6, <2>1, <2>2
<1> QED
  BY <1>2, <1>7, <1>8, <1>9, <1>11 DEF AccountInv, NamesAreUnique

\* Failures and lockouts age together.
LEMMA TimePassesKeepsAccounts ==
    ASSUME AccountInv, TimePasses
    PROVE  AccountInv'
<1>1. /\ \A t \in Threads : logins[t].do # "append"
      /\ DOMAIN failures' = Keys /\ DOMAIN lockouts' = Keys
      /\ failures' = [k \in Keys |-> failures'[k]]
      /\ lockouts' = [k \in Keys |-> lockouts'[k]]
      /\ \A k \in Keys :
            /\ failures'[k] = [n \in DOMAIN failures[k] |-> Older(failures[k][n])]
            /\ lockouts'[k] = IF lockouts[k] > 0 THEN lockouts[k] - 1 ELSE 0
      /\ UNCHANGED <<users, sessions, attempts, logins>>
  BY DEF TimePasses
<1>2. Window \in Nat /\ Lockout \in Nat /\ Oldest = Window + Lockout + 1
  BY AccountsAssumption DEF Oldest
<1>3. \A age \in 0 .. Oldest : Older(age) \in 0 .. Oldest
  BY <1>2 DEF Older
<1>4. ASSUME NEW k \in Keys
      PROVE  /\ failures'[k] \in Seq(0 .. Oldest)
             /\ DOMAIN failures'[k] = DOMAIN failures[k]
             /\ lockouts'[k] \in 0 .. Lockout
  <2>1. failures[k] \in Seq(0 .. Oldest) /\ lockouts[k] \in 0 .. Lockout
    BY DEF AccountInv, AccountsTypeOK
  <2>2. /\ DOMAIN failures[k] = 1 .. Len(failures[k]) /\ Len(failures[k]) \in Nat
        /\ \A n \in DOMAIN failures[k] : failures[k][n] \in 0 .. Oldest
    BY <2>1, HistoryFacts
  <2>3. \A n \in DOMAIN failures[k] : Older(failures[k][n]) \in 0 .. Oldest
    BY <1>3, <2>2
  <2>4. failures'[k] \in Seq(0 .. Oldest)
    <3>1. /\ DOMAIN failures'[k] = 1 .. Len(failures[k])
          /\ failures'[k] = [n \in 1 .. Len(failures[k]) |-> failures'[k][n]]
          /\ \A n \in 1 .. Len(failures[k]) : failures'[k][n] \in 0 .. Oldest
      BY <1>1, <2>2, <2>3
    <3> QED
      BY <2>2, <3>1, HistoryForm
  <2> QED
    BY <1>1, <1>2, <2>1, <2>4
<1>5. AccountsTypeOK'
  BY <1>1, <1>4 DEF AccountInv, AccountsTypeOK
<1>6. HeldAreInHistory' /\ AppendsAreRecent'
  BY <1>1, <1>4 DEF AccountInv, HeldAreInHistory, AppendsAreRecent
<1>7. ASSUME NEW k \in Keys, lockouts'[k] > 0
      PROVE  /\ lockouts[k] > 0
             /\ Since(failures[k], Window + Lockout - lockouts[k])
                   \subseteq Since(failures'[k], Window + Lockout - lockouts'[k])
  <2>1. lockouts[k] \in 0 .. Lockout /\ lockouts'[k] = lockouts[k] - 1 /\ lockouts[k] > 0
    BY <1>1, <1>2, <1>7 DEF AccountInv, AccountsTypeOK
  <2>2. ASSUME NEW n \in DOMAIN failures[k],
               failures[k][n] <= Window + Lockout - lockouts[k]
        PROVE  failures'[k][n] <= Window + Lockout - lockouts'[k]
    <3>1. failures[k][n] \in 0 .. Oldest /\ failures'[k][n] = Older(failures[k][n])
      BY <1>1, HistoryFacts DEF AccountInv, AccountsTypeOK
    <3> QED
      BY <1>2, <2>1, <2>2, <3>1 DEF Older
  <2> QED
    BY <1>4, <2>1, <2>2 DEF Since
<1>8. LockoutIsEarned'
  BY <1>5, <1>7, LockoutsStayEarned
<1> QED
  BY <1>1, <1>5, <1>6, <1>8 DEF AccountInv, NamesAreUnique

-----------------------------------------------------------------------------
LEMMA InitAccounts == AccountsInit => AccountInv
<1> SUFFICES ASSUME AccountsInit PROVE AccountInv
  OBVIOUS
<1>1. AccountsTypeOK
  BY AccountsAssumption, LoginForms DEF AccountsInit, AccountsTypeOK
<1>2. NamesAreUnique
  BY DEF AccountsInit, NamesAreUnique, IsInjective
<1>3. HeldAreInHistory /\ AppendsAreRecent /\ LockoutIsEarned
  BY LoginForms
     DEF AccountsInit, HeldAreInHistory, AppendsAreRecent, LockoutIsEarned
<1> QED
  BY <1>1, <1>2, <1>3 DEF AccountInv

LEMMA NextKeepsAccounts == AccountInv /\ [AccountsNext]_accountVars => AccountInv'
<1> SUFFICES ASSUME AccountInv, [AccountsNext]_accountVars PROVE AccountInv'
  OBVIOUS
<1>1. ASSUME NEW t \in Threads, AccountRequest(t)
      PROVE  AccountInv'
  BY <1>1, RegisterKeepsAccounts, LoginCheckKeepsAccounts, LogoutKeepsAccounts
     DEF AccountRequest
<1>2. ASSUME NEW t \in Threads, AccountWork(t)
      PROVE  AccountInv'
  BY <1>2, InsertUserKeepsAccounts, LoginSucceedsKeepsAccounts, LoginFailsKeepsAccounts,
     RecordFailureKeepsAccounts DEF AccountWork
<1>3. CASE UNCHANGED accountVars
  BY <1>3 DEF accountVars, AccountInv, AccountsTypeOK, NamesAreUnique, HeldAreInHistory,
              AppendsAreRecent, LockoutIsEarned
<1> QED
  BY <1>1, <1>2, <1>3, TimePassesKeepsAccounts DEF AccountsNext

\* Two registrations of one name that both found it free make one account
\* (web/app.py, register_submit and the users table).
THEOREM NamesStayUnique == AccountsSpec => []NamesAreUnique
<1>1. AccountInv => NamesAreUnique
  BY DEF AccountInv
<1> QED
  BY <1>1, InitAccounts, NextKeepsAccounts, PTL DEF AccountsSpec

\* Whatever the requests of a key lose of each other's records, a lockout has
\* as many failed logins behind it as FAILED_LOGIN_LIMIT says, within
\* FAILED_LOGIN_WINDOW_SECONDS of its start (web/app.py, record_failed_login).
THEOREM LockoutsAreEarned == AccountsSpec => []LockoutIsEarned
<1>1. AccountInv => LockoutIsEarned
  BY DEF AccountInv
<1> QED
  BY <1>1, InitAccounts, NextKeepsAccounts, PTL DEF AccountsSpec

-----------------------------------------------------------------------------
\* The loader.

\* A list of checks is fine if each of them is, and else is what one of them is.
LEMMA FirstOfChecks ==
    ASSUME NEW checks, DOMAIN checks \subseteq Nat
    PROVE  /\ FirstOf(checks) = Fine => \A n \in DOMAIN checks : checks[n] = Fine
           /\ FirstOf(checks) # Fine => \E n \in DOMAIN checks : FirstOf(checks) = checks[n]
<1> DEFINE failed == {n \in DOMAIN checks : checks[n] # Fine}
<1>1. CASE failed = {}
  BY <1>1 DEF FirstOf
<1>2. CASE failed # {}
  <2> DEFINE first == CHOOSE n \in failed : \A m \in failed : n <= m
  <2>1. first \in failed
    <3>1. \E n \in failed : \A m \in failed : n <= m
      BY <1>2, LeastIsThere
    <3> QED
      BY <3>1
  <2>2. FirstOf(checks) = checks[first]
    BY <1>2 DEF FirstOf
  <2> QED
    BY <2>1, <2>2
<1> QED
  BY <1>1, <1>2

LEMMA CheckFacts ==
    /\ Fine # ValueError /\ Fine # Uncaught /\ ValueError # Uncaught
    /\ \A ok : /\ Require(ok) \in {Fine, ValueError}
               /\ Require(ok) = Fine => ok
    /\ \A value, supported :
          /\ Lookup(value, supported) \in {Fine, ValueError, Uncaught}
          /\ Lookup(value, supported) = Fine => value \in supported
          /\ IntegerIn(value, supported) \in {Fine, ValueError, Uncaught}
          /\ IntegerIn(value, supported) = Fine => value \in supported
BY DEF Require, Lookup, IntegerIn, Fine, ValueError, Uncaught

\* What a point is that passes its checks.
PointIsFine(points, n) ==
    LET p == points[n]
    IN  /\ ~ DuplicateId(points, n) /\ ~ DuplicateAddress(points, n)
        /\ p.kind \in PointKinds /\ p.address \in Nat /\ p.access \in AccessModes
        /\ p.scale # 0 /\ p.modes \subseteq FaultModeNames

LEMMA PointOutcomes ==
    ASSUME NEW points, NEW n
    PROVE  /\ FirstOf(PointChecks(points, n)) \in {Fine, ValueError, Uncaught}
           /\ FirstOf(PointChecks(points, n)) = Fine => PointIsFine(points, n)
<1> DEFINE p == points[n]
           checks == PointChecks(points, n)
<1>1. /\ DOMAIN checks = 1 .. 8
      /\ checks[1] = Require(p.id # Missing)
      /\ checks[2] = Require(~ DuplicateId(points, n))
      /\ checks[3] = Lookup(p.kind, PointKinds)
      /\ checks[4] = IntegerIn(p.address, Nat)
      /\ checks[5] = Lookup(p.access, AccessModes)
      /\ checks[6] = Require(p.scale \notin {Text, 0})
      /\ checks[7] = Require(p.modes = {} \/ p.modes \subseteq FaultModeNames)
      /\ checks[8] = Require(~ DuplicateAddress(points, n))
  BY DEF PointChecks
<1>2. \A i \in 1 .. 8 : checks[i] \in {Fine, ValueError, Uncaught}
  <2> HIDE DEF checks
  <2>1. \A i \in 1 .. 8 : i \in {1, 2, 3, 4, 5, 6, 7, 8}
    OBVIOUS
  <2> QED
    BY <1>1, <2>1, CheckFacts
<1>3. ASSUME \A i \in 1 .. 8 : checks[i] = Fine
      PROVE  PointIsFine(points, n)
  <2> HIDE DEF checks
  <2>1. /\ checks[2] = Fine /\ checks[3] = Fine /\ checks[4] = Fine /\ checks[5] = Fine
        /\ checks[6] = Fine /\ checks[7] = Fine /\ checks[8] = Fine
    BY <1>3
  <2> QED
    BY <1>1, <2>1, CheckFacts DEF PointIsFine
<1> HIDE DEF checks
<1> QED
  BY <1>1, <1>2, <1>3, FirstOfChecks DEF checks

LEMMA DeviceOutcomes ==
    ASSUME NEW d, IsFile(d)
    PROVE  /\ Outcome(d) \in {Fine, ValueError, Uncaught}
           /\ Outcome(d) = Fine => Sound(d)
<1>1. CASE d = Malformed
  BY <1>1, CheckFacts DEF Outcome
<1>2. CASE d # Malformed
  <2> DEFINE all == [n \in DOMAIN d.points |-> FirstOf(PointChecks(d.points, n))]
             checks == DeviceChecks(d)
  <2>1. PICK m \in Nat : DOMAIN d.points = 1 .. m
    BY <1>2 DEF IsFile
  <2>2. /\ FirstOf(all) \in {Fine, ValueError, Uncaught}
        /\ FirstOf(all) = Fine => \A n \in 1 .. m : PointIsFine(d.points, n)
    <3>1. DOMAIN all = 1 .. m /\ 1 .. m \subseteq Nat
      BY <2>1
    <3>2. \A n \in 1 .. m : /\ all[n] \in {Fine, ValueError, Uncaught}
                            /\ all[n] = Fine => PointIsFine(d.points, n)
      BY <2>1, PointOutcomes
    <3> HIDE DEF all
    <3> QED
      BY <3>1, <3>2, FirstOfChecks
  <2>3. /\ DOMAIN checks = 1 .. 6
        /\ checks[1] = Require(d.id # Missing)
        /\ checks[2] = Require(d.protocol # Missing)
        /\ checks[3] = IntegerIn(d.port, Ports)
        /\ checks[4] = Require(d.simulation \in SimulationTypes)
        /\ checks[5] = Require(d.points # <<>>)
        /\ checks[6] = FirstOf(all)
    BY DEF DeviceChecks, PointsOutcome
  <2>4. Outcome(d) = FirstOf(checks) /\ 1 .. 6 \subseteq Nat
    BY <1>2 DEF Outcome
  <2> HIDE DEF checks, all
  <2>5. Outcome(d) \in {Fine, ValueError, Uncaught}
    <3>1. \A i \in 1 .. 6 : i \in {1, 2, 3, 4, 5, 6}
      OBVIOUS
    <3>2. \A i \in 1 .. 6 : checks[i] \in {Fine, ValueError, Uncaught}
      BY <2>2, <2>3, <3>1, CheckFacts
    <3> QED
      BY <2>3, <2>4, <3>2, FirstOfChecks
  <2>6. ASSUME Outcome(d) = Fine
        PROVE  Sound(d)
    <3>1. checks[3] = Fine /\ checks[4] = Fine /\ checks[6] = Fine
      <4>1. \A i \in 1 .. 6 : checks[i] = Fine
        BY <2>3, <2>4, <2>6, FirstOfChecks
      <4> QED
        BY <4>1
    <3>2. d.port \in Ports /\ d.simulation \in SimulationTypes
      BY <2>3, <3>1, CheckFacts
    <3>3. \A n \in 1 .. m : PointIsFine(d.points, n)
      BY <2>2, <2>3, <3>1
    <3>4. ASSUME NEW n \in 1 .. m, NEW k \in 1 .. m, k # n
          PROVE  /\ d.points[k].id # d.points[n].id
                 /\ <<d.points[k].kind, d.points[k].address>>
                       # <<d.points[n].kind, d.points[n].address>>
      <4>1. CASE k < n
        <5>1. k \in 1 .. n - 1 /\ PointIsFine(d.points, n)
          BY <3>3, <4>1
        <5> QED
          BY <5>1 DEF PointIsFine, DuplicateId, DuplicateAddress
      <4>2. CASE n < k
        <5>1. n \in 1 .. k - 1 /\ PointIsFine(d.points, k)
          BY <3>3, <4>2
        <5> QED
          BY <5>1 DEF PointIsFine, DuplicateId, DuplicateAddress
      <4> QED
        BY <3>4, <4>1, <4>2
    <3> QED
      BY <2>1, <3>2, <3>3, <3>4 DEF Sound, PointIsFine
  <2> QED
    BY <2>5, <2>6
<1> QED
  BY <1>1, <1>2

\* Of the fine files with an id, the first is loaded.
LEMMA FirstIsLoaded ==
    ASSUME NEW last \in Nat, NEW files, DOMAIN files = 1 .. last,
           NEW n \in 1 .. last, Outcome(files[n]) = Fine
    PROVE  \E m \in LoadedFiles(files) : files[m].id = files[n].id
<1> DEFINE same == {m \in DOMAIN files : Outcome(files[m]) = Fine /\ files[m].id = files[n].id}
<1>1. same # {} /\ same \subseteq Nat
  OBVIOUS
<1>2. PICK m \in same : \A k \in same : m <= k
  BY <1>1, LeastIsThere
<1>3. ~ IsDuplicate(files, m)
  <2> SUFFICES ASSUME NEW k \in 1 .. m - 1, Outcome(files[k]) = Fine,
                      files[k].id = files[m].id
               PROVE  FALSE
    BY DEF IsDuplicate
  <2>1. m \in Nat /\ k < m /\ k \in same
    BY <1>2
  <2> QED
    BY <1>2, <2>1
<1> QED
  BY <1>2, <1>3 DEF LoadedFiles

\* A device that is loaded is one of the types.
LEMMA LoadedAreNamed ==
    ASSUME NEW files, \A n \in DOMAIN files : files[n] \in Files
    PROVE  \A n \in LoadedFiles(files) : files[n].id \in Types
<1> SUFFICES ASSUME NEW n \in LoadedFiles(files)
             PROVE  files[n].id \in Types
  OBVIOUS
<1>1. n \in DOMAIN files /\ Outcome(files[n]) = Fine
  BY DEF LoadedFiles
<1>2. files[n] # Malformed
  BY <1>1, CheckFacts DEF Outcome
<1> QED
  BY <1>1, <1>2, WebAssumption DEF IsFile

\* The types are the process's own or stand for a loader that raised.
LEMMA TypesAreNamed ==
    ASSUME NEW files \in Seq(Files)
    PROVE  TypesOf(files) \in (SUBSET Types) \cup {{Raises}}
<1>1. \A n \in DOMAIN files : files[n] \in Files
  OBVIOUS
<1> QED
  BY <1>1, LoadedAreNamed DEF TypesOf, LoadedIds

LEMMA LoadedHaveTheirChecks ==
    ASSUME directory \in Seq(Files), types = TypesOf(directory)
    PROVE  LoadedTypesAreSound
<1> DEFINE fine == {n \in DOMAIN directory : Outcome(directory[n]) = Fine}
<1>1. /\ DOMAIN directory = 1 .. Len(directory) /\ Len(directory) \in Nat
      /\ \A n \in DOMAIN directory : directory[n] \in Files
  OBVIOUS
<1>2. ~ Loads <=> LoadRaises(directory)
  <2>1. ASSUME ~ LoadRaises(directory)
        PROVE  Loads
    <3>1. \A n \in LoadedFiles(directory) : directory[n].id \in Types
      BY <1>1, <2>1, LoadedAreNamed
    <3> QED
      BY <2>1, <3>1, StoreAssumption DEF TypesOf, Loads, LoadedIds
  <2> QED
    BY <2>1 DEF TypesOf, Loads
<1>3. ASSUME Loads
      PROVE  /\ types = {directory[n].id : n \in fine}
             /\ \A id \in types : Sound(Definition(directory, id))
             /\ Errors(directory) = DOMAIN directory \ LoadedFiles(directory)
  <2>1. ~ LoadRaises(directory) /\ types = LoadedIds(directory)
    BY <1>2, <1>3 DEF TypesOf
  <2>2. \A n \in DOMAIN directory :
           /\ Outcome(directory[n]) \in {Fine, ValueError}
           /\ Outcome(directory[n]) = Fine => Sound(directory[n])
    BY <1>1, <2>1, WebAssumption, DeviceOutcomes DEF LoadRaises
  <2>3. ASSUME NEW id \in types
        PROVE  Sound(Definition(directory, id))
    <3>1. \E n \in LoadedFiles(directory) : directory[n].id = id
      BY <2>1 DEF LoadedIds
    <3>2. PICK n \in LoadedFiles(directory) : Definition(directory, id) = directory[n]
      BY <3>1 DEF Definition
    <3> QED
      BY <2>2, <3>2 DEF LoadedFiles
  <2>4. Errors(directory) = DOMAIN directory \ LoadedFiles(directory)
    BY <2>2, CheckFacts DEF Errors, LoadedFiles
  <2>5. types = {directory[n].id : n \in fine}
    <3>1. ASSUME NEW n \in DOMAIN directory, Outcome(directory[n]) = Fine
          PROVE  directory[n].id \in LoadedIds(directory)
      <4>1. PICK m \in LoadedFiles(directory) : directory[m].id = directory[n].id
        BY <1>1, <3>1, FirstIsLoaded
      <4> QED
        BY <4>1 DEF LoadedIds
    <3> QED
      BY <2>1, <3>1 DEF LoadedIds, LoadedFiles
  <2> QED
    BY <2>3, <2>4, <2>5
<1> QED
  BY <1>2, <1>3 DEF LoadedTypesAreSound, LoadRaises

-----------------------------------------------------------------------------
\* The web application.

\* What accounts, tables and the directory satisfy together.
WebInv ==
    /\ RowInv /\ TagInv /\ StoreInv /\ AccountInv
    /\ directory \in Seq(Files) /\ left \in Nat
    /\ types = TypesOf(directory)

LEMMA RowsAreSequences ==
    ASSUME NEW S, NEW rows \in Seq(S)
    PROVE  /\ Len(rows) \in Nat /\ DOMAIN rows = 1 .. Len(rows)
           /\ rows = [n \in DOMAIN rows |-> rows[n]]
           /\ \A n \in DOMAIN rows : rows[n] \in S
OBVIOUS

LEMMA InitWeb == WebInit => WebInv
<1> SUFFICES ASSUME WebInit PROVE WebInv
  OBVIOUS
<1>1. PICK s \in Starts :
        /\ directory = s.directory
        /\ left = s.requests
        /\ types = TypesOf(s.directory)
        /\ saved = s.saved /\ facilities = s.facilities /\ members = s.members
        /\ lastId = [saved |-> Len(s.saved), facility |-> Len(s.facilities),
                     member |-> Len(s.members)]
        /\ users = s.users /\ sessions = s.sessions
  BY DEF WebInit
<1>2. /\ exports = Payloads /\ instances = {} /\ crossed = {}
      /\ jobs = [t \in Threads |-> Idle]
      /\ attempts = [k \in Keys |-> {}]
      /\ lockouts = [k \in Keys |-> 0]
      /\ failures = [k \in Keys |-> <<>>]
      /\ logins = [t \in Threads |-> Out]
  BY DEF WebInit
<1>3. /\ directory \in Seq(Files) /\ left \in Nat
      /\ users \in Seq(Users) /\ IsInjective(users)
      /\ sessions \in [Threads -> Users \cup {None}]
      /\ saved \in Seq([user : Users, config : Configs])
      /\ facilities \in Seq(Users)
      /\ members \in Seq([facility : DOMAIN facilities, saved : DOMAIN saved \cup {None},
                          override : Overrides, config : Configs])
      /\ \A m \in DOMAIN members :
            members[m].saved # None =>
               saved[members[m].saved].user = facilities[members[m].facility]
  BY <1>1, WebAssumption DEF IsStart
<1>4. lastId = [saved |-> Len(saved), facility |-> Len(facilities), member |-> Len(members)]
  BY <1>1
<1>5. /\ DOMAIN saved = 1 .. Len(saved) /\ Len(saved) \in Nat
      /\ saved = [n \in DOMAIN saved |-> saved[n]]
      /\ \A n \in DOMAIN saved : saved[n] \in [user : Users, config : Configs]
      /\ DOMAIN facilities = 1 .. Len(facilities) /\ Len(facilities) \in Nat
      /\ \A n \in DOMAIN facilities : facilities[n] \in Users
  <2>1. saved \in Seq([user : Users, config : Configs]) /\ facilities \in Seq(Users)
    BY <1>3
  <2> QED
    BY <2>1, RowsAreSequences
<1>6. /\ DOMAIN members = 1 .. Len(members) /\ Len(members) \in Nat
      /\ members = [n \in DOMAIN members |-> members[n]]
      /\ \A n \in DOMAIN members :
            members[n] \in [facility : DOMAIN facilities, saved : DOMAIN saved \cup {None},
                            override : Overrides, config : Configs]
  <2> DEFINE S == [facility : DOMAIN facilities, saved : DOMAIN saved \cup {None},
                   override : Overrides, config : Configs]
  <2>1. members \in Seq(S)
    BY <1>3
  <2> SUFFICES /\ DOMAIN members = 1 .. Len(members) /\ Len(members) \in Nat
               /\ members = [n \in DOMAIN members |-> members[n]]
               /\ \A n \in DOMAIN members : members[n] \in S
    OBVIOUS
  <2> HIDE DEF S
  <2> QED
    BY <2>1, RowsAreSequences
<1>7. IdsAreGiven
  BY <1>4, <1>5, <1>6 DEF IdsAreGiven
<1>8. RowInv
  <2>1. RowsHaveColumns
    BY <1>2, <1>5, <1>6, StoreAssumption DEF RowsHaveColumns
  <2>2. MembersStayWithTheirUser
    BY <1>3, <1>6 DEF MembersStayWithTheirUser
  <2>3. \A t \in Threads : JobIsItsUsers(jobs[t])
    BY <1>2 DEF JobIsItsUsers, Idle
  <2> QED
    BY <1>7, <2>1, <2>2, <2>3 DEF RowInv
<1>9. TagInv
  BY <1>2 DEF TagInv, LaunchesAndDeletions, TaggedHaveTheirFacility, Idle
<1>10. StoreInv
  <2>1. /\ exports \subseteq Seq(Entry) /\ jobs \in [Threads -> Jobs]
        /\ types \in (SUBSET Types) \cup {{Raises}}
    BY <1>1, <1>2, <1>3, StoreAssumption, JobForms, TypesAreNamed
  <2>2. \A m \in DOMAIN members :
           members[m] \in [facility : Nat, saved : Nat \cup {None},
                           override : Overrides, config : Configs]
    BY <1>5, <1>6
  <2>3. /\ DOMAIN saved \subseteq 1 .. lastId.saved
        /\ DOMAIN facilities \subseteq 1 .. lastId.facility
        /\ DOMAIN members \subseteq 1 .. lastId.member
        /\ lastId \in [saved : Nat, facility : Nat, member : Nat]
    BY <1>7 DEF IdsAreGiven
  <2> QED
    BY <1>5, <1>6, <2>1, <2>2, <2>3 DEF StoreInv, StoreTypeOK, TablesAreFunctions
<1>11. AccountInv
  <2>1. AccountsTypeOK /\ NamesAreUnique
    BY <1>2, <1>3, AccountsAssumption, LoginForms DEF AccountsTypeOK, NamesAreUnique
  <2>2. HeldAreInHistory /\ AppendsAreRecent /\ LockoutIsEarned
    BY <1>2, LoginForms DEF HeldAreInHistory, AppendsAreRecent, LockoutIsEarned
  <2> QED
    BY <2>1, <2>2 DEF AccountInv
<1> QED
  BY <1>1, <1>3, <1>8, <1>9, <1>10, <1>11 DEF WebInv

\* A step of the application is one of its parts, and leaves the others as they
\* are.
LEMMA WebStepsAreSteps ==
    ASSUME WebInv, [WebNext]_webVars
    PROVE  /\ [StoreNext]_storeVars /\ [AccountsNext]_accountVars
           /\ directory' \in Seq(Files) /\ left' \in Nat
           /\ types' = TypesOf(directory')
<1>1. ASSUME Take PROVE left' \in Nat
  BY <1>1 DEF Take, WebInv
<1>2. ASSUME NEW t \in Threads, UseAccount(t)
      PROVE  AccountRequest(t) /\ UNCHANGED <<storeVars, directory>> /\ left' \in Nat
  BY <1>1, <1>2 DEF UseAccount
<1>3. ASSUME NEW t \in Threads, UseStore(t)
      PROVE  /\ \E u \in Users : StoreRequest(t, u)
             /\ UNCHANGED <<accountVars, directory>> /\ left' \in Nat
  BY <1>1, <1>3 DEF UseStore, ActsAs
<1>4. ASSUME NEW t \in Threads, UseStore(t) \/ DoStore(t)
      PROVE  types' = types
  <2>1. ASSUME StoreWork(t) PROVE types' = types
    BY <2>1 DEF StoreWork, InsertMember, DeleteFacilityRow, FillFacility, LaunchNext
  <2>2. ASSUME NEW u \in Users, StoreRequest(t, u) PROVE types' = types
    BY <2>2 DEF StoreRequest, LibraryEdit, SaveDevice, EditDevice, DeleteDevice,
           CreateFacility, AddMember, UpdateMember, DeleteMember, DeleteFacility,
           ExportFacility, ImportFacility, LaunchDevice, LaunchFacility, StopFacility,
           DeleteInstance
  <2> QED
    BY <1>3, <1>4, <2>1, <2>2 DEF DoStore
<1>5. CASE EditFile
  <2>1. directory' \in Seq(Files)
    BY <1>5 DEF EditFile, WebInv
  <2>2. types' = TypesOf(directory')
    BY <1>5 DEF EditFile
  <2>3. TypesChange
    BY <1>5, <2>1, <2>2, TypesAreNamed DEF EditFile, TypesChange
  <2> QED
    BY <1>1, <1>5, <2>1, <2>2, <2>3 DEF EditFile, StoreNext
<1>6. CASE \E t \in Threads : UseAccount(t) \/ DoAccount(t)
  BY <1>2, <1>6 DEF DoAccount, AccountsNext, WebInv, storeVars
<1>7. CASE \E t \in Threads : UseStore(t) \/ DoStore(t)
  BY <1>3, <1>4, <1>7 DEF DoStore, StoreNext, WebInv
<1>8. CASE Waiting
  BY <1>8 DEF Waiting, AccountsNext, WebInv, storeVars
<1>9. CASE Done \/ UNCHANGED webVars
  BY <1>9 DEF Done, webVars, WebInv, storeVars
<1> QED
  BY <1>5, <1>6, <1>7, <1>8, <1>9 DEF WebNext

LEMMA NextKeepsWeb == WebInv /\ [WebNext]_webVars => WebInv'
<1> SUFFICES ASSUME WebInv, [WebNext]_webVars PROVE WebInv'
  OBVIOUS
<1>1. /\ [StoreNext]_storeVars /\ [AccountsNext]_accountVars
      /\ directory' \in Seq(Files) /\ left' \in Nat
      /\ types' = TypesOf(directory')
  BY WebStepsAreSteps
<1> QED
  BY <1>1, NextKeepsRows, NextKeepsTags, NextKeepsTypes, NextKeepsAccounts DEF WebInv

\* Both halves keep their types while they share the browsers, and the
\* directory holds files whatever is written to it.
THEOREM WebTypeCorrect == WebSpec => []WebTypeOK
<1>1. WebInv => WebTypeOK
  BY DEF WebInv, WebTypeOK, StoreInv, AccountInv
<1> QED
  BY <1>1, InitWeb, NextKeepsWeb, PTL DEF WebSpec

\* What the parts keep by themselves they keep together, from any database with
\* rows of its own and for any sessions (web/app.py).
THEOREM PartsKeepTheirInvariants ==
    WebSpec => [](/\ MembersStayWithTheirUser /\ TaggedHaveTheirFacility
                  /\ NamesAreUnique /\ LockoutIsEarned)
<1>1. WebInv => /\ MembersStayWithTheirUser /\ TaggedHaveTheirFacility
                /\ NamesAreUnique /\ LockoutIsEarned
  BY DEF WebInv, RowInv, TagInv, AccountInv
<1> QED
  BY <1>1, InitWeb, NextKeepsWeb, PTL DEF WebSpec

\* README: "Malformed JSON files are rejected individually": however the files of
\* the directory are edited, exactly those that fail with another exception than
\* ValueError take the others with them; without one, every file is listed as a
\* device or as an error, and the devices have what the loader checks
\* (device_defs.py, load_device_definitions).
THEOREM LoadedAreSound == WebSpec => []LoadedTypesAreSound
<1>1. WebInv => LoadedTypesAreSound
  BY LoadedHaveTheirChecks DEF WebInv
<1> QED
  BY <1>1, InitWeb, NextKeepsWeb, PTL DEF WebSpec

\* README: "Each user sees and manages only their own saved library": a request
\* acts as the session's user, so nothing changes for who has no session and no
\* request under way (web/app.py, login_required and current_user_id).
THEOREM AwayMeansUndisturbed == WebSpec => RowsOfTheAwayStay
<1>1. ASSUME WebInv, [WebNext]_webVars, NEW u \in Users, Away(u)
      PROVE  Rows(u)' = Rows(u)
  <2>1. ASSUME NEW t \in Threads, UseStore(t)
        PROVE  Undisturbed(u)
    <3>1. PICK v \in ActsAs(t) : StoreRequest(t, v)
      BY <2>1 DEF UseStore
    <3>2. v \in Users /\ u # v
      BY <1>1 DEF ActsAs, Away
    <3> QED
      BY <1>1, <3>1, <3>2, RequestDisturbsNoOther DEF WebInv
  <2>2. ASSUME NEW t \in Threads, DoStore(t)
        PROVE  Undisturbed(u)
    <3>1. StoreWork(t) /\ jobs[t] # Idle
      <4>1. StoreWork(t)
        BY <2>2 DEF DoStore
      <4>2. jobs[t].do \in {"add", "delete", "fill", "launch"}
        BY <4>1 DEF StoreWork, InsertMember, DeleteFacilityRow, FillFacility, LaunchNext
      <4> QED
        BY <4>1, <4>2 DEF Idle
    <3>2. jobs[t].user # u
      BY <1>1, <3>1 DEF Away
    <3> QED
      BY <1>1, <3>1, <3>2, WorkDisturbsNoOther DEF WebInv
  <2>3. ASSUME UNCHANGED <<saved, facilities, members>>
        PROVE  Undisturbed(u)
    BY <2>3, UnchangedRowsAreUndisturbed
  <2>4. ASSUME EditFile \/ Waiting \/ Done \/ UNCHANGED webVars
               \/ \E t \in Threads : UseAccount(t) \/ DoAccount(t)
        PROVE  UNCHANGED <<saved, facilities, members>>
    BY <2>4 DEF EditFile, Waiting, Done, webVars, UseAccount, DoAccount, storeVars
  <2>5. Undisturbed(u)
    BY <1>1, <2>1, <2>2, <2>3, <2>4 DEF WebNext
  <2> QED
    BY <2>5, UndisturbedRows
<1>2. ASSUME WebInv, [WebNext]_webVars
      PROVE  [\A u \in Users : Away(u) => Rows(u)' = Rows(u)]_webVars
  BY <1>1, <1>2
<1> QED
  BY <1>2, InitWeb, NextKeepsWeb, PTL DEF WebSpec, RowsOfTheAwayStay

\* The store's action properties hold of the whole application as well.
THEOREM StoreStepsStayProper ==
    WebSpec => OnlyOwnRowsChange /\ LibraryEditsKeepPlans /\ ImportFillsAllOrNothing
<1>1. WebInv /\ [WebNext]_webVars =>
         /\ [\A t \in Threads, u \in Users :
                \/ StoreRequest(t, u)
                \/ jobs[t] # Idle /\ jobs[t].user = u /\ StoreWork(t)
                => \A v \in Users \ {u} : Rows(v)' = Rows(v)]_storeVars
         /\ [\A t \in Threads, u \in Users :
                LibraryEdit(t, u) =>
                   \A f \in DOMAIN facilities : Plan(f)' = Plan(f)]_storeVars
         /\ [\A t \in Threads : \A f \in DOMAIN facilities :
                jobs[t].do = "fill" /\ jobs'[t] = Idle /\ jobs[t].facility = f =>
                   \/ saved' = saved /\ members' = members
                   \/ /\ Plan(f)' = Plan(f) \o PlanOf(jobs[t].entries)
                      /\ \A m \in MembersOf(f)' \ MembersOf(f) :
                            members'[m].saved \in DOMAIN saved' \ DOMAIN saved]_storeVars
  BY WebStepsAreSteps, NextKeepsToItsUser, NextKeepsPlans, NextFillsAllOrNothing DEF WebInv
<1> QED
  BY <1>1, InitWeb, NextKeepsWeb, PTL
     DEF WebSpec, OnlyOwnRowsChange, LibraryEditsKeepPlans, ImportFillsAllOrNothing
=============================================================================
