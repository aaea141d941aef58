-------------------------------- MODULE Web --------------------------------
(***************************************************************************)
(* The web application as its users meet it (web/app.py): browsers log in  *)
(* and out, their sessions act on the library and the facilities of the    *)
(* user who is logged in, and the device definitions that all of this      *)
(* depends on are edited meanwhile and read anew for every request.        *)
(***************************************************************************)
EXTENDS FacilityStore, Accounts, DeviceLoader

CONSTANTS
    Files,          \* what a definition file may hold
    Starts          \* databases and browsers to start from, each with the
                    \* number of requests and edits that follow

VARIABLES
    directory,      \* the files of devices/, in the order of their names
    left            \* bound: the requests and edits still to come

webVars == <<storeVars, accountVars, directory, left>>

\* What get_device_types returns of a directory, or that it raises.
TypesOf(files) == IF LoadRaises(files) THEN {Raises} ELSE LoadedIds(files)

\* The types are named for the files' ids, and the databases are such as the
\* application makes.
IsFile(file) ==
    file = Malformed
    \/ /\ Len(file.points) \in Nat /\ DOMAIN file.points = 1 .. Len(file.points)
       /\ Outcome(file) = Fine => file.id \in Types

IsStart(s) ==
    /\ s.directory \in Seq(Files) /\ s.requests \in Nat
    /\ s.users \in Seq(Users) /\ IsInjective(s.users)
    /\ s.sessions \in [Threads -> Users \cup {None}]
    /\ s.saved \in Seq([user : Users, config : Configs])
    /\ s.facilities \in Seq(Users)
    /\ s.members \in Seq([facility : DOMAIN s.facilities,
                          saved : DOMAIN s.saved \cup {None},
                          override : Overrides, config : Configs])
    /\ \A m \in DOMAIN s.members :
          s.members[m].saved # None =>
             s.saved[s.members[m].saved].user = s.facilities[s.members[m].facility]

ASSUME WebAssumption ==
    /\ \A file \in Files : IsFile(file)
    /\ \A s \in Starts : IsStart(s)

WebInit ==
    \E s \in Starts :
        /\ directory = s.directory
        /\ left = s.requests
        /\ types = TypesOf(s.directory)
        /\ saved = s.saved /\ facilities = s.facilities /\ members = s.members
        /\ lastId = [saved |-> Len(s.saved), facility |-> Len(s.facilities),
                     member |-> Len(s.members)]
        /\ exports = Payloads /\ instances = {} /\ crossed = {}
        /\ jobs = [t \in Threads |-> Idle]
        /\ users = s.users /\ sessions = s.sessions
        /\ attempts = [k \in Keys |-> {}]
        /\ lockouts = [k \in Keys |-> 0]
        /\ failures = [k \in Keys |-> <<>>]
        /\ logins = [t \in Threads |-> Out]

Take == left > 0 /\ left' = left - 1

\* A browser waits for one answer before it asks again.
BrowserIsFree(t) == jobs[t] = Idle /\ logins[t] = Out

\* register, login and logout.
UseAccount(t) ==
    /\ Take /\ BrowserIsFree(t)
    /\ AccountRequest(t)
    /\ UNCHANGED <<storeVars, directory>>

\* @login_required: a request without a session is answered 401; the others act
\* as current_user_id().
AnyUser(t) == Users                             \* Mutant: the user is not asked for
ActsAs(t) == Users \cap {sessions[t]}

UseStore(t) ==
    /\ Take /\ BrowserIsFree(t)
    /\ \E u \in ActsAs(t) : StoreRequest(t, u)
    /\ UNCHANGED <<accountVars, directory>>

DoAccount(t) == AccountWork(t) /\ UNCHANGED <<storeVars, directory, left>>
DoStore(t) == StoreWork(t) /\ UNCHANGED <<accountVars, directory, left>>

Waiting == TimePasses /\ UNCHANGED <<storeVars, directory, left>>

EditFile ==
    /\ Take
    /\ \E n \in DOMAIN directory, file \in Files :
          directory' = [directory EXCEPT ![n] = file]
    /\ types' = TypesOf(directory')
    /\ UNCHANGED <<saved, facilities, members, lastId, exports, instances, jobs, crossed,
                   accountVars>>

\* All bounds are used up.
Done ==
    /\ left = 0
    /\ \A t \in Threads : BrowserIsFree(t)
    /\ UNCHANGED webVars

WebNext ==
    \/ \E t \in Threads :
          UseAccount(t) \/ UseStore(t) \/ DoAccount(t) \/ DoStore(t)
    \/ Waiting \/ EditFile \/ Done

WebSpec == WebInit /\ [][WebNext]_webVars

-----------------------------------------------------------------------------
\* Types of both halves.
WebTypeOK ==
    /\ StoreTypeOK /\ AccountsTypeOK
    /\ directory \in Seq(Files) /\ left \in Nat

\* README: "Each user sees and manages only their own saved library", and
\* facilities are private: the rows of a user who has no session in any browser
\* and no request that is still served stay as they are.
Away(u) ==
    \A t \in Threads :
        sessions[t] # u /\ (jobs[t] # Idle => jobs[t].user # u)
RowsOfTheAwayStay ==
    [][\A u \in Users : Away(u) => Rows(u)' = Rows(u)]_webVars

\* README: "Malformed JSON files are rejected individually".  A file that fails
\* with a ValueError is: it is listed as an error and takes no other with it,
\* whatever duplicates what.  One that fails otherwise takes all others with it,
\* against the README, and no other file does.  What is returned has what the
\* loader checks, which is not all that the process image needs.
LoadedTypesAreSound ==
    LET fine == {n \in DOMAIN directory : Outcome(directory[n]) = Fine}
    IN  /\ ~ Loads <=> \E n \in DOMAIN directory : Outcome(directory[n]) = Uncaught
        /\ Loads =>
              /\ types = {directory[n].id : n \in fine}
              /\ \A id \in types : Sound(Definition(directory, id))
              /\ Errors(directory) = DOMAIN directory \ LoadedFiles(directory)
=============================================================================
