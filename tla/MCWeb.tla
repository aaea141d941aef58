------------------------------- MODULE MCWeb -------------------------------
(* Two browsers and two users: accounts from an empty database; a library    *)
(* with a facility, with a session of each user and with two of one; and the *)
(* definition files.                                                         *)
EXTENDS Web, TLC

CONSTANTS b1, b2

MCKeyOf == [u \in Users |-> "ann"]

Point == [id |-> "p", kind |-> "coil", address |-> 0, access |-> "rw", scale |-> 1,
          initial |-> Missing, modes |-> {"freeze"}]
Other == [Point EXCEPT !.id = "q", !.address = 1]
Device == [id |-> "tank", protocol |-> "fins", port |-> 9600,
           simulation |-> "static", points |-> <<Point, Other>>]

Points(qs) == {[Device EXCEPT !.points = <<Point, q>>] : q \in qs}

MCFiles ==
    {Device, [Device EXCEPT !.id = "pump"], Malformed, [Device EXCEPT !.id = Missing]}
    \cup {[Device EXCEPT !.port = n] : n \in {0, 1, 65535, 65536, Missing, Infinite}}
    \cup {[Device EXCEPT !.simulation = "magic"], [Device EXCEPT !.points = <<>>],
          [Device EXCEPT !.protocol = Missing]}
    \cup Points({[Other EXCEPT !.id = "p"], [Other EXCEPT !.id = Missing],
                 [Other EXCEPT !.address = 0], [Other EXCEPT !.address = -1],
                 [Other EXCEPT !.address = 0, !.kind = "discrete_input"],
                 [Other EXCEPT !.address = Infinite], [Other EXCEPT !.kind = List],
                 [Other EXCEPT !.kind = "valve"], [Other EXCEPT !.access = List],
                 [Other EXCEPT !.scale = 0], [Other EXCEPT !.scale = Missing],
                 [Other EXCEPT !.scale = Text], [Other EXCEPT !.initial = Text],
                 [Other EXCEPT !.modes = {"melt"}], [Other EXCEPT !.modes = {}]})

Config == [type |-> "tank", target |-> "x"]
MCPayloads ==
    {<<[config |-> Config, override |-> "y"], [config |-> Config, override |-> BadOverride]>>,
     <<[config |-> Config, override |-> None],
       [config |-> [Config EXCEPT !.type = None], override |-> "y"]>>,
     <<[config |-> Config, override |-> None], [config |-> Config, override |-> "y"]>>}

Nobody == [b \in Threads |-> None]
Empty == [users |-> <<>>, sessions |-> Nobody, saved |-> <<>>, facilities |-> <<>>,
          members |-> <<>>, directory |-> <<Device>>, requests |-> 4]
Library ==
    [Empty EXCEPT !.users = <<"ann", "Ann">>,
                  !.saved = <<[user |-> "ann", config |-> Config]>>,
                  !.facilities = <<"ann">>,
                  !.members = <<[facility |-> 1, saved |-> 1, override |-> None,
                                 config |-> Config]>>,
                  !.requests = 3]

MCStarts ==
    {Empty,
     [Library EXCEPT !.sessions = [b \in Threads |-> "ann"]],
     [Library EXCEPT !.directory = <<Device, [Device EXCEPT !.id = "pump"]>>,
                     !.requests = 2]}
    \cup {[Library EXCEPT !.sessions = [b \in Threads |-> IF b = mine THEN "ann" ELSE "Ann"]] :
            mine \in Threads}

MCSymmetry == Permutations(Threads)
=============================================================================
