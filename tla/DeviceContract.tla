--------------------------- MODULE DeviceContract ---------------------------
(***************************************************************************)
(* What an emulated device promises, without its faults' bookkeeping: a    *)
(* plant that only accepted commands and the simulation move, and the      *)
(* commanded values a client reads back.  An actuator that is stuck keeps  *)
(* acknowledging commands while the plant ignores them; no other fault     *)
(* exists at this level.                                                   *)
(***************************************************************************)
CONSTANTS
    Points,
    Writable,           \* the points a client may command
    RawValues,          \* raw values a client may write
    Initial,            \* [Points -> values]
    Accepted(_, _),     \* the value point p takes for a raw value
    Evolve(_)           \* the plants one step of the simulation may lead to

VARIABLES
    plant,      \* the physical values
    stuck,      \* the actuators that ignore commands
    commanded   \* what a client reads back

contractVars == <<plant, stuck, commanded>>

ContractInit ==
    /\ plant = Initial
    /\ stuck = {}
    /\ commanded = Initial

\* A client's request reaches the writable points it names, and no other.
Command(raw) ==
    /\ plant' = [p \in Points |-> IF p \in DOMAIN raw \ stuck
                                  THEN Accepted(p, raw[p]) ELSE plant[p]]
    /\ commanded' = [p \in Points |-> IF p \in DOMAIN raw
                                      THEN Accepted(p, raw[p])
                                      ELSE commanded[p]]
    /\ UNCHANGED stuck

\* The simulation reads the plant only, and a stuck actuator keeps showing
\* the command it acknowledged.
Simulate ==
    /\ plant' \in Evolve(plant)
    /\ commanded' = [p \in Points |-> IF p \in stuck THEN commanded[p]
                                      ELSE plant'[p]]
    /\ UNCHANGED stuck

\* An actuator that sticks or comes loose never moves the plant; the point
\* shows the plant again until the next command.
Restick(p) ==
    /\ stuck' \in {stuck \cup {p}, stuck \ {p}}
    /\ commanded' = [q \in Points |-> IF q = p THEN plant[p] ELSE commanded[q]]
    /\ UNCHANGED plant

ContractNext ==
    \/ \E W \in SUBSET Writable : \E raw \in [W -> RawValues] : Command(raw)
    \/ Simulate
    \/ \E p \in Writable : Restick(p)

ContractSpec == ContractInit /\ [][ContractNext]_contractVars
=============================================================================
