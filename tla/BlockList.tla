----------------------------- MODULE BlockList -----------------------------
(***************************************************************************)
(* The blocked ranges and the copy that IpBlocklistMiddleware keeps in     *)
(* each process (apps/api/middleware/system_gates.py), with the routes     *)
(* that change the table (admin_system.py).  The copy takes the time at    *)
(* which it is stored, not the time of the query; several requests may     *)
(* load it at once; a failed load leaves an empty copy for a whole TTL.    *)
(***************************************************************************)
EXTENDS Integers, FiniteSets, Processes

CONSTANTS
    Ranges,     \* CIDR ranges
    Loads,      \* loads that may be under way at a time
    ListTTL,    \* _CACHE_TTL, in ticks
    MaxLoad     \* ticks a load takes at most: the statement timeout

ASSUME BlockListAssumption == ListTTL \in Nat \ {0} /\ MaxLoad \in Nat /\ None \notin Servers

VARIABLES
    blocked,    \* ip_blocklist
    copy,       \* copy[p]: _cache, the age of _cache_at, and whether the last load failed
    load,       \* load[l]: a load under way, with what its query returned
    dropped     \* history: [range, age]: what has changed, and how long ago

blVars == <<blocked, copy, load, dropped>>

NoLoad == [pc |-> "idle", proc |-> None, nets |-> {}, age |-> 0]
Horizon == ListTTL + MaxLoad

BlockListTypeOK ==
    /\ blocked \subseteq Ranges
    /\ copy \in [Servers -> [nets : SUBSET Ranges, age : 0..ListTTL, failed : BOOLEAN]]
    /\ load \in [Loads -> [pc : {"idle", "asked", "read"}, proc : Servers \union {None}, nets : SUBSET Ranges, age : 0..MaxLoad]]
    /\ dropped \subseteq [range : Ranges, age : 0..Horizon]

BInit ==
    /\ blocked = {} /\ dropped = {}
    /\ copy = [p \in Servers |-> [nets |-> {}, age |-> ListTTL, failed |-> FALSE]]
    /\ load = [l \in Loads |-> NoLoad]
-----------------------------------------------------------------------------
Changed(n) == dropped' = dropped \union {[range |-> n, age |-> 0]}

\* add_ip_blocklist: a range that is there already is refused, by the lookup
\* or, for two requests at once, by the unique index.
AddIpBlocklist(n) ==
    n \notin blocked /\ blocked' = blocked \union {n} /\ Changed(n) /\ UNCHANGED <<copy, load>>
\* remove_ip_blocklist.
RemoveIpBlocklist(n) ==
    n \in blocked /\ blocked' = blocked \ {n} /\ Changed(n) /\ UNCHANGED <<copy, load>>

\* Mutant: a copy is kept for as long as it blocks something.
ExpiredEmpty(p) == copy[p].age >= ListTTL /\ copy[p].nets = {}
Expired(p) == copy[p].age >= ListTTL

\* _load, once per request that finds the copy expired.
LoadBegin(l, p) ==
    /\ load[l] = NoLoad /\ Expired(p)
    /\ load' = [load EXCEPT ![l] = [@ EXCEPT !.pc = "asked", !.proc = p]]
    /\ UNCHANGED <<blocked, copy, dropped>>
LoadRead(l) ==
    /\ load[l].pc = "asked"
    /\ load' = [load EXCEPT ![l] = [@ EXCEPT !.pc = "read", !.nets = blocked]]
    /\ UNCHANGED <<blocked, copy, dropped>>
LoadStore(l) ==
    /\ load[l].pc = "read" /\ load' = [load EXCEPT ![l] = NoLoad]
    /\ copy' = [copy EXCEPT ![load[l].proc] = [nets |-> load[l].nets, age |-> 0, failed |-> FALSE]]
    /\ UNCHANGED <<blocked, dropped>>
LoadFails(l) ==
    /\ load[l].pc = "asked" /\ load' = [load EXCEPT ![l] = NoLoad]
    /\ copy' = [copy EXCEPT ![load[l].proc] = [nets |-> {}, age |-> 0, failed |-> TRUE]]
    /\ UNCHANGED <<blocked, dropped>>

\* Time passes; a query and what follows it end within MaxLoad.
ListTick ==
    /\ \A l \in Loads : load[l].age < MaxLoad
    /\ copy' = [p \in Servers |->
        IF copy[p].age = ListTTL THEN copy[p] ELSE [copy[p] EXCEPT !.age = copy[p].age + 1]]
    /\ load' = [l \in Loads |-> IF load[l] = NoLoad THEN NoLoad ELSE [load[l] EXCEPT !.age = load[l].age + 1]]
    /\ dropped' = {[d EXCEPT !.age = d.age + 1] : d \in {x \in dropped : x.age < Horizon}}
    /\ UNCHANGED blocked

BNext ==
    \/ \E n \in Ranges : AddIpBlocklist(n) \/ RemoveIpBlocklist(n)
    \/ \E l \in Loads :
        \/ \E p \in Servers : LoadBegin(l, p)
        \/ LoadRead(l) \/ LoadStore(l) \/ LoadFails(l)
    \/ ListTick

BSpec == BInit /\ [][BNext]_blVars
-----------------------------------------------------------------------------
(* A range whose state has not changed for TTL and the time of a load is   *)
(* treated by every process as the table says, unless its last load has    *)
(* failed: what dispatch answers before it looks again is never older.     *)
BlockIsEnforced ==
    \A p \in Servers, n \in Ranges :
        ~Expired(p) /\ ~copy[p].failed /\ (\A d \in dropped : d.range = n => d.age > copy[p].age + MaxLoad)
            => (n \in copy[p].nets <=> n \in blocked)

\* Every process enforces the list in time (system_gates.py).
BlockListHolds == BlockListTypeOK /\ BlockIsEnforced
=============================================================================
