--------------------------- MODULE IPSubnetLimits ---------------------------
(***************************************************************************)
(* The limits on connections per subnet: Core/Access/IPSubnetLimits.cpp,   *)
(* as operators on a value of the class; AccessManager holds its lock for  *)
(* each call.  An address is a number of Width bits, one address family.   *)
(***************************************************************************)
EXTENDS Naturals, FiniteSetsExt

CONSTANT Width      \* bits of an address

NoFunction == <<>>
With(f, x, y) == [z \in DOMAIN f \cup {x} |-> IF z = x THEN y ELSE f[z]]
Less(f, S) == [z \in DOMAIN f \ S |-> f[z]]

\* ip & mask, the key of m_IPSubnetLimitDetails: the number of bits is not in it.
SubnetOf(ip, bits) == ip - (ip % (2 ^ (Width - bits)))

\* limits: maximum by number of leading bits; connections: count by address;
\* details: by subnet, the bits of the limit that made the entry, and the count.
\* "dangling": the undo of AddLimitsConnection has followed a null pointer.
NoLimits == [limits |-> NoFunction, connections |-> NoFunction, details |-> NoFunction,
             dangling |-> FALSE]

Outcome(ok, state) == [ok |-> ok, state |-> state]

\* Counts other than the maximum of a Size.
AddLimitConnection(state, bits, ip, num, overflow) ==
    LET subnet == SubnetOf(ip, bits)
        Counted(detail) == [state EXCEPT !.details = With(@, subnet, detail)]
    IN IF subnet \notin DOMAIN state.details
       THEN Outcome(TRUE, Counted([bits |-> bits, count |-> num]))
       ELSE LET detail == state.details[subnet]
            IN IF detail.count < state.limits[bits] \/ overflow
               THEN Outcome(TRUE, Counted([detail EXCEPT !.count = @ + num]))
               ELSE Outcome(FALSE, state)

\* Mutant: the last connection of a subnet stays counted.
RemoveLimitConnectionKept(state, bits, ip) ==
    LET subnet == SubnetOf(ip, bits)
    IN IF subnet \in DOMAIN state.details
       THEN Outcome(TRUE, [state EXCEPT !.details[subnet].count = IF @ > 1 THEN @ - 1 ELSE @])
       ELSE Outcome(FALSE, state)

RemoveLimitConnection(state, bits, ip) ==
    LET subnet == SubnetOf(ip, bits)
    IN IF subnet \notin DOMAIN state.details \/ state.details[subnet].count = 0
       THEN Outcome(FALSE, state)
       ELSE Outcome(TRUE,
              IF state.details[subnet].count = 1
              THEN [state EXCEPT !.details = Less(@, {subnet})]
              ELSE [state EXCEPT !.details[subnet].count = @ - 1])

\* The std::map is ordered by the number of bits, the largest first.
Smallest(S) == CHOOSE bits \in S : \A other \in S : bits <= other
InOrder(Step(_, _), first, state) ==
    MapThenFoldSet(Step, first, LAMBDA bits : bits, Smallest, DOMAIN state.limits)

PutOn(ip, bits, done) ==
    IF done.ok THEN AddLimitConnection(done.state, bits, ip, 1, FALSE) ELSE done

\* The vector of limits to undo starts with a null pointer for each limit.
AddLimitsConnection(state, ip) ==
    LET all == InOrder(LAMBDA bits, done : PutOn(ip, bits, done), Outcome(TRUE, state), state)
    IN IF all.ok THEN all ELSE Outcome(FALSE, [all.state EXCEPT !.dangling = TRUE])

TakeOff(ip, bits, done) ==
    LET one == RemoveLimitConnection(done.state, bits, ip)
    IN Outcome(done.ok /\ one.ok, one.state)

RemoveLimitsConnection(state, ip) ==
    InOrder(LAMBDA bits, done : TakeOff(ip, bits, done), Outcome(TRUE, state), state)

AddSubnetConnection(state, ip) ==
    [state EXCEPT !.connections =
        With(@, ip, IF ip \in DOMAIN @ THEN @[ip] + 1 ELSE 1)]

OneLess(counts, ip) ==
    IF counts[ip] = 1 THEN Less(counts, {ip}) ELSE [counts EXCEPT ![ip] = @ - 1]

RemoveSubnetConnection(state, ip) == [state EXCEPT !.connections = OneLess(@, ip)]

CountIn(state, ip, bits) ==
    LET subnet == SubnetOf(ip, bits)
    IN IF subnet \in DOMAIN state.details THEN state.details[subnet].count ELSE 0

\* A subnet without an entry has no connections: its maximum must not be 0.
LimitsAcceptConnection(state, ip) ==
    \A bits \in DOMAIN state.limits : CountIn(state, ip, bits) < state.limits[bits]

HasConnectionOverflow(state, ip) ==
    \E bits \in DOMAIN state.limits : CountIn(state, ip, bits) > state.limits[bits]

AddConnection(state, ip) ==
    IF ~LimitsAcceptConnection(state, ip) THEN Outcome(FALSE, state)
    ELSE LET added == AddLimitsConnection(AddSubnetConnection(state, ip), ip)
         IN IF added.ok THEN added
            ELSE Outcome(FALSE, RemoveSubnetConnection(added.state, ip))

RemoveConnection(state, ip) ==
    IF ip \notin DOMAIN state.connections THEN Outcome(FALSE, state)
    ELSE RemoveLimitsConnection(RemoveSubnetConnection(state, ip), ip)

\* Connections there are, are counted beyond the maximum; they leave later.
AddLimit(state, bits, max) ==
    FoldSet(LAMBDA ip, done : AddLimitConnection(done, bits, ip, state.connections[ip], TRUE).state,
            [state EXCEPT !.limits = With(@, bits, max)], DOMAIN state.connections)

RemoveLimit(state, bits) ==
    [state EXCEPT !.limits = Less(@, {bits}),
        !.details = Less(@, {subnet \in DOMAIN @ : @[subnet].bits = bits})]

-----------------------------------------------------------------------------
(* What the counts should be.                                              *)

\* The connections there are: the address and a number among those of the address.
Connections(state) ==
    UNION {{ip} \X (1 .. state.connections[ip]) : ip \in DOMAIN state.connections}

ConnectionsIn(state, subnet, bits) ==
    Cardinality({c \in Connections(state) : SubnetOf(c[1], bits) = subnet})

CountsAreExact(state, addresses) ==
    \A bits \in DOMAIN state.limits :
        \A ip \in addresses :
            CountIn(state, ip, bits) = ConnectionsIn(state, SubnetOf(ip, bits), bits)
=============================================================================
