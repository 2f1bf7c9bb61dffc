\* c.c's tracepoint has the format "{}}{{}" and one argument: the scanner
\* accepts it, the stated rule does not.
CONSTANTS
    s1 = s1
    s2 = s2
    s3 = s3
    s4 = s4
    s5 = s5
    s6 = s6
    s7 = s7
    s8 = s8
    s9 = s9
    s10 = s10
    s11 = s11
    P1 = P1
    P2 = P2
    E1 = E1
    E2 = E2
    E3 = E3
    L1 = L1
    L2 = L2
    L3 = L3
    L4 = L4
    L5 = L5
    L6 = L6
    L7 = L7
    L8 = L8
    L9 = L9
    L10 = L10
    L11 = L11
    NoProvider = NoProvider
    NoLoc = NoLoc
    Sites <- MCSites
    Provs = {P1, P2}
    Events = {E1, E2, E3}
    Locs = {L1, L2, L3, L4, L5, L6, L7, L8, L9, L10, L11}
    Prov <- MCProv
    Event <- MCEvent
    Loc <- MCLoc
    Format <- MCFormatLoneBrace
    Caller <- MCCaller
    Args <- MCArgs
    Underscored <- MCUnderscored
    Fault <- MCFault
    Sources <- MCSources
    Matches <- MCMatches
    FilterOpts <- MCFilterOpts
SPECIFICATION Spec
INVARIANT FormatsValid
