--------------------------- MODULE MCTaskDispatch ---------------------------
(***************************************************************************)
(* Small instances of TaskDispatch for TLC.                                *)
(***************************************************************************)
EXTENDS TaskDispatch, FiniteSets, TLC

CONSTANTS p1, p2

OneProvider  == {p1}
OneOrder     == <<p1>>
TwoProviders == {p1, p2}
TwoOrder     == <<p1, p2>>

Symmetry     == Permutations(Tasks) \cup Permutations(Idents)

\* The server after start-up: every worker waits for tasks in front of its page.
InitReady ==
    /\ status = [t \in Tasks |-> "absent"]
    /\ owner  = [t \in Tasks |-> None]
    /\ prov   = [t \in Tasks |-> None]
    /\ stamp  = [t \in Tasks |-> 0]
    /\ replies = [t \in Tasks |-> 0]
    /\ sent   = [t \in Tasks |-> 0]
    /\ sessions = Providers
    /\ rounds = [p \in Providers |-> 0]
    /\ cut    = {}
    /\ rpc    = [t \in Tasks |-> "new"]
    /\ listed = [t \in Tasks |-> {}]
    /\ at     = [t \in Tasks |-> 1]
    /\ ready  = [t \in Tasks |-> <<>>]
    /\ target = [t \in Tasks |-> None]
    /\ rr     = 0
    /\ wpc    = [p \in Providers |-> "idle"]
    /\ wid    \in [Providers -> Idents]
    /\ \A p, q \in Providers : p # q => wid[p] # wid[q]
    /\ entry  = [p \in Providers |-> [tid |-> wid[p], open |-> TRUE]]
    /\ wtask  = [p \in Providers |-> None]
    /\ clock  = 0
    /\ left   = [stops |-> MaxStops, faults |-> MaxFaults,
                 closes |-> MaxCloses, restarts |-> MaxRestarts]

FairSpecReady == InitReady /\ [][Next]_vars /\ Fairness

\* Nothing has been stopped, dropped, broken or restarted so far.
Undisturbed == /\ left.stops = MaxStops
               /\ left.faults = MaxFaults
               /\ left.restarts = MaxRestarts

\* While every session is ready, concurrent requests are spread evenly: the
\* cursor is advanced and read under one lock (create_task's round robin).
EvenSpread == Undisturbed =>
    \A p, q \in Providers :
        Cardinality(Assigned(p)) <= Cardinality(Assigned(q)) + 1
=============================================================================
