-------------------------- MODULE MCWorkerLifecycle --------------------------
(***************************************************************************)
(* A small instance of WorkerLifecycle for TLC, with administrators of     *)
(* both kinds: one who waits for each change to take effect, and any.      *)
(***************************************************************************)
EXTENDS WorkerLifecycle

VARIABLE patient   \* the kind of administrator, chosen at the beginning

\* The calls are numbers here, and since they are interchangeable they begin in this
\* order.
Ordered == \A c \in Calls \ {1} : step[c] # "new" => step[c - 1] # "new"

MCInit == Init /\ patient \in BOOLEAN

MCNext == /\ IF patient THEN CalmNext ELSE Next
          /\ UNCHANGED patient
          /\ Ordered'

MCSpec == MCInit /\ [][MCNext]_<<vars, patient>> /\ CalmFairness

\* While nothing is under way, the rows, the session rows and the threads of a
\* patient administrator's providers match.
PatientSettles == patient => SettledMatches

\* Idents are given out again, and a stop command knows only an ident: while nothing fails
\* and changes wait for each other, it always finds the worker it was sent for.
PatientStopsHit == patient => \A s \in stops :
    Live(s.target) /\ thread[s.target].prov = prov[s.call]

\* The rows are followed by the threads: a provider that is enabled has its worker, and
\* one that is disabled has none, unless a worker, be it its own or another that has the
\* stop in its hands, is blocked in a get() on the shared queue.
Followed == \A p \in Providers :
    /\ row[p] = "on"  => Workers(p) # {}
    /\ row[p] = "off" => Workers(p) = {} \/ SomeBlocked

\* Whatever a patient administrator changes takes effect, for all providers at once: the
\* updates, discovers and checks never leave a stop or a start undone for ever.
PatientFollowed == patient ~> Followed
=============================================================================
