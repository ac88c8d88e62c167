----------------------------- MODULE MockProcess -----------------------------
(***************************************************************************)
(* The manager of the mock server's process: status, start and stop, one   *)
(* at a time under _STATE_LOCK, over the state file and the process table. *)
(* Processes end, are started by hand or take over a free pid at any time, *)
(* and the server itself may be killed between any two steps.              *)
(***************************************************************************)
EXTENDS Naturals, FiniteSets, FiniteSetsExt

CONSTANTS Pids,        \* numbers; the system reuses them
          Ports,
          None,
          MaxRequests, \* bound: requests to the manager
          MaxChanges   \* bound: processes that come or go by themselves, crashes

Kinds   == {"mock", "other", "system"}   \* "system": no right to signal it
Process == [kind : Kinds, port : Ports, at : {"starting", "up", "zombie"},
            sig : {"none", "term", "kill"}, api : BOOLEAN, child : BOOLEAN]
Request == [kind : {"status", "start", "stop"}, port : Ports,
            force : BOOLEAN, last : BOOLEAN]

ASSUME MockProcessAssumption ==
    /\ Pids \subseteq Nat \ {0} /\ IsFiniteSet(Pids)
    /\ None \notin Pids \cup Ports \cup Process \cup Request \cup [pid : Pids, port : Ports]
    /\ MaxRequests \in Nat /\ MaxChanges \in Nat

VARIABLES
    proc,     \* the process table
    record,   \* the state file: pid and port
    op,       \* the request under the lock, None between requests
    pc,       \* where that request is
    todo,     \* pids that _stop_mock_openai has still to terminate
    told,     \* the answer to the last request
    lost,     \* mocks that were started but never recorded
    mocks,    \* history: pids that have been a mock's
    hit,      \* history: pids a signal was sent to
    left      \* what is left of the bounds

histVars == <<lost, mocks, hit>>
vars == <<proc, record, op, pc, todo, told, histVars, left>>

Is(p)     == proc[p] # None
Mocks     == {p \in Pids : Is(p) /\ proc[p].kind = "mock" /\ proc[p].at # "zombie"}
Free      == {p \in Pids : ~Is(p)}
Open(port) == \E p \in Pids : Is(p) /\ proc[p].at = "up" /\ proc[p].port = port

New(kind, port, api) == [kind |-> kind, port |-> port, at |-> "starting",
                         sig |-> "none", api |-> api, child |-> api]

Init == /\ proc = [p \in Pids |-> None]
        /\ record = None
        /\ op = None /\ pc = "idle" /\ todo = {}
        /\ told = [kind |-> "none", running |-> FALSE]
        /\ lost = {} /\ mocks = {} /\ hit = {}
        /\ left = [requests |-> MaxRequests, changes |-> MaxChanges]

Spend(budget) == /\ left[budget] > 0
                 /\ left' = [left EXCEPT ![budget] = @ - 1]
-----------------------------------------------------------------------------
(* The host.                                                               *)

\* The server's own child stays a zombie, another process is gone at once.
Ended(p) == IF proc[p].child THEN [proc EXCEPT ![p].at = "zombie"]
                             ELSE [proc EXCEPT ![p] = None]

\* uvicorn is up, or its port is taken and it gives up.
Listen(p) == /\ Is(p) /\ proc[p].at = "starting"
             /\ proc' = IF Open(proc[p].port) THEN Ended(p)
                        ELSE [proc EXCEPT ![p].at = "up"]
             /\ UNCHANGED <<record, op, pc, todo, told, histVars, left>>

\* A process ends, because of a signal or by itself.
End(p) == /\ Is(p) /\ proc[p].at # "zombie"
          /\ IF proc[p].sig = "none" THEN Spend("changes") ELSE UNCHANGED left
          /\ proc' = Ended(p)
          /\ UNCHANGED <<record, op, pc, todo, told, histVars>>

\* Any Popen of the server, a browser launch too, reaps its ended children.
Reaped(q) == Is(q) /\ proc[q].at = "zombie"

Reap == /\ \E p \in Pids : Reaped(p)
        /\ proc' = [p \in Pids |-> IF Reaped(p) THEN None ELSE proc[p]]
        /\ UNCHANGED <<record, op, pc, todo, told, histVars, left>>

\* Something is started by hand and gets a free pid; it may be another mock.
Foreign == /\ Spend("changes")
           /\ \E p \in Free, k \in Kinds, port \in Ports :
                 /\ proc' = [proc EXCEPT ![p] = New(k, port, FALSE)]
                 /\ mocks' = IF k = "mock" THEN mocks \cup {p} ELSE mocks
           /\ UNCHANGED <<record, op, pc, todo, told, lost, hit>>

\* The server is killed and started again; init takes over its children.
Crash == /\ Spend("changes")
         /\ proc' = [p \in Pids |-> IF ~Is(p) \/ Reaped(p) THEN None
                                    ELSE [proc[p] EXCEPT !.child = FALSE]]
         /\ lost' = IF pc = "write" THEN lost \cup todo ELSE lost
         /\ op' = None /\ pc' = "idle" /\ todo' = {}
         /\ UNCHANGED <<record, told, mocks, hit>>
-----------------------------------------------------------------------------
(* _collect_status.                                                        *)

Answer(running) == /\ told' = [kind |-> op.kind, running |-> running]
                   /\ op' = None /\ pc' = "idle" /\ todo' = {}

\* An exception: status code 500.
Raise == /\ told' = [kind |-> "error", running |-> FALSE]
         /\ op' = None /\ pc' = "idle" /\ todo' = {}

Receive == /\ pc = "idle"
           /\ Spend("requests")
           /\ op' \in {r \in Request : r.last = (r.kind = "status")}
           /\ pc' = "read"
           /\ UNCHANGED <<proc, record, todo, told, histVars>>

\* What a stop terminates: the pid of the status, or every mock of a second scan.
Targets(running, pid) == IF pid # None THEN {pid} ELSE Mocks

\* A status ends the request, or is looked at by start and stop; the message
\* argument that start gives twice raises a TypeError.
Conclude(running, pid) ==
    IF op.last \/ (op.kind = "stop" /\ ~running)
    THEN Answer(running)
    ELSE IF op.kind = "start" /\ running
    THEN Raise
    ELSE /\ pc' = IF op.kind = "start" THEN "spawn" ELSE "kill"
         /\ todo' = IF op.kind = "start" THEN {} ELSE Targets(running, pid)
         /\ UNCHANGED <<op, told>>

\* Bug variant for the checks: a process that was told to end counts as ended.
AliveUnlessSignalled(p) == Is(p) /\ proc[p].at # "zombie" /\ proc[p].sig = "none"

\* _is_pid_alive: a zombie is dead.
Alive(p) == Is(p) /\ proc[p].at # "zombie"

\* The state file comes first, whatever port is asked about; a pid that is not
\* alive clears it.
ReadRecord ==
    /\ pc = "read"
    /\ IF record # None /\ Alive(record.pid)
       THEN Conclude(TRUE, record.pid) /\ UNCHANGED record
       ELSE /\ record' = None
            /\ pc' = "probe"
            /\ UNCHANGED <<op, todo, told>>
    /\ UNCHANGED <<proc, histVars, left>>

\* Bug variant for the checks: the scan takes whatever listens on the port.
ScanPort(port) == {p \in Pids : Is(p) /\ proc[p].at = "up" /\ proc[p].port = port}

\* _iter_mock_openai_pids: mocks on any port.
Scan(port) == Mocks

Probe == /\ pc = "probe"
         /\ IF Open(op.port)
            THEN Conclude(TRUE, IF Scan(op.port) = {} THEN None ELSE Min(Scan(op.port)))
            ELSE Conclude(FALSE, None)
         /\ UNCHANGED <<proc, record, histVars, left>>
-----------------------------------------------------------------------------
(* The rest of _start_mock_openai.                                         *)

\* Popen, or its failure; todo holds the child's pid until it is written.
Spawn == /\ pc = "spawn"
         /\ \/ \E p \in Free :
                  /\ proc' = [q \in Pids |->
                                IF q = p THEN New("mock", op.port, TRUE)
                                ELSE IF Reaped(q) THEN None ELSE proc[q]]
                  /\ mocks' = mocks \cup {p} /\ lost' = lost \ {p}
                  /\ todo' = {p} /\ pc' = "write"
                  /\ UNCHANGED <<op, told>>
            \/ Raise /\ UNCHANGED <<proc, mocks, lost>>
         /\ UNCHANGED <<record, hit, left>>

\* _write_state, or its failure; then the status again.
Write == /\ pc = "write"
         /\ \/ /\ record' = [pid |-> CHOOSE p \in todo : TRUE, port |-> op.port]
               /\ op' = [op EXCEPT !.last = TRUE]
               /\ pc' = "read" /\ todo' = {}
               /\ UNCHANGED <<told, lost>>
            \/ Raise /\ lost' = lost \cup todo /\ UNCHANGED record
         /\ UNCHANGED <<proc, mocks, hit, left>>
-----------------------------------------------------------------------------
(* The rest of _stop_mock_openai; _terminate_pid for one pid at a time.    *)

Signal(p, sig) == /\ proc' = [proc EXCEPT ![p].sig = sig]
                  /\ hit' = hit \cup {p}

\* os.kill: SIGTERM to the smallest of the pids, which may have ended, or belong to
\* another user.
Kill == /\ pc = "kill" /\ todo # {}
        /\ LET p == Min(todo) IN
           IF ~Alive(p)
           THEN todo' = todo \ {p} /\ UNCHANGED <<proc, op, pc, told, hit>>
           ELSE IF proc[p].kind = "system"
           THEN Raise /\ UNCHANGED <<proc, hit>>
           ELSE Signal(p, "term") /\ pc' = "wait" /\ UNCHANGED <<op, todo, told>>
        /\ UNCHANGED <<record, lost, mocks, left>>

\* Bug variant for the checks: nothing ends the wait but the end of the process.
WaitForever == /\ pc = "wait" /\ ~Alive(Min(todo))
               /\ todo' = todo \ {Min(todo)} /\ pc' = "kill"
               /\ UNCHANGED <<proc, record, op, told, histVars, left>>

\* The process ends, or its eight seconds do; then it is killed if force is given.
Wait == /\ pc = "wait"
        /\ LET p == Min(todo) IN
           IF ~Alive(p) \/ ~op.force
           THEN UNCHANGED <<proc, hit, op, told>> /\ pc' = "kill" /\ todo' = todo \ {p}
           ELSE IF proc[p].kind = "system"
           THEN Raise /\ UNCHANGED <<proc, hit>>
           ELSE Signal(p, "kill") /\ UNCHANGED <<op, told>> /\ pc' = "kill" /\ todo' = todo \ {p}
        /\ UNCHANGED <<record, lost, mocks, left>>

Post == /\ pc = "kill" /\ todo = {}
        /\ op' = [op EXCEPT !.last = TRUE]
        /\ pc' = "read"
        /\ UNCHANGED <<proc, record, todo, told, histVars, left>>
-----------------------------------------------------------------------------
Manage == ReadRecord \/ Probe \/ Spawn \/ Write \/ Kill \/ Wait \/ Post

Next == \/ Receive \/ Manage
        \/ \E p \in Pids : Listen(p) \/ End(p)
        \/ Reap \/ Foreign \/ Crash

\* The thread of a request runs, and the eight seconds of a wait pass.
Spec == Init /\ [][Next]_vars /\ WF_vars(Manage)
-----------------------------------------------------------------------------
\* Every variable keeps its type.
TypeOK == /\ proc \in [Pids -> Process \cup {None}]
          /\ record \in [pid : Pids, port : Ports] \cup {None}
          /\ op \in Request \cup {None}
          /\ pc \in {"idle", "read", "probe", "spawn", "write", "kill", "wait"}
          /\ todo \subseteq Pids
          /\ told \in [kind : {"none", "error", "status", "start", "stop"},
                       running : BOOLEAN]
          /\ lost \subseteq Pids /\ mocks \subseteq Pids /\ hit \subseteq Pids
          /\ left \in [{"requests", "changes"} -> Nat]

Started == {p \in Mocks : proc[p].api /\ p \notin lost}

\* A mock that the manager has started is never forgotten while it lives, whatever
\* port is asked about and however often the server is killed: the state file names it
\* or the start is about to write it.  Only a start that breaks off between Popen and
\* the write leaves one behind.  So there is never a second one.
NoneForgotten ==
    \A p \in Started : \/ record # None /\ record.pid = p
                       \/ pc = "write" /\ todo = {p}

\* A stop that answers "not running" has left no started mock alive.
StopIsTrue ==
    [][told' # told /\ told'.kind = "stop" /\ ~told'.running => Started' = {}]_vars

\* The manager signals no process whose pid has not been a mock's: the worst it does is
\* to believe a state file or a status whose pid has been given away since.
OnlyMockPidsSignalled == hit \subseteq mocks

\* Every request ends, even if the process ignores its signal.
EveryRequestEnds == pc # "idle" ~> pc = "idle"
=============================================================================
