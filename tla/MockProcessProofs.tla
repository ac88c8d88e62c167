-------------------------- MODULE MockProcessProofs --------------------------
(***************************************************************************)
(* The manager of the mock server keeps track of the mocks it starts and   *)
(* signals no process that never was one, for any number of pids, ports,   *)
(* requests, crashes of the server and processes of others.                *)
(***************************************************************************)
EXTENDS MockProcess, WellFoundedInduction, TLAPS

\* The state file is not trusted any more, or not yet written.
FileEmpty == pc \in {"probe", "spawn", "write"} => record = None

\* Where a request has pids to deal with.
TodoStage == /\ pc # "idle" => op \in Request /\ (op.kind = "status" => op.last)
             /\ pc = "write" => \E p \in Pids : todo = {p}
             /\ pc = "wait" => todo # {}

\* Whatever the manager takes for a mock's pid has been one.
Known == /\ Mocks \subseteq mocks /\ todo \subseteq mocks /\ hit \subseteq mocks
         /\ record # None => record.pid \in mocks

Inv == TypeOK /\ TodoStage /\ FileEmpty /\ Known /\ NoneForgotten
-----------------------------------------------------------------------------
(* Lemmas about the process table.                                         *)

LEMMA MinIn ==
  ASSUME NEW S \in SUBSET Pids, S # {}
  PROVE  Min(S) \in S
<1>1. S \in SUBSET Nat
  BY MockProcessAssumption
<1>2. PICK x \in S : \A y \in S : <<y, x>> \notin OpToRel(<, Nat)
  BY <1>1, WFMin, NatLessThanWellFounded, Zenon
<1>3. \A y \in S : ~(y < x)
  BY <1>1, <1>2 DEF OpToRel
<1>4. \A y \in S : x <= y
  BY <1>1, <1>3
<1>5. QED
  BY <1>4 DEF Min

\* Processes end, come up, get a signal or a new parent, but none is new.
Shrinks ==
    /\ proc' \in [Pids -> Process \cup {None}]
    /\ \A q \in Pids : \/ proc'[q] = None
                       \/ /\ proc[q] # None
                          /\ proc'[q].kind = proc[q].kind /\ proc'[q].api = proc[q].api
                          /\ proc[q].at = "zombie" => proc'[q].at = "zombie"

LEMMA ShrinksMocks ==
  ASSUME Shrinks
  PROVE  /\ Mocks' \subseteq Mocks
         /\ lost \subseteq lost' => Started' \subseteq Started
  BY DEF Shrinks, Mocks, Started, Is

LEMMA SameShrinks ==
  ASSUME TypeOK, proc' = proc
  PROVE  Shrinks
  BY DEF TypeOK, Shrinks

\* Changing one process, but not what it is.
LEMMA OneShrinks ==
  ASSUME TypeOK, NEW p \in Pids, proc[p] # None, NEW new \in Process \cup {None},
         proc' = [proc EXCEPT ![p] = new],
         new # None => /\ new.kind = proc[p].kind /\ new.api = proc[p].api
                       /\ proc[p].at = "zombie" => new.at = "zombie"
  PROVE  Shrinks
  BY DEF TypeOK, Shrinks

LEMMA EndedShrinks ==
  ASSUME TypeOK, NEW p \in Pids, proc[p] # None, proc' = Ended(p)
  PROVE  Shrinks
<1>1. proc[p] \in Process
  BY DEF TypeOK
<1>2. CASE proc[p].child
  <2>1. proc' = [proc EXCEPT ![p] = [proc[p] EXCEPT !.at = "zombie"]]
    BY <1>2 DEF Ended
  <2>2. [proc[p] EXCEPT !.at = "zombie"] \in Process
    BY <1>1 DEF Process
  <2>3. QED
    BY <1>1, <2>1, <2>2, OneShrinks DEF Process
<1>3. CASE ~proc[p].child
  BY <1>3, OneShrinks DEF Ended
<1>4. QED
  BY <1>2, <1>3
-----------------------------------------------------------------------------
(* The host.                                                               *)

LEMMA SpendType ==
  ASSUME TypeOK, NEW budget \in {"requests", "changes"}, Spend(budget)
  PROVE  left' \in [{"requests", "changes"} -> Nat]
  BY DEF TypeOK, Spend

\* A step of the host that starts nothing and that no request takes part in.
LEMMA HostKeeps ==
  ASSUME Inv, Shrinks, UNCHANGED <<record, op, pc, todo, told, histVars>>,
         left' \in [{"requests", "changes"} -> Nat]
  PROVE  Inv'
<1>1. Mocks' \subseteq Mocks /\ Started' \subseteq Started
  BY ShrinksMocks DEF histVars
<1>2. TypeOK'
  BY DEF Inv, TypeOK, Shrinks, histVars
<1>3. TodoStage' /\ FileEmpty'
  BY DEF Inv, TodoStage, FileEmpty
<1>4. Known'
  BY <1>1 DEF Inv, Known, histVars
<1>5. NoneForgotten'
  BY <1>1 DEF Inv, NoneForgotten
<1>6. QED
  BY <1>2, <1>3, <1>4, <1>5 DEF Inv

LEMMA ListenKeeps ==
  ASSUME Inv, NEW p \in Pids, Listen(p)
  PROVE  Inv'
<1>1. TypeOK /\ proc[p] # None /\ proc[p] \in Process /\ proc[p].at = "starting"
  BY DEF Inv, TypeOK, Listen, Is
<1>2. Shrinks
  <2>1. CASE Open(proc[p].port)
    BY <1>1, <2>1, EndedShrinks DEF Listen
  <2>2. CASE ~Open(proc[p].port)
    <3>1. proc' = [proc EXCEPT ![p] = [proc[p] EXCEPT !.at = "up"]]
      BY <2>2 DEF Listen
    <3>2. [proc[p] EXCEPT !.at = "up"] \in Process
      BY <1>1 DEF Process
    <3>3. QED
      BY <1>1, <3>1, <3>2, OneShrinks DEF Process
  <2>3. QED
    BY <2>1, <2>2
<1>3. QED
  BY <1>2, HostKeeps DEF Listen, Inv, TypeOK

LEMMA EndKeeps ==
  ASSUME Inv, NEW p \in Pids, End(p)
  PROVE  Inv'
<1>1. Shrinks
  BY EndedShrinks DEF Inv, End, Is
<1>2. left' \in [{"requests", "changes"} -> Nat]
  BY SpendType DEF End, Inv, TypeOK
<1>3. QED
  BY <1>1, <1>2, HostKeeps DEF End

LEMMA ReapKeeps ==
  ASSUME Inv, Reap
  PROVE  Inv'
<1>1. Shrinks
  BY DEF Reap, Inv, TypeOK, Shrinks
<1>2. QED
  BY <1>1, HostKeeps DEF Reap, Inv, TypeOK

\* What is started by hand is no mock of the manager's, although it may get its pid.
LEMMA ForeignKeeps ==
  ASSUME Inv, Foreign
  PROVE  Inv'
<1>1. PICK p \in Free, k \in Kinds, port \in Ports :
         /\ proc' = [proc EXCEPT ![p] = New(k, port, FALSE)]
         /\ mocks' = IF k = "mock" THEN mocks \cup {p} ELSE mocks
  BY DEF Foreign
<1>2. UNCHANGED <<record, op, pc, todo, told, lost, hit>> /\ p \in Pids
  BY DEF Foreign, Free
<1>3. New(k, port, FALSE) \in Process /\ New(k, port, FALSE) # None
  <2>1. New(k, port, FALSE) \in Process
    BY DEF New, Process, Kinds
  <2>2. QED
    BY <2>1, MockProcessAssumption
<1>4. TypeOK'
  <2>1. left' \in [{"requests", "changes"} -> Nat]
    BY SpendType DEF Foreign, Inv
  <2>2. QED
    BY <1>1, <1>2, <1>3, <2>1 DEF Inv, TypeOK
<1>5. proc'[p] = New(k, port, FALSE) /\ \A q \in Pids \ {p} : proc'[q] = proc[q]
  BY <1>1, <1>2 DEF Inv, TypeOK
<1>6. Mocks' \subseteq Mocks \cup (IF k = "mock" THEN {p} ELSE {})
  BY <1>5 DEF Mocks, Is, New
<1>7. Started' \subseteq Started
  BY <1>2, <1>5 DEF Started, Mocks, Is, New
<1>8. TodoStage' /\ FileEmpty'
  BY <1>2 DEF Inv, TodoStage, FileEmpty
<1>9. Known'
  BY <1>1, <1>2, <1>6 DEF Inv, Known
<1>10. NoneForgotten'
  BY <1>2, <1>7 DEF Inv, NoneForgotten
<1>11. QED
  BY <1>4, <1>8, <1>9, <1>10 DEF Inv

\* A crash between Popen and the write loses the mock that was just started.
LEMMA CrashKeeps ==
  ASSUME Inv, Crash
  PROVE  Inv'
<1>1. /\ proc' = [p \in Pids |-> IF ~Is(p) \/ Reaped(p) THEN None
                                 ELSE [proc[p] EXCEPT !.child = FALSE]]
      /\ lost' = IF pc = "write" THEN lost \cup todo ELSE lost
      /\ op' = None /\ pc' = "idle" /\ todo' = {}
      /\ UNCHANGED <<record, told, mocks, hit>>
  BY DEF Crash
<1>2. ASSUME NEW q \in Pids, Is(q)
      PROVE  /\ [proc[q] EXCEPT !.child = FALSE] \in Process
             /\ [proc[q] EXCEPT !.child = FALSE].kind = proc[q].kind
             /\ [proc[q] EXCEPT !.child = FALSE].api = proc[q].api
             /\ [proc[q] EXCEPT !.child = FALSE].at = proc[q].at
  <2>1. proc[q] \in Process
    BY <1>2 DEF Inv, TypeOK, Is
  <2>2. QED
    BY <2>1 DEF Process
<1>3. Shrinks
  BY <1>1, <1>2 DEF Shrinks, Is
<1>4. Mocks' \subseteq Mocks /\ Started' \subseteq Started
  BY <1>1, <1>3, ShrinksMocks
<1>5. TypeOK'
  <2>1. left' \in [{"requests", "changes"} -> Nat]
    BY SpendType DEF Crash, Inv
  <2>2. QED
    BY <1>1, <1>3, <2>1 DEF Inv, TypeOK, Shrinks
<1>6. TodoStage' /\ FileEmpty'
  BY <1>1 DEF TodoStage, FileEmpty
<1>7. Known'
  BY <1>1, <1>4 DEF Inv, Known
<1>8. NoneForgotten'
  BY <1>1, <1>4 DEF Inv, NoneForgotten, Started
<1>9. QED
  BY <1>5, <1>6, <1>7, <1>8 DEF Inv
-----------------------------------------------------------------------------
(* The manager.                                                            *)

\* What a step of a request leaves behind it.
LEMMA ManageKeeps ==
  ASSUME Inv, Shrinks, TypeOK', TodoStage', FileEmpty',
         UNCHANGED mocks, lost \subseteq lost',
         todo' \subseteq mocks, hit' \subseteq hit \cup todo,
         record' # None => record'.pid \in mocks,
         \A p \in Started : \/ p \in lost'
                            \/ record' # None /\ record'.pid = p
                            \/ pc' = "write" /\ todo' = {p}
                            \/ p \notin Mocks'
  PROVE  Inv'
<1>1. Mocks' \subseteq Mocks /\ Started' \subseteq Started
  BY ShrinksMocks
<1>2. Known'
  BY <1>1 DEF Inv, Known
<1>3. NoneForgotten'
  BY <1>1 DEF NoneForgotten, Started
<1>4. QED
  BY <1>2, <1>3 DEF Inv

LEMMA ReceiveKeeps ==
  ASSUME Inv, Receive
  PROVE  Inv'
<1>1. /\ UNCHANGED <<proc, record, todo, told, lost, mocks, hit>>
      /\ op' \in Request /\ (op'.kind = "status" => op'.last)
      /\ pc = "idle" /\ pc' = "read"
  BY DEF Receive, histVars
<1>2. Shrinks
  BY <1>1, SameShrinks DEF Inv
<1>3. TypeOK'
  <2>1. left' \in [{"requests", "changes"} -> Nat]
    BY SpendType DEF Receive, Inv
  <2>2. QED
    BY <1>1, <2>1 DEF Inv, TypeOK
<1>4. TodoStage' /\ FileEmpty'
  BY <1>1 DEF TodoStage, FileEmpty
<1>5. todo' \subseteq mocks /\ (record' # None => record'.pid \in mocks)
  BY <1>1 DEF Inv, Known
<1>6. \A p \in Started : record' # None /\ record'.pid = p
  BY <1>1 DEF Inv, NoneForgotten
<1>7. UNCHANGED mocks /\ lost \subseteq lost' /\ hit' \subseteq hit \cup todo
  BY <1>1
<1>8. QED
  BY <1>2, <1>3, <1>4, <1>5, <1>6, <1>7, ManageKeeps

\* The four ways in which a status can end.
LEMMA Concluded ==
  ASSUME Inv, pc # "idle", NEW running \in BOOLEAN, NEW pid \in mocks \cup {None},
         Conclude(running, pid)
  PROVE  \/ /\ told' = [kind |-> op.kind, running |-> running]
            /\ op' = None /\ pc' = "idle" /\ todo' = {}
         \/ /\ told' = [kind |-> "error", running |-> FALSE]
            /\ op' = None /\ pc' = "idle" /\ todo' = {}
         \/ pc' = "spawn" /\ todo' = {} /\ ~running /\ UNCHANGED <<op, told>>
         \/ pc' = "kill" /\ running /\ todo' \subseteq mocks /\ UNCHANGED <<op, told>>
<1>1. op.kind \in {"status", "start", "stop"}
  BY DEF Inv, TodoStage, Request
<1>2. CASE op.last \/ (op.kind = "stop" /\ ~running)
  BY <1>2 DEF Conclude, Answer
<1>3. CASE ~op.last /\ op.kind = "start"
  BY <1>3 DEF Conclude, Raise
<1>4. CASE ~op.last /\ op.kind # "start" /\ (op.kind = "stop" => running)
  <2>1. op.kind = "stop"
    BY <1>1, <1>4 DEF Inv, TodoStage
  <2>2. Targets(running, pid) \subseteq mocks
    BY DEF Targets, Inv, Known
  <2>3. QED
    BY <1>4, <2>1, <2>2 DEF Conclude
<1>5. QED
  BY <1>2, <1>3, <1>4

\* A stop that answers "not running" leaves no started mock alive.
StopStep == told' # told /\ told'.kind = "stop" /\ ~told'.running => Started' = {}

\* Outside Popen and the write, the state file names every started mock.
LEMMA FileNames ==
  ASSUME Inv, pc # "write", NEW p \in Started
  PROVE  record # None /\ record.pid = p
  BY DEF Inv, NoneForgotten

LEMMA ConcludeKeeps ==
  ASSUME Inv, pc \in {"read", "probe"}, NEW running \in BOOLEAN,
         NEW pid \in mocks \cup {None}, Conclude(running, pid),
         running \/ record = None,
         UNCHANGED <<proc, record, lost, mocks, hit, left>>
  PROVE  Inv' /\ StopStep
<1>1. op \in Request /\ op.kind \in {"status", "start", "stop"}
  BY DEF Inv, TodoStage, Request
<1>2. \/ /\ told' = [kind |-> op.kind, running |-> running]
         /\ op' = None /\ pc' = "idle" /\ todo' = {}
      \/ /\ told' = [kind |-> "error", running |-> FALSE]
         /\ op' = None /\ pc' = "idle" /\ todo' = {}
      \/ pc' = "spawn" /\ todo' = {} /\ ~running /\ UNCHANGED <<op, told>>
      \/ pc' = "kill" /\ running /\ todo' \subseteq mocks /\ UNCHANGED <<op, told>>
  BY Concluded
<1>3. Shrinks
  BY SameShrinks DEF Inv
<1>4. TypeOK'
  <2>1. told' \in [kind : {"none", "error", "status", "start", "stop"}, running : BOOLEAN]
    <3>1. CASE told' = told
      BY <3>1 DEF Inv, TypeOK
    <3>2. CASE told' # told
      <4>1. \E k \in {"error", "status", "start", "stop"}, b \in BOOLEAN :
               told' = [kind |-> k, running |-> b]
        BY <1>1, <1>2, <3>2
      <4>2. QED
        BY <4>1
    <3>3. QED
      BY <3>1, <3>2
  <2>2. todo' \subseteq Pids
    BY <1>2 DEF Inv, TypeOK
  <2>3. QED
    BY <1>1, <1>2, <2>1, <2>2 DEF Inv, TypeOK
<1>5. TodoStage' /\ FileEmpty'
  BY <1>2 DEF Inv, TodoStage, FileEmpty
<1>6. todo' \subseteq mocks /\ (record' # None => record'.pid \in mocks)
  BY <1>2 DEF Inv, Known
<1>7. \A p \in Started : record' # None /\ record'.pid = p
  BY FileNames
<1>8. Inv'
  BY <1>3, <1>4, <1>5, <1>6, <1>7, ManageKeeps
<1>9. StopStep
  <2>1. SUFFICES ASSUME told' # told, told'.kind = "stop", ~told'.running
                 PROVE  Started' = {}
    BY DEF StopStep
  <2>2. ~running
    BY <1>2, <2>1
  <2>3. Started = {}
    BY <2>2, FileNames
  <2>4. QED
    BY <1>3, <2>3, ShrinksMocks
<1>10. QED
  BY <1>8, <1>9

\* A started mock is alive, so a state file that is cleared has named none.
LEMMA ReadRecordKeeps ==
  ASSUME Inv, ReadRecord
  PROVE  Inv' /\ StopStep
<1>1. pc = "read" /\ UNCHANGED <<proc, lost, mocks, hit, left>>
  BY DEF ReadRecord, histVars
<1>2. CASE record # None /\ Alive(record.pid)
  <2>1. Conclude(TRUE, record.pid) /\ record' = record
    BY <1>2 DEF ReadRecord
  <2>2. record.pid \in mocks
    BY <1>2 DEF Inv, Known
  <2>3. QED
    BY <1>1, <2>1, <2>2, ConcludeKeeps
<1>3. CASE ~(record # None /\ Alive(record.pid))
  <2>1. record' = None /\ pc' = "probe" /\ UNCHANGED <<op, todo, told>>
    BY <1>3 DEF ReadRecord
  <2>2. Started = {}
    BY <1>1, <1>3, FileNames DEF Started, Mocks, Alive
  <2>3. Shrinks
    BY <1>1, SameShrinks DEF Inv
  <2>4. TypeOK' /\ TodoStage' /\ FileEmpty'
    BY <1>1, <2>1 DEF Inv, TypeOK, TodoStage, FileEmpty
  <2>5. todo' \subseteq mocks
    BY <2>1 DEF Inv, Known
  <2>6. QED
    BY <1>1, <2>1, <2>2, <2>3, <2>4, <2>5, ManageKeeps DEF StopStep
<1>4. QED
  BY <1>2, <1>3

LEMMA ProbeKeeps ==
  ASSUME Inv, Probe
  PROVE  Inv' /\ StopStep
<1>1. pc = "probe" /\ UNCHANGED <<proc, record, lost, mocks, hit, left>>
  BY DEF Probe, histVars
<1>2. record = None
  BY <1>1 DEF Inv, FileEmpty
<1>3. Mocks \subseteq mocks /\ Mocks \in SUBSET Pids
  BY DEF Inv, Known, Mocks
<1>4. Mocks # {} => Min(Mocks) \in mocks
  BY <1>3, MinIn
<1>5. \E running \in BOOLEAN, pid \in mocks \cup {None} : Conclude(running, pid)
  BY <1>4 DEF Probe, Scan
<1>6. QED
  BY <1>1, <1>2, <1>5, ConcludeKeeps

\* A request that ends in an exception may lose what it has just started.
LEMMA RaiseKeeps ==
  ASSUME Inv, Raise, UNCHANGED <<proc, record, mocks, hit, left>>,
         IF pc = "write" THEN lost' = lost \cup todo ELSE lost' = lost
  PROVE  Inv' /\ StopStep
<1>1. /\ told' = [kind |-> "error", running |-> FALSE]
      /\ op' = None /\ pc' = "idle" /\ todo' = {}
  BY DEF Raise
<1>2. Shrinks
  BY SameShrinks DEF Inv
<1>3. TypeOK' /\ TodoStage' /\ FileEmpty'
  BY <1>1 DEF Inv, TypeOK, TodoStage, FileEmpty
<1>4. record' # None => record'.pid \in mocks
  BY DEF Inv, Known
<1>5. \A p \in Started : p \in lost' \/ (record' # None /\ record'.pid = p)
  BY DEF Inv, NoneForgotten
<1>6. QED
  BY <1>1, <1>2, <1>3, <1>4, <1>5, ManageKeeps DEF StopStep

\* At the time of Popen no started mock is alive, so there is never a second one.
LEMMA SpawnKeeps ==
  ASSUME Inv, Spawn
  PROVE  Inv' /\ StopStep
<1>1. /\ pc = "spawn" /\ record = None /\ op \in Request
      /\ UNCHANGED <<record, hit, left>>
      /\ Started = {}
  BY FileNames DEF Spawn, Inv, FileEmpty, TodoStage
<1>2. CASE Raise /\ UNCHANGED <<proc, mocks, lost>>
  BY <1>1, <1>2, RaiseKeeps
<1>3. ASSUME NEW p \in Free,
             proc' = [q \in Pids |-> IF q = p THEN New("mock", op.port, TRUE)
                                    ELSE IF Reaped(q) THEN None ELSE proc[q]],
             mocks' = mocks \cup {p}, lost' = lost \ {p}, todo' = {p}, pc' = "write",
             UNCHANGED <<op, told>>
      PROVE  Inv' /\ StopStep
  <2>1. p \in Pids
    BY DEF Free
  <2>2. New("mock", op.port, TRUE) \in Process
    <3>1. op.port \in Ports
      BY <1>1 DEF Request
    <3>2. QED
      BY <3>1 DEF New, Process, Kinds
  <2>3. \A q \in Pids : proc'[q] = IF q = p THEN New("mock", op.port, TRUE)
                                  ELSE IF Reaped(q) THEN None ELSE proc[q]
    BY <1>3
  <2>4. TypeOK'
    BY <1>1, <1>3, <2>1, <2>2 DEF Inv, TypeOK
  <2>5. TodoStage' /\ FileEmpty'
    BY <1>1, <1>3, <2>1 DEF Inv, TodoStage, FileEmpty
  <2>6. Mocks' \subseteq Mocks \cup {p}
    BY <2>3 DEF Mocks, Is
  <2>7. Known'
    BY <1>1, <1>3, <2>6 DEF Inv, Known
  <2>8. Started' \subseteq Started \cup {p}
    BY <1>3, <2>3 DEF Started, Mocks, Is
  <2>9. NoneForgotten'
    BY <1>1, <1>3, <2>8 DEF NoneForgotten
  <2>10. StopStep
    BY <1>3 DEF StopStep
  <2>11. QED
    BY <2>4, <2>5, <2>7, <2>9, <2>10 DEF Inv
<1>4. QED
  BY <1>2, <1>3 DEF Spawn

LEMMA WriteKeeps ==
  ASSUME Inv, Write
  PROVE  Inv' /\ StopStep
<1>1. /\ pc = "write" /\ record = None /\ op \in Request
      /\ UNCHANGED <<proc, mocks, hit, left>>
  BY DEF Write, Inv, FileEmpty, TodoStage
<1>2. PICK p \in Pids : todo = {p}
  BY <1>1 DEF Inv, TodoStage
<1>3. CASE Raise /\ lost' = lost \cup todo /\ UNCHANGED record
  BY <1>1, <1>3, RaiseKeeps
<1>4. CASE /\ record' = [pid |-> CHOOSE q \in todo : TRUE, port |-> op.port]
           /\ op' = [op EXCEPT !.last = TRUE]
           /\ pc' = "read" /\ todo' = {} /\ UNCHANGED <<told, lost>>
  <2>1. (CHOOSE q \in todo : TRUE) = p
    BY <1>2
  <2>2. record' = [pid |-> p, port |-> op.port]
    BY <1>4, <2>1
  <2>3. record' \in [pid : Pids, port : Ports] /\ record'.pid = p
    BY <1>1, <2>2 DEF Request
  <2>4. record' # None
    BY <2>3, MockProcessAssumption
  <2>5. op' \in Request /\ op'.last
    BY <1>1, <1>4 DEF Request
  <2>6. TypeOK' /\ TodoStage' /\ FileEmpty'
    BY <1>1, <1>4, <2>3, <2>5 DEF Inv, TypeOK, TodoStage, FileEmpty
  <2>7. p \in mocks
    BY <1>2 DEF Inv, Known
  <2>8. \A q \in Started : q = p
    BY <1>1, <1>2 DEF Inv, NoneForgotten
  <2>9. Shrinks
    BY <1>1, SameShrinks DEF Inv
  <2>10. QED
    BY <1>1, <1>4, <2>3, <2>4, <2>6, <2>7, <2>8, <2>9, ManageKeeps DEF StopStep
<1>5. QED
  BY <1>3, <1>4 DEF Write

\* A pid is signalled, or passed over, while its process is another one's or has ended.
LEMMA TerminateKeeps ==
  ASSUME Inv, pc \in {"kill", "wait"}, todo # {}, Shrinks,
         hit' \subseteq hit \cup todo, todo' \subseteq todo,
         pc' = "kill" \/ (pc' = "wait" /\ todo' = todo),
         UNCHANGED <<record, op, told, lost, mocks, left>>
  PROVE  Inv' /\ StopStep
<1>1. TypeOK'
  BY DEF Inv, TypeOK, Shrinks
<1>2. TodoStage' /\ FileEmpty'
  BY DEF Inv, TodoStage, FileEmpty
<1>3. todo' \subseteq mocks /\ (record' # None => record'.pid \in mocks)
  BY DEF Inv, Known
<1>4. \A p \in Started : record' # None /\ record'.pid = p
  BY FileNames
<1>5. QED
  BY <1>1, <1>2, <1>3, <1>4, ManageKeeps DEF StopStep

LEMMA SignalShrinks ==
  ASSUME Inv, NEW p \in Pids, Alive(p), NEW sig \in {"term", "kill"}, Signal(p, sig)
  PROVE  Shrinks /\ hit' = hit \cup {p}
<1>1. proc[p] \in Process /\ proc[p] # None
  BY DEF Inv, TypeOK, Alive, Is
<1>2. proc' = [proc EXCEPT ![p] = [proc[p] EXCEPT !.sig = sig]]
  BY DEF Signal
<1>3. [proc[p] EXCEPT !.sig = sig] \in Process
  BY <1>1 DEF Process
<1>4. QED
  BY <1>1, <1>2, <1>3, OneShrinks DEF Process, Signal, Inv

LEMMA KillKeeps ==
  ASSUME Inv, Kill \/ Wait
  PROVE  Inv' /\ StopStep
<1> DEFINE p == Min(todo)
<1>1. /\ pc \in {"kill", "wait"} /\ todo # {} /\ todo \in SUBSET Pids
      /\ UNCHANGED <<record, lost, mocks, left>>
  BY DEF Kill, Wait, Inv, TypeOK, TodoStage
<1>2. p \in todo /\ p \in Pids
  BY <1>1, MinIn
<1>3. CASE Raise /\ UNCHANGED <<proc, hit>>
  BY <1>1, <1>3, RaiseKeeps DEF Kill, Wait
<1>4. CASE /\ UNCHANGED <<proc, op, told, hit>> /\ todo' = todo \ {p} /\ pc' = "kill"
  <2>1. Shrinks
    BY <1>4, SameShrinks DEF Inv
  <2>2. QED
    BY <1>1, <1>4, <2>1, TerminateKeeps
<1>5. CASE /\ \E sig \in {"term", "kill"} : Signal(p, sig)
           /\ Alive(p) /\ UNCHANGED <<op, told>>
           /\ \/ pc' = "wait" /\ todo' = todo
              \/ pc' = "kill" /\ todo' = todo \ {p}
  <2>1. Shrinks /\ hit' = hit \cup {p}
    BY <1>2, <1>5, SignalShrinks
  <2>2. QED
    BY <1>1, <1>2, <1>5, <2>1, TerminateKeeps
<1>6. QED
  BY <1>3, <1>4, <1>5 DEF Kill, Wait

LEMMA PostKeeps ==
  ASSUME Inv, Post
  PROVE  Inv' /\ StopStep
<1>1. /\ pc = "kill" /\ pc' = "read" /\ op' = [op EXCEPT !.last = TRUE]
      /\ UNCHANGED <<proc, record, todo, told, lost, mocks, hit, left>>
  BY DEF Post, histVars
<1>2. op' \in Request /\ op'.last
  BY <1>1 DEF Inv, TodoStage, Request
<1>3. TypeOK' /\ TodoStage' /\ FileEmpty'
  BY <1>1, <1>2 DEF Inv, TypeOK, TodoStage, FileEmpty
<1>4. Shrinks
  BY <1>1, SameShrinks DEF Inv
<1>5. todo' \subseteq mocks /\ (record' # None => record'.pid \in mocks)
  BY <1>1 DEF Inv, Known
<1>6. \A p \in Started : record' # None /\ record'.pid = p
  BY <1>1, FileNames
<1>7. QED
  BY <1>1, <1>3, <1>4, <1>5, <1>6, ManageKeeps DEF StopStep
-----------------------------------------------------------------------------
LEMMA InitInv == Init => Inv
<1>1. SUFFICES ASSUME Init PROVE Inv
  OBVIOUS
<1>2. TypeOK
  BY <1>1, MockProcessAssumption DEF Init, TypeOK
<1>3. Mocks = {}
  BY <1>1 DEF Init, Mocks, Is
<1>4. QED
  BY <1>1, <1>2, <1>3 DEF Init, Inv, TodoStage, FileEmpty, Known, NoneForgotten, Started

LEMMA StepInv == Inv /\ [Next]_vars => Inv' /\ (StopStep \/ UNCHANGED vars)
<1>1. SUFFICES ASSUME Inv, [Next]_vars PROVE Inv' /\ (StopStep \/ UNCHANGED vars)
  OBVIOUS
<1>2. CASE UNCHANGED vars
  <2>1. Shrinks
    BY <1>1, <1>2, SameShrinks DEF Inv, vars
  <2>2. QED
    BY <1>1, <1>2, <2>1, HostKeeps DEF vars, Inv, TypeOK
<1>3. CASE Manage
  BY <1>1, <1>3, ReadRecordKeeps, ProbeKeeps, SpawnKeeps, WriteKeeps, KillKeeps, PostKeeps
     DEF Manage
<1>4. CASE Receive \/ Reap \/ Foreign \/ Crash \/ \E p \in Pids : Listen(p) \/ End(p)
  <2>1. StopStep
    BY <1>4 DEF StopStep, Receive, Reap, Foreign, Crash, Listen, End
  <2>2. QED
    BY <1>1, <1>4, <2>1, ReceiveKeeps, ReapKeeps, ForeignKeeps, CrashKeeps, ListenKeeps,
       EndKeeps
<1>5. QED
  BY <1>1, <1>2, <1>3, <1>4 DEF Next

\* The process table, the state file and the request keep their types.
THEOREM TypeCorrect == Spec => []TypeOK
<1>1. Inv => TypeOK
  BY DEF Inv
<1>2. QED
  BY InitInv, StepInv, <1>1, PTL DEF Spec

\* A mock that the manager has started is named by the state file while it lives, or is
\* about to be, however often the server is killed; only a start that breaks off between
\* Popen and _write_state loses one.
THEOREM NeverForgotten == Spec => []NoneForgotten
<1>1. Inv => NoneForgotten
  BY DEF Inv
<1>2. QED
  BY InitInv, StepInv, <1>1, PTL DEF Spec

\* The manager never has two mocks of its own running, whichever ports it was asked to
\* start them on: a start that finds the first alive raises (_start_mock_openai).
THEOREM NeverTwo == Spec => [](\A p, q \in Started : p = q)
<1>1. Inv => \A p, q \in Started : p = q
  BY DEF Inv, FileEmpty, NoneForgotten
<1>2. QED
  BY InitInv, StepInv, <1>1, PTL DEF Spec

\* Only pids that have been a mock's are ever signalled (_terminate_pid).
THEOREM OnlyMocksHit == Spec => []OnlyMockPidsSignalled
<1>1. Inv => OnlyMockPidsSignalled
  BY DEF Inv, Known, OnlyMockPidsSignalled
<1>2. QED
  BY InitInv, StepInv, <1>1, PTL DEF Spec

\* A stop that answers "not running" has left no started mock alive (_stop_mock_openai).
THEOREM StopTellsTruth == Spec => StopIsTrue
<1>1. Inv /\ [Next]_vars =>
        [told' # told /\ told'.kind = "stop" /\ ~told'.running => Started' = {}]_vars
  BY StepInv DEF StopStep
<1>2. QED
  BY InitInv, StepInv, <1>1, PTL DEF Spec, StopIsTrue
=============================================================================
