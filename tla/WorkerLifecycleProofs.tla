------------------------ MODULE WorkerLifecycleProofs ------------------------
(***************************************************************************)
(* No provider ever has two worker threads.  The threads change in four    *)
(* ways only: one starts where the provider has none, one moves on, one    *)
(* ends, or none changes; each keeps their types and their uniqueness.     *)
(* The second part is about an administrator who waits for everything to   *)
(* be over before the next request: then rows and workers match, and a     *)
(* stop command finds the worker it was sent for.                          *)
(***************************************************************************)
EXTENDS MCWorkerLifecycle, TLAPS

ThreadsOK == thread \in [Idents -> Threads \cup {None}] /\ OneEach

RequestsOK == /\ row \in [Providers -> {"none", "on", "off"}]
              /\ sessions \subseteq Providers
              /\ stops \subseteq Stop
              /\ loop \in Calls \cup {None}
              /\ step \in [Calls -> Steps]
              /\ op \in [Calls -> Ops]
              /\ prov \in [Calls -> Providers]
              /\ want \in [Calls -> BOOLEAN]
              /\ was \in [Calls -> {"none", "on", "off"}]
              /\ todo \in [Calls -> SUBSET Providers]
              /\ left \in [{"faults", "late"} -> Nat]

Inv == ThreadsOK /\ RequestsOK

\* A thread is a record, and None is none.
LEMMA NoneIsNoThread == None \notin Threads
  BY LifecycleAssumption

\* start_worker_thread() where the provider has no thread.
LEMMA StartKeeps ==
  ASSUME ThreadsOK, NEW p \in Providers, Workers(p) = {}, StartThread(p)
  PROVE  ThreadsOK'
<1>1. PICK i \in Idents : ~Live(i) /\ thread' = [thread EXCEPT ![i] = Boot(p)]
  BY DEF StartThread
<1>2. Boot(p) \in Threads
  BY DEF Boot, Threads, Places
<1>3. thread' \in [Idents -> Threads \cup {None}]
  BY <1>1, <1>2 DEF ThreadsOK
<1>4. \A j \in Idents \ {i} : thread'[j] = thread[j]
  BY <1>1 DEF ThreadsOK
<1>5. thread'[i] = Boot(p)
  BY <1>1 DEF ThreadsOK
<1>6. \A j \in Idents : Live(j) => thread[j].prov # p
  BY DEF Workers
<1>7. OneEach'
  BY <1>4, <1>5, <1>6 DEF OneEach, Live, Boot, ThreadsOK
<1>8. QED
  BY <1>3, <1>7 DEF ThreadsOK

\* The same for the guarded start of the handlers.
LEMMA StartIfMissingKeeps ==
  ASSUME ThreadsOK, NEW p \in Providers, StartIfMissing(p)
  PROVE  ThreadsOK'
<1>1. CASE Workers(p) = {}
  BY <1>1, StartKeeps DEF StartIfMissing
<1>2. CASE Workers(p) # {}
  BY <1>2 DEF StartIfMissing, ThreadsOK, OneEach, Live
<1>3. QED
  BY <1>1, <1>2

\* A thread that moves on keeps its provider.
LEMMA MoveKeeps ==
  ASSUME ThreadsOK, NEW i \in Idents, Live(i), NEW place \in Places, Move(i, place)
  PROVE  ThreadsOK'
<1>1. thread[i] \in Threads
  BY DEF ThreadsOK, Live
<1>2. [prov |-> thread[i].prov, at |-> place] \in Threads
  BY <1>1 DEF Threads
<1>3. thread' \in [Idents -> Threads \cup {None}]
  BY <1>2 DEF ThreadsOK, Move
<1>4. \A j \in Idents \ {i} : thread'[j] = thread[j]
  BY DEF ThreadsOK, Move
<1>5. thread'[i].prov = thread[i].prov
  BY DEF ThreadsOK, Move
<1>6. OneEach'
  BY <1>4, <1>5 DEF OneEach, Live, ThreadsOK
<1>7. QED
  BY <1>3, <1>6 DEF ThreadsOK

\* A thread that ends.
LEMMA EndKeeps ==
  ASSUME ThreadsOK, NEW i \in Idents, thread' = [thread EXCEPT ![i] = None]
  PROVE  ThreadsOK'
<1>1. thread' \in [Idents -> Threads \cup {None}]
  BY DEF ThreadsOK
<1>2. thread'[i] = None /\ \A j \in Idents \ {i} : thread'[j] = thread[j]
  BY DEF ThreadsOK
<1>3. QED
  BY <1>1, <1>2 DEF ThreadsOK, OneEach, Live

LEMMA StillKeeps ==
  ASSUME ThreadsOK, UNCHANGED thread
  PROVE  ThreadsOK'
  BY DEF ThreadsOK, OneEach, Live

\* Every step of a worker keeps the threads.
LEMMA WorkerKeeps ==
  ASSUME Inv, NEW i \in Idents, Work(i) \/ Look(i) \/ WorkerFault(i)
  PROVE  ThreadsOK'
<1>0. ThreadsOK
  BY DEF Inv
<1>1. CASE BootRow(i)
  BY <1>0, <1>1, MoveKeeps DEF BootRow, Places
<1>2. CASE BootPage(i)
  BY <1>0, <1>2, MoveKeeps DEF BootPage, Places
<1>3. CASE BeginChat(i)
  BY <1>0, <1>3, MoveKeeps DEF BeginChat, Places
<1>4. CASE BlockInGet(i)
  BY <1>0, <1>4, MoveKeeps DEF BlockInGet, Places
<1>5. CASE Unblock(i)
  BY <1>0, <1>5, MoveKeeps DEF Unblock, Places
<1>6. CASE EndChat(i)
  BY <1>0, <1>6, MoveKeeps DEF EndChat, Places
<1>7. CASE ObeyStop(i)
  BY <1>0, <1>7, MoveKeeps DEF ObeyStop, Places
<1>8. CASE WorkerFault(i)
  <2>1. Live(i)
    BY <1>8 DEF WorkerFault
  <2>2. thread' = [thread EXCEPT ![i] = None] \/ Move(i, "closing")
    BY <1>8 DEF WorkerFault
  <2>3. QED
    BY <1>0, <2>1, <2>2, MoveKeeps, EndKeeps DEF Places
<1>9. CASE Exit(i)
  BY <1>0, <1>9, EndKeeps DEF Exit
<1>10. QED
  BY <1>1, <1>2, <1>3, <1>4, <1>5, <1>6, <1>7, <1>8, <1>9 DEF Work, Look

\* Every step of a request keeps the threads.
LEMMA CallKeeps ==
  ASSUME Inv, NEW c \in Calls, Begin(c) \/ Handle(c)
  PROVE  ThreadsOK'
<1>0. ThreadsOK /\ prov[c] \in Providers /\ todo[c] \subseteq Providers
  BY DEF Inv, RequestsOK
<1>1. CASE VerifyNext(c)
  <2>1. PICK p \in todo[c] : EnsureWorker(p) \/ UNCHANGED thread
    BY <1>1 DEF VerifyNext
  <2>2. StartIfMissing(p) \/ UNCHANGED thread
    BY <2>1 DEF EnsureWorker
  <2>3. QED
    BY <1>0, <2>2, StartIfMissingKeeps, StillKeeps
<1>2. CASE Finish(c)
  <2>1. StartIfMissing(prov[c]) \/ UNCHANGED thread
    BY <1>2 DEF Finish, Disable, Enable, Keep
  <2>2. QED
    BY <1>0, <2>1, StartIfMissingKeeps, StillKeeps
<1>3. CASE UNCHANGED thread
  BY <1>0, <1>3, StillKeeps
<1>4. \/ VerifyNext(c) \/ Finish(c) \/ UNCHANGED thread
  BY DEF Begin, Handle, ReadRow, WriteRow, DiscoverRows, Delete, DeleteSessions,
         DeleteRow, ListSessions, CleanSession, DiscoverRequest, ClearSessions,
         CheckSession, NotifyReady
<1>5. QED
  BY <1>1, <1>2, <1>3, <1>4
-----------------------------------------------------------------------------
(* Types.                                                                  *)

LEMMA SpendKeeps ==
  ASSUME left \in [{"faults", "late"} -> Nat], NEW b \in {"faults", "late"}, Spend(b)
  PROVE  left' \in [{"faults", "late"} -> Nat]
<1>1. left[b] \in Nat /\ left[b] - 1 \in Nat
  BY DEF Spend
<1>2. QED
  BY <1>1 DEF Spend

LEMMA WorkerTypes ==
  ASSUME Inv, NEW i \in Idents, Work(i) \/ Look(i) \/ WorkerFault(i)
  PROVE  RequestsOK'
<1>0. RequestsOK /\ thread \in [Idents -> Threads \cup {None}]
  BY DEF Inv, ThreadsOK
<1>1. CASE BootRow(i)
  <2>1. thread[i].prov \in Providers
    BY <1>0, <1>1 DEF BootRow, Live, Threads
  <2>2. QED
    BY <1>0, <1>1, <2>1 DEF BootRow, RequestsOK, callVars
<1>2. CASE ObeyStop(i)
  BY <1>0, <1>2 DEF ObeyStop, RequestsOK, callVars
<1>3. CASE WorkerFault(i)
  <2>1. left' \in [{"faults", "late"} -> Nat]
    BY <1>0, <1>3, SpendKeeps DEF WorkerFault, RequestsOK
  <2>2. QED
    BY <1>0, <1>3, <2>1 DEF WorkerFault, RequestsOK, callVars
<1>4. CASE \/ BootPage(i) \/ BeginChat(i) \/ EndChat(i) \/ Exit(i)
            \/ BlockInGet(i) \/ Unblock(i)
  BY <1>0, <1>4 DEF BootPage, BeginChat, EndChat, Exit, BlockInGet, Unblock, RequestsOK,
     callVars
<1>5. QED
  BY <1>1, <1>2, <1>3, <1>4 DEF Work, Look

LEMMA CallTypes ==
  ASSUME Inv, NEW c \in Calls, Begin(c) \/ Handle(c)
  PROVE  RequestsOK'
<1>0. RequestsOK
  BY DEF Inv
<1> USE DEF RequestsOK, Go, Receive, Steps, Ops
<1>1. CASE ReadRow(c)
  BY <1>0, <1>1 DEF ReadRow
<1>2. CASE WriteRow(c)
  <2>1. row' \in [Providers -> {"none", "on", "off"}]
    BY <1>0, <1>2 DEF WriteRow
  <2>2. todo' \in [Calls -> SUBSET Providers]
    BY <1>0, <1>2 DEF WriteRow
  <2>3. QED
    BY <1>0, <1>2, <2>1, <2>2 DEF WriteRow
<1>3. CASE DiscoverRows(c)
  BY <1>0, <1>3 DEF DiscoverRows
<1>4. CASE VerifyNext(c)
  BY <1>0, <1>4 DEF VerifyNext
<1>5. CASE Finish(c)
  <2>1. StopWorker(c) => stops' \subseteq Stop
    BY <1>0 DEF StopWorker, Stop, Workers
  <2>2. stops' \subseteq Stop /\ sessions' \subseteq Providers
    BY <1>0, <1>5, <2>1 DEF Finish, Disable, Enable, Keep
  <2>3. QED
    BY <1>0, <1>5, <2>2 DEF Finish
<1>6. CASE Delete(c) \/ DeleteSessions(c)
  BY <1>0, <1>6 DEF Delete, DeleteSessions
<1>7. CASE DeleteRow(c)
  BY <1>0, <1>7 DEF DeleteRow
<1>8. CASE ListSessions(c) \/ CleanSession(c)
  BY <1>0, <1>8 DEF ListSessions, CleanSession
<1>9. CASE DiscoverRequest(c) \/ ClearSessions(c)
  BY <1>0, <1>9 DEF DiscoverRequest, ClearSessions, Enabled
<1>10. CASE CheckSession(c) \/ NotifyReady(c)
  <2>1. todo' \in [Calls -> SUBSET Providers]
    BY <1>0, <1>10 DEF CheckSession, NotifyReady, PostVerify
  <2>2. QED
    BY <1>0, <1>10, <2>1 DEF CheckSession, NotifyReady, PostVerify
<1>11. QED
  BY <1>1, <1>2, <1>3, <1>4, <1>5, <1>6, <1>7, <1>8, <1>9, <1>10 DEF Begin, Handle
-----------------------------------------------------------------------------
LEMMA InitInv == Init => Inv
<1>1. SUFFICES ASSUME Init PROVE Inv
  OBVIOUS
<1>2. \A p \in Providers : Boot(p) \in Threads
  BY DEF Boot, Threads, Places
<1>3. ThreadsOK
  BY <1>1, <1>2 DEF Init, ThreadsOK
<1>4. left \in [{"faults", "late"} -> Nat]
  BY <1>1, LifecycleAssumption DEF Init
<1>5. RequestsOK
  BY <1>1, <1>4 DEF Init, RequestsOK, Steps, Ops
<1>6. QED
  BY <1>3, <1>5 DEF Inv

LEMMA StepInv == Inv /\ [Next]_vars => Inv'
<1>1. SUFFICES ASSUME Inv, [Next]_vars PROVE Inv'
  OBVIOUS
<1>2. ASSUME NEW c \in Calls, Begin(c) \/ Handle(c) PROVE Inv'
  BY <1>1, <1>2, CallKeeps, CallTypes DEF Inv
<1>3. ASSUME NEW i \in Idents, Work(i) \/ Look(i) \/ WorkerFault(i) PROVE Inv'
  BY <1>1, <1>3, WorkerKeeps, WorkerTypes DEF Inv
<1>4. ASSUME NEW p \in Providers, VerifyRequest(p) PROVE Inv'
  <2>1. ThreadsOK'
    BY <1>1, <1>4, StartKeeps DEF VerifyRequest, Inv
  <2>2. RequestsOK'
    BY <1>1, <1>4 DEF VerifyRequest, Inv, RequestsOK, callVars
  <2>3. QED
    BY <2>1, <2>2 DEF Inv
<1>5. CASE StopExpires
  <2>1. ThreadsOK'
    BY <1>1, <1>5, StillKeeps DEF StopExpires, Inv
  <2>2. left' \in [{"faults", "late"} -> Nat]
    BY <1>1, <1>5, SpendKeeps DEF StopExpires, Inv, RequestsOK
  <2>3. RequestsOK'
    BY <1>1, <1>5, <2>2 DEF StopExpires, Inv, RequestsOK, callVars
  <2>4. QED
    BY <2>1, <2>3 DEF Inv
<1>6. CASE UNCHANGED vars
  BY <1>1, <1>6, StillKeeps DEF Inv, RequestsOK, vars, callVars
<1>7. QED
  BY <1>1, <1>2, <1>3, <1>4, <1>5, <1>6 DEF Next

\* The rows, the threads and the requests keep their types.
THEOREM TypeCorrect == Spec => []TypeOK
<1>1. Inv => TypeOK
  BY DEF Inv, ThreadsOK, RequestsOK, TypeOK
<1>2. QED
  BY InitInv, StepInv, <1>1, PTL DEF Spec

\* No provider ever has two worker threads, whichever requests overlap (the looks at
\* threading.enumerate() in providers.py and routers/worker.py, each in one step of
\* the event loop with the start that follows it).
THEOREM NeverTwoWorkers == Spec => []OneWorker
<1>1. Inv => OneWorker
  BY DEF Inv, ThreadsOK, OneWorker
<1>2. QED
  BY InitInv, StepInv, <1>1, PTL DEF Spec
-----------------------------------------------------------------------------
(* A patient administrator.                                                *)

Active(c)  == step[c] \notin {"new", "done"}
Changes(c) == op[c] \in {"create", "update"}

Targeted(i) == \E s \in stops : s.target = i
Closing(i)  == Live(i) /\ thread[i].at = "closing"

\* What a call that waits for its turn knows of its provider's row.
Informed(c) ==
    /\ step[c] = "new" => ~want[c]
    /\ Active(c) => step[c] \in {"write", "discover", "verify", "clean"}
    /\ Active(c) /\ ~Changes(c) => ~want[c]
    /\ step[c] = "write" => Changes(c) /\ was[c] = row[prov[c]]
    /\ step[c] = "clean" => ~Changes(c) /\ row[prov[c]] # "on"
    /\ Active(c) /\ Changes(c) => (op[c] = "create" <=> was[c] = "none")
    /\ step[c] \in {"discover", "verify"} /\ Changes(c) =>
          row[prov[c]] = IF want[c] THEN "on" ELSE "off"

\* The calls on their way to starting and to stopping the worker of p.
Written(c)  == step[c] \in {"discover", "verify"} /\ Changes(c)
Starting(p) == \E c \in Calls : Written(c) /\ prov[c] = p /\ want[c] /\ was[c] # "on"
Stopping(p) == \E c \in Calls : Written(c) /\ prov[c] = p /\ ~want[c] /\ was[c] = "on"

\* One thing at a time.
OneAtATime ==
    /\ \A c, d \in Calls : Active(c) /\ Active(d) => c = d
    /\ (\E c \in Calls : Active(c)) => stops = {} /\ \A i \in Idents : ~Closing(i)

\* Each stop command has a thread to stop, and only that.
StopsFit == /\ \A s \in stops : Live(s.target) /\ thread[s.target].at # "closing"
            /\ \A s, u \in stops : s.target = u.target => s = u

\* How the threads of a provider fit its row.
Fits(p) ==
    /\ row[p] = "none" => Workers(p) = {}
    /\ row[p] = "on" =>
          /\ Workers(p) # {} \/ Starting(p)
          /\ p \in sessions \/ Workers(p) = {} \/ \E i \in Workers(p) : thread[i].at = "boot"
          /\ \A i \in Workers(p) : ~Targeted(i) /\ ~Closing(i)
    /\ row[p] = "off" =>
          Stopping(p) \/ \A i \in Workers(p) : Targeted(i) \/ Closing(i)

Calm == /\ \A c \in Calls : Informed(c)
        /\ OneAtATime /\ StopsFit
        /\ \A p \in Providers : Fits(p)

CalmInv == Inv /\ Calm

\* A call that nothing happens to.
LEMMA OthersInformed ==
  ASSUME NEW d \in Calls, Informed(d),
         step'[d] = step[d], op'[d] = op[d], want'[d] = want[d], was'[d] = was[d],
         prov'[d] = prov[d], ~Active(d) \/ row' = row
  PROVE  Informed(d)'
  BY DEF Informed, Active, Changes

LEMMA WorkersByThread ==
  ASSUME NEW p \in Providers, NEW i \in Idents
  PROVE  /\ i \in Workers(p) <=> Live(i) /\ thread[i].prov = p
         /\ Workers(p) \subseteq Idents
  BY DEF Workers

\* A thread that moves on is still there, and a step that moves one does nothing else
\* to the threads.
LEMMA MovesOne ==
  ASSUME Inv, NEW i \in Idents, Live(i), NEW place \in Places, Move(i, place)
  PROVE  /\ thread'[i] = [prov |-> thread[i].prov, at |-> place]
         /\ \A j \in Idents \ {i} : thread'[j] = thread[j]
         /\ \A j \in Idents : Live(j)' = Live(j)
         /\ \A p : Workers(p)' = Workers(p)
<1>1. /\ thread'[i] = [prov |-> thread[i].prov, at |-> place]
      /\ \A j \in Idents \ {i} : thread'[j] = thread[j]
  BY DEF Move, Inv, ThreadsOK
<1>2. thread[i] \in Threads
  BY DEF Inv, ThreadsOK, Live
<1>3. [prov |-> thread[i].prov, at |-> place] \in Threads
  BY <1>2 DEF Threads
<1>4. thread'[i] # None
  BY <1>1, <1>3, NoneIsNoThread
<1>5. \A j \in Idents : Live(j)' = Live(j)
  BY <1>1, <1>4 DEF Live
<1>6. \A j \in Idents : Live(j) => thread'[j].prov = thread[j].prov
  BY <1>1
<1>7. \A p : Workers(p)' = Workers(p)
  BY <1>5, <1>6 DEF Workers
<1>8. QED
  BY <1>1, <1>5, <1>7

\* Booting, chatting, obeying.
LEMMA MovingIsCalm ==
  ASSUME CalmInv, NEW i \in Idents, Live(i), NEW place \in Places \ {"boot"},
         Move(i, place), UNCHANGED <<row, callVars>>,
         sessions \subseteq sessions',
         thread[i].at = "boot" => thread[i].prov \in sessions',
         \/ UNCHANGED stops /\ place # "closing" /\ thread[i].at # "closing"
         \/ /\ place = "closing"
            /\ \E s \in stops : s.target = i /\ stops' = stops \ {s}
  PROVE  Calm'
<1> USE DEF CalmInv, Calm
<1>1. /\ thread'[i] = [prov |-> thread[i].prov, at |-> place]
      /\ \A j \in Idents \ {i} : thread'[j] = thread[j]
      /\ \A j \in Idents : Live(j)' = Live(j)
      /\ \A p : Workers(p)' = Workers(p)
  BY MovesOne
<1>2. UNCHANGED <<step, op, prov, want, was, todo>>
  BY DEF callVars
<1>3. \A c \in Calls : Informed(c)'
  BY <1>2, OthersInformed
<1>4. \A j \in Idents : Closing(j)' <=> IF j = i THEN place = "closing" ELSE Closing(j)
  BY <1>1 DEF Closing
<1>5. stops' \subseteq stops /\ stops \subseteq Stop
  BY DEF Inv, RequestsOK
<1>6. \A j \in Idents : Targeted(j)' <=> Targeted(j) /\ ~(j = i /\ place = "closing")
  <2>1. CASE UNCHANGED stops /\ place # "closing"
    BY <2>1 DEF Targeted
  <2>2. CASE place = "closing" /\ \E s \in stops : s.target = i /\ stops' = stops \ {s}
    <3>1. PICK s \in stops : s.target = i /\ stops' = stops \ {s}
      BY <2>2
    <3>2. \A u \in stops : u.target = i => u = s
      BY <3>1 DEF StopsFit
    <3>3. QED
      BY <2>2, <3>1, <3>2 DEF Targeted
  <2>3. QED
    BY <2>1, <2>2
<1>7. OneAtATime'
  <2>1. \A c \in Calls : Active(c)' <=> Active(c)
    BY <1>2 DEF Active
  <2>2. (\E c \in Calls : Active(c)) => stops' = {} /\ place # "closing"
    BY <1>5 DEF OneAtATime
  <2>3. QED
    BY <1>4, <2>1, <2>2 DEF OneAtATime
<1>8. StopsFit'
  <2>1. ASSUME NEW s \in stops' PROVE Live(s.target)' /\ thread'[s.target].at # "closing"
    <3>1. s.target \in Idents /\ Live(s.target) /\ thread[s.target].at # "closing"
      BY <1>5, <2>1 DEF StopsFit, Stop
    <3>2. Targeted(s.target)'
      BY <2>1 DEF Targeted
    <3>3. ~(s.target = i /\ place = "closing")
      BY <1>6, <3>1, <3>2
    <3>4. QED
      BY <1>1, <3>1, <3>3
  <2>2. QED
    BY <1>5, <2>1 DEF StopsFit
<1>9. ASSUME NEW p \in Providers PROVE Fits(p)'
  <2>1. Starting(p)' = Starting(p) /\ Stopping(p)' = Stopping(p) /\ row' = row
    BY <1>2 DEF Starting, Stopping, Written, Changes
  <2>2. Fits(p) /\ Workers(p)' = Workers(p) /\ Workers(p) \subseteq Idents
    BY <1>1 DEF Workers
  <2>3. row[p] = "on" =>
           /\ p \in sessions' \/ Workers(p) = {} \/ \E j \in Workers(p) : thread'[j].at = "boot"
           /\ \A j \in Workers(p) : ~Targeted(j)' /\ ~Closing(j)'
    <3>1. SUFFICES ASSUME row[p] = "on"
          PROVE  /\ \/ p \in sessions' \/ Workers(p) = {}
                    \/ \E j \in Workers(p) : thread'[j].at = "boot"
                 /\ \A j \in Workers(p) : ~Targeted(j)' /\ ~Closing(j)'
      OBVIOUS
    <3>2. ASSUME NEW j \in Workers(p), thread[j].at = "boot"
          PROVE  p \in sessions' \/ thread'[j].at = "boot"
      BY <1>1, <2>2, <3>2 DEF Workers
    <3>3. \A j \in Workers(p) : ~Targeted(j) /\ ~Closing(j)
      BY <2>2, <3>1 DEF Fits
    <3>4. place = "closing" => Targeted(i)
      BY DEF Targeted
    <3>5. \A j \in Workers(p) : ~Targeted(j)' /\ ~Closing(j)'
      BY <1>4, <1>6, <2>2, <3>3, <3>4
    <3>6. QED
      BY <2>2, <3>1, <3>2, <3>5 DEF Fits
  <2>4. \A j \in Workers(p) : Targeted(j) \/ Closing(j) => Targeted(j)' \/ Closing(j)'
    <3>1. SUFFICES ASSUME NEW j \in Workers(p), Targeted(j) \/ Closing(j)
                   PROVE  Targeted(j)' \/ Closing(j)'
      OBVIOUS
    <3>2. CASE j # i
      BY <1>4, <1>6, <2>2, <3>1, <3>2
    <3>3. CASE j = i
      BY <1>4, <1>6, <3>1, <3>3 DEF Closing
    <3>4. QED
      BY <3>2, <3>3
  <2>5. QED
    BY <2>1, <2>2, <2>3, <2>4 DEF Fits
<1>10. QED
  BY <1>3, <1>7, <1>8, <1>9

\* A thread that has closed its page goes away.
LEMMA ExitIsCalm ==
  ASSUME CalmInv, NEW i \in Idents, Exit(i)
  PROVE  Calm'
<1> USE DEF CalmInv, Calm
<1>1. /\ Closing(i) /\ thread' = [thread EXCEPT ![i] = None]
      /\ UNCHANGED <<row, sessions, stops, step, op, prov, want, was, todo>>
  BY DEF Exit, Closing, callVars
<1>2. ~Live(i)' /\ \A j \in Idents \ {i} : thread'[j] = thread[j]
  BY <1>1 DEF Inv, ThreadsOK, Live
<1>3. \A p : Workers(p)' = Workers(p) \ {i}
  BY <1>2 DEF Workers, Live
<1>4. /\ \A j \in Idents \ {i} : Closing(j)' = Closing(j)
      /\ ~Closing(i)' /\ \A j \in Idents : Targeted(j)' = Targeted(j)
  BY <1>1, <1>2 DEF Closing, Live, Targeted
<1>5. \A c \in Calls : Informed(c)'
  BY <1>1, OthersInformed
<1>6. OneAtATime'
  BY <1>1, <1>4 DEF OneAtATime, Active
<1>7. StopsFit'
  <2>1. \A s \in stops : s.target \in Idents /\ s.target # i
    BY <1>1 DEF StopsFit, Closing, Inv, RequestsOK, Stop
  <2>2. QED
    BY <1>1, <1>2, <2>1 DEF StopsFit, Live
<1>8. ASSUME NEW p \in Providers PROVE Fits(p)'
  <2>1. UNCHANGED <<Starting(p), Stopping(p), row>>
    BY <1>1 DEF Starting, Stopping, Written, Changes
  <2>2. Workers(p)' = Workers(p) \ {i} /\ Workers(p) \subseteq Idents /\ Fits(p)
    BY <1>3 DEF Workers
  <2>3. row[p] = "on" => i \notin Workers(p)
    BY <1>1, <2>2 DEF Fits
  <2>4. QED
    BY <1>1, <1>2, <1>4, <2>1, <2>2, <2>3 DEF Fits
<1>9. QED
  BY <1>5, <1>6, <1>7, <1>8

\* Neither a thread nor a command nor the row of an enabled provider changes.
LEMMA FitsStill ==
  ASSUME CalmInv, UNCHANGED <<row, thread, stops>>,
         NEW p \in Providers, row[p] = "on" /\ p \in sessions => p \in sessions',
         Starting(p) => Starting(p)', Stopping(p) => Stopping(p)'
  PROVE  Fits(p)'
<1>1. /\ UNCHANGED <<Workers(p), row>> /\ Workers(p) \subseteq Idents
      /\ \A j \in Workers(p) : UNCHANGED <<Targeted(j), Closing(j)>>
  BY DEF Workers, Live, Targeted, Closing
<1>2. QED
  BY <1>1 DEF CalmInv, Calm, Fits

\* An enabled provider without a thread gets one.
LEMMA StartFits ==
  ASSUME CalmInv, NEW p \in Providers, row[p] = "on", Workers(p) = {}, StartThread(p),
         UNCHANGED <<row, stops, sessions>>,
         \A q \in Providers : q # p /\ Starting(q) => Starting(q)',
         \A q \in Providers : Stopping(q) => Stopping(q)'
  PROVE  /\ StopsFit' /\ \A q \in Providers : Fits(q)'
         /\ \A j \in Idents : Closing(j)' => Closing(j)
<1> USE DEF CalmInv, Calm
<1>1. PICK i \in Idents : ~Live(i) /\ thread' = [thread EXCEPT ![i] = Boot(p)]
  BY DEF StartThread
<1>2. Boot(p) \in Threads /\ Boot(p) # None
  <2>1. Boot(p) \in Threads
    BY DEF Boot, Threads, Places
  <2>2. QED
    BY <2>1, NoneIsNoThread
<1>3. thread'[i] = Boot(p) /\ \A j \in Idents \ {i} : thread'[j] = thread[j]
  BY <1>1 DEF Inv, ThreadsOK
<1>4. Live(i)' /\ \A j \in Idents \ {i} : Live(j)' = Live(j)
  BY <1>2, <1>3 DEF Live
<1>5. /\ Workers(p)' = {i}
      /\ \A q \in Providers \ {p} : Workers(q)' = Workers(q)
  BY <1>1, <1>3, <1>4 DEF Workers, Boot
<1>6. \A j \in Idents : Closing(j)' = Closing(j)
  <2>1. ~Closing(i) /\ ~Closing(i)'
    BY <1>1, <1>3 DEF Closing, Boot
  <2>2. QED
    BY <1>3, <1>4, <2>1 DEF Closing
<1>7. /\ \A s \in stops : s.target \in Idents /\ s.target # i
      /\ ~Targeted(i)' /\ \A j \in Idents : Targeted(j)' = Targeted(j)
  BY <1>1 DEF StopsFit, Targeted, Inv, RequestsOK, Stop
<1>8. StopsFit'
  BY <1>3, <1>4, <1>7 DEF StopsFit
<1>9. Fits(p)'
  <2>1. thread'[i].at = "boot"
    BY <1>3 DEF Boot
  <2>2. row'[p] = "on" /\ ~Closing(i)'
    BY <1>1, <1>6 DEF Closing
  <2>3. QED
    BY <1>5, <1>7, <2>1, <2>2 DEF Fits
<1>10. ASSUME NEW q \in Providers \ {p} PROVE Fits(q)'
  <2>1. /\ Workers(q)' = Workers(q) /\ Workers(q) \subseteq Idents \ {i}
        /\ Fits(q) /\ row' = row
    BY <1>1, <1>5 DEF Workers
  <2>2. \A j \in Workers(q) : /\ UNCHANGED <<Closing(j), Targeted(j)>>
                              /\ thread'[j] = thread[j]
    BY <1>3, <1>6, <1>7, <2>1
  <2>3. QED
    BY <2>1, <2>2 DEF Fits
<1>11. QED
  BY <1>6, <1>8, <1>9, <1>10

\* The call under way is the only one, and nothing has been asked of a thread.
LEMMA Alone ==
  ASSUME CalmInv, NEW c \in Calls, Active(c)
  PROVE  /\ stops = {} /\ \A j \in Idents : ~Closing(j)
         /\ \A d \in Calls \ {c} : ~Active(d)
         /\ \A q : Starting(q) => Written(c) /\ prov[c] = q /\ want[c] /\ was[c] # "on"
         /\ \A q : Stopping(q) => Written(c) /\ prov[c] = q /\ ~want[c] /\ was[c] = "on"
  BY DEF CalmInv, Calm, OneAtATime, Starting, Stopping, Written, Active

\* A step of the call under way that asks nothing of a thread either.
LEMMA StepsAlone ==
  ASSUME CalmInv, NEW c \in Calls, Active(c), Informed(c)',
         \A d \in Calls \ {c} : /\ step'[d] = step[d] /\ op'[d] = op[d]
                                /\ want'[d] = want[d] /\ was'[d] = was[d]
                                /\ prov'[d] = prov[d],
         stops' = {} \/ ~Active(c)', Active(c)' => \A j \in Idents : Closing(j)' => Closing(j)
  PROVE  (\A d \in Calls : Informed(d)') /\ OneAtATime'
<1>1. \A d \in Calls \ {c} : ~Active(d) /\ ~Active(d)'
  BY Alone DEF Active
<1>2. \A d \in Calls \ {c} : Informed(d)'
  BY <1>1, OthersInformed DEF CalmInv, Calm
<1>3. OneAtATime'
  BY <1>1, Alone DEF OneAtATime
<1>4. QED
  BY <1>2, <1>3

\* A new request of the patient administrator.
LEMMA BeginsCalm ==
  ASSUME CalmInv, Quiet, NEW c \in Calls, step[c] = "new",
         UNCHANGED <<row, sessions, thread, stops, prov>>, Informed(c)',
         \A d \in Calls \ {c} : /\ step'[d] = step[d] /\ op'[d] = op[d]
                                /\ want'[d] = want[d] /\ was'[d] = was[d]
  PROVE  Calm'
<1>1. \A d \in Calls : ~Active(d)
  BY DEF Quiet, Active
<1>2. \A d \in Calls : Informed(d)'
  <2>1. \A d \in Calls \ {c} : Informed(d)'
    BY OthersInformed DEF CalmInv, Calm
  <2>2. QED
    BY <2>1
<1>3. OneAtATime'
  <2>1. \A d \in Calls \ {c} : ~Active(d)'
    BY <1>1 DEF Active
  <2>2. stops' = {} /\ \A j \in Idents : ~Closing(j)'
    BY DEF Quiet, Closing, Live
  <2>3. QED
    BY <2>1, <2>2 DEF OneAtATime
<1>4. StopsFit'
  BY DEF CalmInv, Calm, StopsFit, Live
<1>5. ASSUME NEW p \in Providers PROVE Fits(p)'
  <2>1. ~Starting(p) /\ ~Stopping(p)
    BY <1>1 DEF Starting, Stopping, Written, Active
  <2>2. QED
    BY <2>1, FitsStill
<1>6. QED
  BY <1>2, <1>3, <1>4, <1>5 DEF Calm

LEMMA BeginKeepsCalm ==
  ASSUME CalmInv, Quiet, NEW c \in Calls,
         \/ ReadRow(c) \/ DiscoverRequest(c)
         \/ CheckSession(c) \/ NotifyReady(c) \/ ListSessions(c)
  PROVE  Calm'
<1>0. /\ Informed(c) /\ RequestsOK /\ step[c] = "new" /\ ~want[c]
      /\ UNCHANGED <<row, sessions, thread, stops, prov>>
  BY DEF CalmInv, Calm, Inv, Informed, ReadRow, DiscoverRequest, CheckSession, NotifyReady,
     ListSessions, Receive
<1>1. \A d \in Calls \ {c} : /\ step'[d] = step[d] /\ op'[d] = op[d]
                             /\ want'[d] = want[d] /\ was'[d] = was[d]
  BY <1>0 DEF RequestsOK, ReadRow, DiscoverRequest, CheckSession, NotifyReady,
     ListSessions, Receive, Go, PostVerify
<1>2. Informed(c)'
  <2>1. CASE ReadRow(c)
    <3>1. /\ op'[c] \in {"create", "update"} /\ was'[c] = row[prov[c]]
          /\ \/ step'[c] = "write" /\ (op'[c] = "create" <=> row[prov[c]] = "none")
             \/ step'[c] = "done"
      BY <1>0, <2>1 DEF ReadRow, Receive, Go, RequestsOK
    <3>2. QED
      BY <1>0, <3>1 DEF Informed, Active, Changes
  <2>2. CASE DiscoverRequest(c)
    <3>1. op'[c] = "discover" /\ want'[c] = want[c] /\ step'[c] = "discover"
      BY <1>0, <2>2 DEF DiscoverRequest, Receive, Go, RequestsOK
    <3>2. QED
      BY <1>0, <3>1 DEF Informed, Active, Changes
  <2>3. CASE CheckSession(c) \/ NotifyReady(c)
    <3>1. /\ op'[c] = "check" /\ want'[c] = want[c]
          /\ \/ step'[c] = "verify"
             \/ step'[c] = "clean" /\ row[prov[c]] # "on"
      BY <1>0, <2>3 DEF CheckSession, NotifyReady, Receive, PostVerify, Go, RequestsOK
    <3>2. QED
      BY <1>0, <3>1 DEF Informed, Active, Changes
  <2>4. CASE ListSessions(c)
    <3>1. /\ op'[c] = "list" /\ want'[c] = want[c] /\ step'[c] = "clean"
          /\ row[prov[c]] # "on"
      BY <1>0, <2>4 DEF ListSessions, Receive, Go, RequestsOK, Enabled
    <3>2. QED
      BY <1>0, <3>1 DEF Informed, Active, Changes
  <2>5. QED
    BY <2>1, <2>2, <2>3, <2>4
<1>3. QED
  BY <1>0, <1>1, <1>2, BeginsCalm

\* Steps of a handler that leave the threads, the commands and the rows alone.
LEMMA HandlesCalm ==
  ASSUME CalmInv, NEW c \in Calls, Active(c), Informed(c)',
         UNCHANGED <<row, thread, stops, op, prov, want, was>>,
         \A d \in Calls \ {c} : step'[d] = step[d],
         \A p \in Providers : row[p] = "on" /\ p \in sessions => p \in sessions',
         Written(c) => Written(c)' \/ (want[c] <=> was[c] = "on")
  PROVE  Calm'
<1>1. (\A d \in Calls : Informed(d)') /\ OneAtATime'
  <2>1. stops' = {} /\ \A j \in Idents : Closing(j)' => Closing(j)
    BY Alone DEF Closing, Live
  <2>2. QED
    BY <2>1, StepsAlone
<1>2. StopsFit'
  BY DEF CalmInv, Calm, StopsFit, Live
<1>3. ASSUME NEW p \in Providers PROVE Fits(p)'
  <2>1. Starting(p) => Starting(p)'
    BY Alone DEF Starting
  <2>2. Stopping(p) => Stopping(p)'
    BY Alone DEF Stopping
  <2>3. QED
    BY <2>1, <2>2, FitsStill
<1>4. QED
  BY <1>1, <1>2, <1>3 DEF Calm

LEMMA PlainHandlersCalm ==
  ASSUME CalmInv, NEW c \in Calls,
         \/ DiscoverRows(c) \/ CleanSession(c) \/ (Finish(c) /\ Keep(c))
         \/ VerifyNext(c) /\ UNCHANGED thread
  PROVE  Calm'
<1>0. /\ Informed(c) /\ RequestsOK /\ Active(c)
      /\ UNCHANGED <<row, thread, stops, op, prov, want, was>>
  BY DEF CalmInv, Calm, Inv, Active, DiscoverRows, CleanSession, Finish, Keep, VerifyNext,
     Resumed
<1>1. CASE DiscoverRows(c)
  <2>1. /\ step[c] = "discover" /\ step' = [step EXCEPT ![c] = "verify"]
        /\ sessions \subseteq sessions'
    BY <1>1 DEF DiscoverRows, Go
  <2>2. step'[c] = "verify" /\ \A d \in Calls \ {c} : step'[d] = step[d]
    BY <1>0, <2>1 DEF RequestsOK
  <2>3. Informed(c)'
    BY <1>0, <2>1, <2>2 DEF Informed, Active, Changes
  <2>4. Written(c) => Written(c)'
    BY <1>0, <2>2 DEF Written, Changes
  <2>5. QED
    BY <1>0, <2>1, <2>2, <2>3, <2>4, HandlesCalm
<1>2. CASE CleanSession(c)
  <2>1. /\ step[c] = "clean" /\ step' = [step EXCEPT ![c] = "done"]
        /\ sessions' = sessions \ {prov[c]}
    BY <1>2 DEF CleanSession, Go
  <2>2. step'[c] = "done" /\ \A d \in Calls \ {c} : step'[d] = step[d]
    BY <1>0, <2>1 DEF RequestsOK
  <2>3. Informed(c)'
    BY <1>0, <2>2 DEF Informed, Active, Changes
  <2>4. ~Written(c) /\ row[prov[c]] # "on"
    BY <1>0, <2>1 DEF Informed, Written
  <2>5. QED
    BY <1>0, <2>1, <2>2, <2>3, <2>4, HandlesCalm
<1>3. CASE Finish(c) /\ Keep(c)
  <2>1. /\ step[c] = "verify" /\ step' = [step EXCEPT ![c] = "done"]
        /\ sessions' = sessions
    BY <1>3 DEF Finish, Keep, Resumed, Go
  <2>2. step'[c] = "done" /\ \A d \in Calls \ {c} : step'[d] = step[d]
    BY <1>0, <2>1 DEF RequestsOK
  <2>3. Informed(c)'
    BY <1>0, <2>2 DEF Informed, Active, Changes
  <2>4. Written(c) => (want[c] <=> was[c] = "on")
    BY <1>0, <1>3 DEF Informed, Written, Keep, Changes, Active
  <2>5. QED
    BY <1>0, <2>1, <2>2, <2>3, <2>4, HandlesCalm
<1>4. CASE VerifyNext(c) /\ UNCHANGED thread
  <2>1. UNCHANGED <<step, sessions>>
    BY <1>4 DEF VerifyNext
  <2>2. Informed(c)' /\ (Written(c) => Written(c)')
    BY <1>0, <2>1 DEF Informed, Active, Changes, Written
  <2>3. QED
    BY <1>0, <2>1, <2>2, HandlesCalm
<1>5. QED
  BY <1>1, <1>2, <1>3, <1>4

\* A handler, or a page of the UI, that starts a missing worker.
LEMMA StartersCalm ==
  ASSUME CalmInv, NEW c \in Calls,
         VerifyNext(c) \/ (Finish(c) /\ Enable(c))
  PROVE  Calm'
<1>0. /\ Informed(c) /\ RequestsOK /\ Active(c) /\ step[c] = "verify"
      /\ UNCHANGED <<row, sessions, stops, op, prov, want, was>>
  BY DEF CalmInv, Calm, Inv, Active, Finish, Enable, VerifyNext, Resumed
<1>1. CASE VerifyNext(c)
  <2>1. UNCHANGED <<step, sessions>>
    BY <1>1 DEF VerifyNext
  <2>2. CASE UNCHANGED thread
    BY <1>1, <2>2, PlainHandlersCalm
  <2>3. CASE thread' # thread
    <3>1. PICK p \in Providers : row[p] = "on" /\ Workers(p) = {} /\ StartThread(p)
      BY <1>0, <1>1, <2>3 DEF VerifyNext, EnsureWorker, StartIfMissing, RequestsOK
    <3>2. UNCHANGED <<row, stops, sessions, step, op, prov, want, was>>
      BY <1>0, <2>1
    <3>3. \A q \in Providers : UNCHANGED <<Starting(q), Stopping(q)>>
      BY <3>2 DEF Starting, Stopping, Written, Changes
    <3>4. /\ StopsFit' /\ \A q \in Providers : Fits(q)'
          /\ \A j \in Idents : Closing(j)' => Closing(j)
      BY <3>1, <3>2, <3>3, StartFits
    <3>5. Informed(c)'
      BY <1>0, <3>2 DEF Informed, Active, Changes
    <3>6. stops' = {}
      BY <1>0, Alone
    <3>7. (\A d \in Calls : Informed(d)') /\ OneAtATime'
      BY <1>0, <3>2, <3>4, <3>5, <3>6, StepsAlone
    <3>8. QED
      BY <3>4, <3>7 DEF Calm
  <2>4. QED
    BY <2>2, <2>3
<1>2. CASE Finish(c) /\ Enable(c)
  <2>1. /\ step' = [step EXCEPT ![c] = "done"] /\ want[c] /\ StartIfMissing(prov[c])
        /\ op[c] = "create" \/ was[c] = "off"
    BY <1>2 DEF Finish, Enable, Go
  <2>2. step'[c] = "done" /\ \A d \in Calls \ {c} : step'[d] = step[d]
    BY <1>0, <2>1 DEF RequestsOK
  <2>3. Informed(c)' /\ ~Active(c)'
    BY <1>0, <2>2 DEF Informed, Active, Changes
  <2>4. Changes(c) /\ row[prov[c]] = "on" /\ prov[c] \in Providers
    BY <1>0, <2>1 DEF Informed, RequestsOK
  <2>5. (\A d \in Calls : Informed(d)') /\ OneAtATime'
    BY <1>0, <2>2, <2>3, StepsAlone
  <2>6. \A q \in Providers : ~Stopping(q) /\ (q # prov[c] => ~Starting(q))
    BY <1>0, <2>1, Alone
  <2>7. CASE Workers(prov[c]) = {}
    <3>1. StopsFit' /\ \A q \in Providers : Fits(q)'
      BY <1>0, <2>1, <2>4, <2>6, <2>7, StartFits DEF StartIfMissing
    <3>2. QED
      BY <2>5, <3>1 DEF Calm
  <2>8. CASE Workers(prov[c]) # {}
    <3>1. UNCHANGED thread
      BY <2>1, <2>8 DEF StartIfMissing
    <3>2. StopsFit'
      BY <1>0, <3>1 DEF CalmInv, Calm, StopsFit, Live
    <3>3. PICK p \in Providers : p = prov[c]
      BY <2>4
    <3>4. ASSUME NEW q \in Providers \ {p} PROVE Fits(q)'
      BY <1>0, <2>6, <3>1, <3>3, FitsStill
    <3>5. Fits(p)'
      <4>1. /\ UNCHANGED Workers(p) /\ Workers(p) \subseteq Idents
            /\ \A j \in Workers(p) : UNCHANGED <<Targeted(j), Closing(j)>>
        BY <1>0, <3>1 DEF Workers, Live, Targeted, Closing
      <4>2. Fits(p) /\ row[p] = "on" /\ Workers(p) # {}
        BY <2>4, <2>8, <3>3 DEF CalmInv, Calm
      <4>3. QED
        BY <1>0, <3>1, <4>1, <4>2 DEF Fits
    <3>6. QED
      BY <2>5, <3>2, <3>4, <3>5 DEF Calm
  <2>9. QED
    BY <2>7, <2>8
<1>3. QED
  BY <1>1, <1>2

LEMMA VerifyRequestIsCalm ==
  ASSUME CalmInv, NEW p \in Providers, VerifyRequest(p)
  PROVE  Calm'
<1>1. /\ row[p] = "on" /\ Workers(p) = {} /\ StartThread(p)
      /\ UNCHANGED <<row, sessions, stops, step, op, prov, want, was>>
  BY DEF VerifyRequest, callVars
<1>2. \A q \in Providers : UNCHANGED <<Starting(q), Stopping(q)>>
  BY <1>1 DEF Starting, Stopping, Written, Changes
<1>3. /\ StopsFit' /\ \A q \in Providers : Fits(q)'
      /\ \A j \in Idents : Closing(j)' => Closing(j)
  BY <1>1, <1>2, StartFits
<1>4. \A d \in Calls : Informed(d)'
  BY <1>1, OthersInformed DEF CalmInv, Calm
<1>5. OneAtATime'
  BY <1>1, <1>3 DEF CalmInv, Calm, OneAtATime, Active
<1>6. QED
  BY <1>3, <1>4, <1>5 DEF Calm

\* The upsert: whatever the provider's row was, its threads fitted it.
LEMMA WriteIsCalm ==
  ASSUME CalmInv, NEW c \in Calls, WriteRow(c)
  PROVE  Calm'
<1>0. /\ Informed(c) /\ RequestsOK /\ Active(c) /\ step[c] = "write" /\ Changes(c)
      /\ UNCHANGED <<sessions, thread, stops, op, prov, want, was>>
  BY DEF CalmInv, Calm, Inv, Active, WriteRow, Informed
<1>1. PICK p \in Providers : p = prov[c]
  BY <1>0 DEF RequestsOK
<1>2. /\ step'[c] = "discover" /\ \A d \in Calls \ {c} : step'[d] = step[d]
      /\ row'[p] = (IF want[c] THEN "on" ELSE "off")
      /\ \A q \in Providers \ {p} : row'[q] = row[q]
  BY <1>0, <1>1 DEF WriteRow, Go, RequestsOK
<1>3. Informed(c)'
  BY <1>0, <1>1, <1>2 DEF Informed, Active, Changes
<1>4. (\A d \in Calls : Informed(d)') /\ OneAtATime'
  <2>1. stops' = {} /\ \A j \in Idents : Closing(j)' => Closing(j)
    BY <1>0, Alone DEF Closing, Live
  <2>2. QED
    BY <1>0, <1>2, <1>3, <2>1, StepsAlone
<1>5. StopsFit'
  BY <1>0 DEF CalmInv, Calm, StopsFit, Live
<1>6. \A q : ~Starting(q) /\ ~Stopping(q)
  BY <1>0, Alone DEF Written
<1>7. \A q \in Providers :
         /\ UNCHANGED Workers(q) /\ Workers(q) \subseteq Idents /\ Fits(q)
         /\ \A j \in Workers(q) : ~Targeted(j) /\ ~Targeted(j)' /\ ~Closing(j) /\ ~Closing(j)'
  BY <1>0, Alone DEF Workers, Live, Closing, Targeted, CalmInv, Calm
<1>8. ASSUME NEW q \in Providers \ {p} PROVE Fits(q)'
  BY <1>0, <1>2, <1>6, <1>7 DEF Fits
<1>9. Fits(p)'
  <2>1. Written(c)' /\ prov'[c] = p
    BY <1>0, <1>1, <1>2 DEF Written, Changes
  <2>2. was[c] = row[p] /\ row[p] \in {"none", "on", "off"}
    BY <1>0, <1>1 DEF Informed, RequestsOK
  <2>3. CASE row[p] # "on"
    <3>1. Workers(p) = {}
      BY <1>6, <1>7, <2>2, <2>3 DEF Fits
    <3>2. want[c] => Starting(p)'
      BY <1>0, <2>1, <2>2, <2>3 DEF Starting
    <3>3. QED
      BY <1>2, <1>7, <3>1, <3>2 DEF Fits
  <2>4. CASE row[p] = "on"
    <3>1. ~want[c] => Stopping(p)'
      BY <1>0, <2>1, <2>2, <2>4 DEF Stopping
    <3>2. QED
      BY <1>0, <1>2, <1>6, <1>7, <2>4, <3>1 DEF Fits
  <2>5. QED
    BY <2>3, <2>4
<1>10. QED
  BY <1>4, <1>5, <1>8, <1>9 DEF Calm

\* The worker of a provider that has been disabled is told to stop.
LEMMA DisableIsCalm ==
  ASSUME CalmInv, NEW c \in Calls, Finish(c), Disable(c)
  PROVE  Calm'
<1>0. /\ Informed(c) /\ RequestsOK /\ Active(c) /\ step[c] = "verify" /\ Changes(c)
      /\ ~want[c] /\ stops = {}
      /\ UNCHANGED <<row, thread, op, prov, want, was>>
  BY Alone DEF CalmInv, Calm, Inv, Active, Finish, Disable, Resumed, Changes
<1>1. PICK p \in Providers : p = prov[c]
  BY <1>0 DEF RequestsOK
<1>2. row[p] = "off"
  BY <1>0, <1>1 DEF Informed
<1>3. /\ stops' = {[call |-> c, target |-> i] : i \in Workers(p)}
      /\ sessions' = sessions \ {p}
  BY <1>0, <1>1 DEF Disable, StopWorker
<1>4. step'[c] = "done" /\ \A d \in Calls \ {c} : step'[d] = step[d]
  BY <1>0 DEF Finish, Go, RequestsOK
<1>5. Informed(c)' /\ ~Active(c)'
  BY <1>0, <1>4 DEF Informed, Active, Changes
<1>6. (\A d \in Calls : Informed(d)') /\ OneAtATime'
  BY <1>0, <1>4, <1>5, StepsAlone
<1>7. \A q : UNCHANGED Workers(q) /\ Workers(q) \subseteq Idents
  BY <1>0 DEF Workers, Live
<1>8. \A j \in Idents : /\ ~Closing(j) /\ ~Closing(j)'
                        /\ Targeted(j)' <=> j \in Workers(p)
  <2>1. \A j \in Idents : ~Closing(j) /\ ~Closing(j)'
    BY <1>0, Alone DEF Closing, Live
  <2>2. ASSUME NEW j \in Idents PROVE Targeted(j)' <=> j \in Workers(p)
    <3>1. \A s \in stops' : s.target \in Workers(p)
      BY <1>3
    <3>2. j \in Workers(p) => [call |-> c, target |-> j] \in stops'
      BY <1>3
    <3>3. [call |-> c, target |-> j].target = j
      OBVIOUS
    <3>4. QED
      BY <3>1, <3>2, <3>3 DEF Targeted
  <2>3. QED
    BY <2>1, <2>2
<1>9. StopsFit'
  <2>1. \A j \in Workers(p) : Live(j)' /\ thread'[j].at # "closing"
    BY <1>0, <1>7, <1>8 DEF Workers, Live, Closing
  <2>2. \A s \in stops' : s.target \in Workers(p) /\ s = [call |-> c, target |-> s.target]
    BY <1>3
  <2>3. QED
    BY <2>1, <2>2 DEF StopsFit
<1>10. Fits(p)'
  BY <1>0, <1>2, <1>7, <1>8 DEF Fits
<1>11. ASSUME NEW q \in Providers \ {p} PROVE Fits(q)'
  <2>1. ~Starting(q) /\ ~Stopping(q) /\ Fits(q)
    BY <1>0, <1>1, Alone DEF CalmInv, Calm
  <2>2. \A j \in Workers(q) : ~Targeted(j)' /\ ~Targeted(j) /\ ~Closing(j) /\ ~Closing(j)'
    BY <1>0, <1>7, <1>8 DEF Workers, Targeted
  <2>3. q \in sessions <=> q \in sessions'
    BY <1>3
  <2>4. QED
    BY <1>0, <1>7, <2>1, <2>2, <2>3 DEF Fits
<1>12. QED
  BY <1>6, <1>9, <1>10, <1>11 DEF Calm

LEMMA WorkIsCalm ==
  ASSUME CalmInv, NEW i \in Idents, Work(i) \/ Look(i)
  PROVE  Calm'
<1>0. thread[i].at # "closing" \/ Exit(i)
  BY DEF Work, Look, BeginChat, BlockInGet, Unblock, BootRow, BootPage, EndChat, ObeyStop
<1>1. CASE BootRow(i)
  <2>1. /\ Live(i) /\ Move(i, "page") /\ UNCHANGED <<row, stops, callVars>>
        /\ sessions \subseteq sessions' /\ thread[i].prov \in sessions'
        /\ thread[i].at # "closing"
    BY <1>1 DEF BootRow
  <2>2. "page" \in Places \ {"boot"} /\ "page" # "closing"
    BY DEF Places
  <2>3. QED
    BY <2>1, <2>2, MovingIsCalm
<1>2. CASE BootPage(i) \/ EndChat(i) \/ BeginChat(i) \/ BlockInGet(i) \/ Unblock(i)
  <2>1. PICK place \in {"idle", "get", "chat"} :
           /\ Live(i) /\ Move(i, place) /\ UNCHANGED <<row, sessions, stops, callVars>>
           /\ thread[i].at \notin {"boot", "closing"}
    BY <1>2 DEF BootPage, EndChat, BeginChat, BlockInGet, Unblock
  <2>2. place \in Places \ {"boot"} /\ place # "closing"
    BY DEF Places
  <2>3. QED
    BY <2>1, <2>2, MovingIsCalm
<1>3. CASE ObeyStop(i)
  <2>1. /\ Live(i) /\ Move(i, "closing") /\ UNCHANGED <<row, sessions, callVars>>
        /\ thread[i].at # "boot"
        /\ \E s \in stops : s.target = i /\ stops' = stops \ {s}
    BY <1>3 DEF ObeyStop
  <2>2. "closing" \in Places \ {"boot"}
    BY DEF Places
  <2>3. QED
    BY <2>1, <2>2, MovingIsCalm
<1>4. CASE Exit(i)
  BY <1>4, ExitIsCalm
<1>5. QED
  BY <1>1, <1>2, <1>3, <1>4 DEF Work, Look

LEMMA HandleIsCalm ==
  ASSUME CalmInv, NEW c \in Calls, Handle(c)
  PROVE  Calm'
<1>1. ~DeleteSessions(c) /\ ~DeleteRow(c)
  BY DEF CalmInv, Calm, Informed, Active, DeleteSessions, DeleteRow
<1>2. CASE Finish(c)
  <2>1. Disable(c) \/ Enable(c) \/ Keep(c)
    BY <1>2 DEF Finish
  <2>2. QED
    BY <1>2, <2>1, DisableIsCalm, StartersCalm, PlainHandlersCalm
<1>3. QED
  BY <1>1, <1>2, WriteIsCalm, StartersCalm, PlainHandlersCalm DEF Handle

LEMMA InitIsCalm ==
  ASSUME Init
  PROVE  Calm
<1>1. \A c \in Calls : step[c] = "new" /\ ~want[c]
  BY DEF Init
<1>2. /\ stops = {}
      /\ \A i \in Idents : Live(i) => \E p \in Providers : thread[i] = Boot(p)
  BY DEF Init, Live
<1>3. ASSUME NEW i \in Idents, Live(i) PROVE thread[i].at = "boot"
  <2>1. PICK p \in Providers : thread[i] = Boot(p)
    BY <1>2, <1>3
  <2>2. Boot(p).at = "boot"
    BY DEF Boot
  <2>3. QED
    BY <2>1, <2>2
<1>4. (\A c \in Calls : Informed(c)) /\ OneAtATime /\ StopsFit
  BY <1>1, <1>2 DEF Informed, OneAtATime, StopsFit, Active
<1>5. ASSUME NEW p \in Providers PROVE Fits(p)
  <2>1. Workers(p) # {} <=> row[p] = "on"
    BY DEF Init
  <2>2. \A i \in Workers(p) : thread[i].at = "boot" /\ ~Targeted(i) /\ ~Closing(i)
    BY <1>2, <1>3 DEF Workers, Targeted, Closing
  <2>3. QED
    BY <2>1, <2>2 DEF Fits
<1>6. QED
  BY <1>4, <1>5 DEF Calm

LEMMA CalmStep ==
  ASSUME CalmInv, CalmNext
  PROVE  CalmInv'
<1>1. Next
  BY DEF CalmNext, Next, Begin
<1>2. Inv'
  BY <1>1, StepInv DEF CalmInv
<1>3. Calm'
  BY BeginKeepsCalm, HandleIsCalm, WorkIsCalm, VerifyRequestIsCalm DEF CalmNext
<1>4. QED
  BY <1>2, <1>3 DEF CalmInv

LEMMA CalmSettles ==
  ASSUME CalmInv
  PROVE  SettledMatches
<1>1. SUFFICES ASSUME Quiet, NEW p \in Providers PROVE Settled(p)
  BY DEF SettledMatches
<1>2. ~Starting(p) /\ ~Stopping(p)
  BY <1>1 DEF Quiet, Starting, Stopping, Written
<1>3. \A i \in Workers(p) : ~Targeted(i) /\ ~Closing(i)
  BY <1>1 DEF Quiet, Workers, Targeted, Closing
<1>4. QED
  BY <1>2, <1>3 DEF CalmInv, Calm, Fits, Settled

-----------------------------------------------------------------------------
(* The ident a stop command is addressed to.                               *)

\* Each stop command names a thread of the provider that its sender meant.
StopsOwn == \A s \in stops : thread[s.target].prov = prov[s.call]

\* A live thread stays its provider's unless it exits.
LEMMA ThreadsStayOwned ==
  ASSUME CalmInv, CalmNext
  PROVE  \A i \in Idents : Live(i) /\ thread[i].at # "closing"
                             => thread'[i].prov = thread[i].prov
<1>1. ThreadsOK /\ Inv
  BY DEF CalmInv, Inv
<1>2. ASSUME NEW p, StartThread(p)
      PROVE  \A i \in Idents : Live(i) => thread'[i] = thread[i]
  BY <1>1, <1>2 DEF StartThread, ThreadsOK
<1>3. ASSUME NEW i \in Idents, NEW place \in Places, Live(i), Move(i, place)
      PROVE  \A j \in Idents : Live(j) => thread'[j].prov = thread[j].prov
  <2>1. /\ thread'[i] = [prov |-> thread[i].prov, at |-> place]
        /\ \A j \in Idents \ {i} : thread'[j] = thread[j]
    BY <1>1, <1>3, MovesOne
  <2>2. thread'[i].prov = thread[i].prov
    BY <2>1
  <2>3. QED
    BY <2>1, <2>2
<1>4. ASSUME NEW i \in Idents, Work(i) \/ Look(i), ~Exit(i)
      PROVE  \A j \in Idents : Live(j) => thread'[j].prov = thread[j].prov
  <2>1. Live(i) /\ \E place \in Places : Move(i, place)
    BY <1>4 DEF Work, Look, BeginChat, BlockInGet, Unblock, BootRow, BootPage, EndChat,
       ObeyStop, Places
  <2>2. QED
    BY <1>3, <2>1
<1>5. ASSUME NEW i \in Idents, Exit(i)
      PROVE  \A j \in Idents : thread[j].at # "closing" => thread'[j] = thread[j]
  BY <1>1, <1>5 DEF Exit, ThreadsOK
<1>6. ASSUME NEW c \in Calls, Handle(c)
      PROVE  thread' = thread \/ \E p : StartThread(p)
  BY <1>6 DEF Handle, WriteRow, DiscoverRows, VerifyNext, EnsureWorker, StartIfMissing,
     Finish, Disable, Enable, Keep, DeleteSessions, DeleteRow, CleanSession
<1>7. ASSUME NEW c \in Calls,
             ReadRow(c) \/ DiscoverRequest(c) \/ CheckSession(c) \/ NotifyReady(c)
                 \/ ListSessions(c)
      PROVE  thread' = thread
  BY <1>7 DEF ReadRow, DiscoverRequest, CheckSession, NotifyReady, ListSessions
<1>8. QED
  BY <1>2, <1>4, <1>5, <1>6, <1>7 DEF CalmNext, VerifyRequest

LEMMA StopsOwnKeeps ==
  ASSUME CalmInv, StopsOwn, CalmNext
  PROVE  StopsOwn'
<1>1. prov' = prov
  BY DEF CalmNext, ReadRow, DiscoverRequest, CheckSession, NotifyReady, ListSessions, Handle,
     WriteRow, DiscoverRows, VerifyNext, Finish, DeleteSessions, DeleteRow, CleanSession, Work,
     BootRow, BootPage, EndChat, Exit, Look, ObeyStop, BeginChat, BlockInGet, Unblock,
     VerifyRequest, callVars
<1>2. \A s \in stops : thread'[s.target].prov = prov[s.call]
  <2>1. \A s \in stops : s.target \in Idents /\ Live(s.target)
                         /\ thread[s.target].at # "closing"
    BY DEF CalmInv, Calm, StopsFit, Inv, RequestsOK, Stop
  <2>2. QED
    BY <2>1, ThreadsStayOwned DEF StopsOwn
<1>3. stops' \subseteq stops \/ \E c \in Calls : Finish(c) /\ Disable(c)
  BY DEF CalmNext, ReadRow, DiscoverRequest, CheckSession, NotifyReady, ListSessions, Handle,
     WriteRow, DiscoverRows, VerifyNext, Finish, Enable, Keep, DeleteSessions, DeleteRow,
     CleanSession, Work, BootRow, BootPage, EndChat, Exit, Look, ObeyStop, BeginChat,
     BlockInGet, Unblock, VerifyRequest
<1>4. ASSUME NEW c \in Calls, Disable(c)
      PROVE  StopsOwn'
  <2>1. /\ thread' = thread
        /\ stops' = stops \cup {[call |-> c, target |-> i] : i \in Workers(prov[c])}
    BY <1>4 DEF Disable, StopWorker
  <2>2. ASSUME NEW s \in stops' \ stops
        PROVE  thread[s.target].prov = prov[s.call]
    <3>1. PICK i \in Workers(prov[c]) : s = [call |-> c, target |-> i]
      BY <2>1, <2>2
    <3>2. QED
      BY <3>1 DEF Workers
  <2>3. QED
    BY <1>1, <1>2, <2>1, <2>2 DEF StopsOwn
<1>5. QED
  BY <1>1, <1>2, <1>3, <1>4 DEF StopsOwn

\* What holds of a patient administrator's providers from the beginning.
PatientInv == Inv /\ (patient => Calm /\ StopsOwn)

LEMMA AlwaysPatient == MCSpec => []PatientInv
<1>1. MCInit => PatientInv
  BY InitInv, InitIsCalm DEF MCInit, PatientInv, Init, StopsOwn
<1>2. ASSUME PatientInv, [MCNext]_<<vars, patient>> PROVE PatientInv'
  <2>1. CASE patient /\ MCNext
    <3>1. CalmInv /\ StopsOwn /\ CalmNext /\ patient' = patient
      BY <1>2, <2>1 DEF MCNext, CalmInv, PatientInv
    <3>2. QED
      BY <3>1, CalmStep, StopsOwnKeeps DEF CalmInv, PatientInv
  <2>2. CASE ~patient /\ MCNext
    <3>1. Inv /\ [Next]_vars /\ ~patient'
      BY <1>2, <2>2 DEF MCNext, PatientInv
    <3>2. QED
      BY <3>1, StepInv DEF PatientInv
  <2>3. CASE UNCHANGED <<vars, patient>>
    <3>1. Inv'
      BY <1>2, <2>3, StepInv DEF PatientInv
    <3>2. UNCHANGED Calm
      BY <2>3 DEF vars, callVars, Calm, Informed, OneAtATime, StopsFit, Fits, Active, Changes,
         Targeted, Closing, Live, Starting, Stopping, Written, Workers
    <3>3. UNCHANGED StopsOwn
      BY <2>3 DEF vars, callVars, StopsOwn
    <3>4. QED
      BY <1>2, <2>3, <3>1, <3>2, <3>3 DEF PatientInv
  <2>4. QED
    BY <1>2, <2>1, <2>2, <2>3
<1>3. QED
  BY <1>1, <1>2, PTL DEF MCSpec

\* When an administrator waits for each change to take effect, the rows, the session
\* rows and the threads match whenever nothing is under way: the decisions that
\* create_provider and update_provider take after their awaits are then right.
THEOREM PatientAdminSettles == MCSpec => []PatientSettles
<1>1. PatientInv => PatientSettles
  BY CalmSettles DEF CalmInv, PatientInv, PatientSettles
<1>2. QED
  BY <1>1, AlwaysPatient, PTL

\* Although idents are given out again and update_provider addresses its stop command to an
\* ident, the command of such an administrator never ends another provider's worker: the
\* worker it was sent for is there until it has taken it.
THEOREM PatientStopsFind == MCSpec => []PatientStopsHit
<1>1. PatientInv => PatientStopsHit
  BY DEF PatientInv, Calm, StopsFit, StopsOwn, PatientStopsHit
<1>2. QED
  BY <1>1, AlwaysPatient, PTL
=============================================================================
