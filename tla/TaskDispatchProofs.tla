------------------------- MODULE TaskDispatchProofs -------------------------
(***************************************************************************)
(* What TLAPS proves about TaskDispatch, for any providers, idents, tasks  *)
(* and bounds: the invariants TLC checks on small instances, that the      *)
(* tasks table behaves as TaskPool says, and that a server which is up     *)
(* spreads concurrent requests evenly.                                     *)
(***************************************************************************)
EXTENDS MCTaskDispatch, FiniteSetTheorems, TLAPS

-----------------------------------------------------------------------------
(* What a step of each process leaves alone.                               *)

\* A create_task handler never touches sessions, pool or workers.
LEMMA RequestFrame ==
    ASSUME NEW t \in Tasks, HandleRequest(t)
    PROVE  UNCHANGED <<sessionVars, entry, workerVars, sent>>
BY DEF HandleRequest, ListSessions, ScanEntry, PickTarget, InsertTask, RejectTask,
       sessionVars, workerVars

\* Nothing but a restart interferes with the locals of a request.
LEMMA WorkerFrame ==
    ASSUME NEW p \in Providers, WorkerStep(p) \/ Environment(p)
    PROVE  UNCHANGED <<requestVars, rr, owner, prov, stamp, clock>>
<1>1. CASE WorkerStep(p)
  BY <1>1 DEF WorkerStep, UpsertSession, BootPage, ClaimTask, FindPage, Chat, SaveReply,
     MarkCompleted, MarkFailed, CountRound, CheckRounds, ResetRounds, PopEntry,
     ThreadExit, requestVars, tableVars
<1>2. CASE Environment(p)
  BY <1>2 DEF Environment, StartWorker, BootFails, VerifySession, StopCommand,
     WorkerFault, DropSession, DiscoverSession, ClosePage, BlockInGet, Unblock,
     requestVars, tableVars
<1>3. QED
  BY <1>1, <1>2

\* The table changes only where a worker claims, answers or settles its task.
Ledgered(p) == ClaimTask(p) \/ Chat(p) \/ SaveReply(p) \/ MarkCompleted(p) \/ MarkFailed(p)
LEMMA LedgerFrame ==
    ASSUME NEW p \in Providers, WorkerStep(p) \/ Environment(p), ~Ledgered(p)
    PROVE  UNCHANGED <<tableVars, sent>>
<1>1. CASE WorkerStep(p)
  BY <1>1 DEF WorkerStep, Ledgered, UpsertSession, BootPage, FindPage, CountRound,
     CheckRounds, ResetRounds, PopEntry, ThreadExit, tableVars
<1>2. CASE Environment(p)
  BY <1>2 DEF Environment, StartWorker, BootFails, VerifySession, StopCommand,
     WorkerFault, DropSession, DiscoverSession, ClosePage, BlockInGet, Unblock, tableVars
<1>3. QED
  BY <1>1, <1>2

-----------------------------------------------------------------------------
(* Typing, one group of variables at a time.                               *)

LEMMA RequestTyping == TypeOK /\ [Next]_vars => RequestsOK'
<1> SUFFICES ASSUME TypeOK, [Next]_vars PROVE RequestsOK'
  OBVIOUS
<1> USE DispatchAssumption DEF TypeOK, RequestsOK, Stages, Advance
<1>1. ASSUME NEW t \in Tasks, ListSessions(t) PROVE RequestsOK'
  BY <1>1 DEF ListSessions, SessionsOK
<1>2. ASSUME NEW t \in Tasks, ScanEntry(t) PROVE RequestsOK'
  <2> DEFINE p == Order[at[t]]
  <2>1. p \in Providers
    BY <1>2 DEF ScanEntry
  <2>2. entry[p] # None => [tid |-> entry[p].tid, prov |-> p] \in Slot
    BY <2>1 DEF SessionsOK, Entry, Slot
  <2>3. ready' \in [Tasks -> Seq(Slot)]
    <3> DEFINE s == [tid |-> entry[p].tid, prov |-> p]
    <3>1. entry[p] # None => Append(ready[t], s) \in Seq(Slot)
      BY <2>2
    <3> HIDE DEF s
    <3>2. QED
      BY <1>2, <3>1 DEF ScanEntry, s
  <2>4. at' \in [Tasks -> Nat \ {0}]
    BY <1>2 DEF ScanEntry
  <2>5. QED
    BY <1>2, <2>3, <2>4 DEF ScanEntry
<1>3. ASSUME NEW t \in Tasks, PickTarget(t) PROVE RequestsOK'
  <2>1. CASE ready[t] = <<>>
    BY <1>3, <2>1 DEF PickTarget
  <2>2. CASE ready[t] # <<>>
    <3>1. Len(ready[t]) \in Nat \ {0}
      BY <2>2
    <3>2. rr' \in Nat /\ rr' + 1 \in 1..Len(ready[t])
      BY <1>3, <2>2, <3>1 DEF PickTarget
    <3>3. ready[t][rr' + 1] \in Slot
      BY <3>2
    <3>4. QED
      BY <1>3, <2>2, <3>2, <3>3 DEF PickTarget
  <2>3. QED
    BY <2>1, <2>2
<1>4. ASSUME NEW t \in Tasks, InsertTask(t) \/ RejectTask(t) PROVE RequestsOK'
  BY <1>4 DEF InsertTask, RejectTask
<1>5. ASSUME Restart PROVE RequestsOK'
  BY <1>5 DEF Restart
<1>6. ASSUME NEW p \in Providers, WorkerStep(p) \/ Environment(p) PROVE RequestsOK'
  BY <1>6, WorkerFrame DEF requestVars
<1>7. CASE UNCHANGED vars
  BY <1>7 DEF vars, requestVars
<1>8. QED
  BY <1>1, <1>2, <1>3, <1>4, <1>5, <1>6, <1>7 DEF Next, HandleRequest

LEMMA TaskTyping == TypeOK /\ [Next]_vars => TasksOK'
<1> SUFFICES ASSUME TypeOK, [Next]_vars PROVE TasksOK'
  OBVIOUS
<1> USE DEF TypeOK, TasksOK, Statuses, tableVars
<1>1. ASSUME NEW t \in Tasks, InsertTask(t) PROVE TasksOK'
  <2>1. CASE target[t] = None
    BY <1>1, <2>1 DEF InsertTask
  <2>2. CASE target[t] # None
    <3>1. target[t].tid \in Idents /\ target[t].prov \in Providers
      BY <2>2 DEF RequestsOK, Slot
    <3>2. QED
      BY <1>1, <2>2, <3>1 DEF InsertTask
  <2>3. QED
    BY <2>1, <2>2
<1>2. ASSUME NEW t \in Tasks, RejectTask(t) PROVE TasksOK'
  BY <1>2 DEF RejectTask
<1>3. ASSUME NEW t \in Tasks, ListSessions(t) \/ ScanEntry(t) \/ PickTarget(t)
      PROVE  TasksOK'
  BY <1>3 DEF ListSessions, ScanEntry, PickTarget
<1>4. ASSUME NEW p \in Providers, ClaimTask(p) PROVE TasksOK'
  BY <1>4 DEF ClaimTask
<1>5. ASSUME NEW p \in Providers, Chat(p) PROVE TasksOK'
  <2>1. sent' = [u \in Tasks |-> IF u = wtask[p] THEN sent[u] + 1 ELSE sent[u]]
    BY <1>5, Zenon DEF Chat
  <2>2. sent' \in [Tasks -> Nat]
    BY <2>1
  <2>3. QED
    BY <1>5, <2>2 DEF Chat
<1>6. ASSUME NEW p \in Providers, SaveReply(p) PROVE TasksOK'
  <2>1. replies' \in [Tasks -> Nat]
    <3>1. replies' = [u \in Tasks |-> IF u = wtask[p] THEN replies[u] + 1 ELSE replies[u]]
      BY <1>6, Zenon DEF SaveReply
    <3>2. QED
      BY <3>1
  <2>2. QED
    BY <1>6, <2>1 DEF SaveReply
<1>7. ASSUME NEW p \in Providers, MarkCompleted(p) \/ MarkFailed(p) PROVE TasksOK'
  BY <1>7 DEF MarkCompleted, MarkFailed
<1>8. ASSUME NEW p \in Providers, WorkerStep(p) \/ Environment(p), ~Ledgered(p)
      PROVE  TasksOK'
  BY <1>8, LedgerFrame
<1>9. ASSUME Restart PROVE TasksOK'
  BY <1>9 DEF Restart
<1>10. CASE UNCHANGED vars
  BY <1>10 DEF vars
<1>11. QED
  BY <1>1, <1>2, <1>3, <1>4, <1>5, <1>6, <1>7, <1>8, <1>9, <1>10
     DEF Next, HandleRequest, Ledgered

LEMMA SessionTyping == TypeOK /\ [Next]_vars => SessionsOK'
<1> SUFFICES ASSUME TypeOK, [Next]_vars PROVE SessionsOK'
  OBVIOUS
<1> USE DEF TypeOK, SessionsOK, sessionVars
<1>1. ASSUME NEW p \in Providers, OpenPage(p), Alive(p)
      PROVE  entry' \in [Providers -> Entry \cup {None}]
  BY <1>1 DEF OpenPage, Entry, WorkersOK
<1>2. ASSUME NEW t \in Tasks, HandleRequest(t) PROVE SessionsOK'
  BY <1>2, RequestFrame
<1>3. ASSUME NEW p \in Providers, BootPage(p) \/ VerifySession(p) PROVE SessionsOK'
  BY <1>1, <1>3 DEF BootPage, VerifySession, Alive
<1>4. ASSUME NEW p \in Providers, CountRound(p) \/ ResetRounds(p) PROVE SessionsOK'
  BY <1>4 DEF CountRound, ResetRounds
<1>5. ASSUME NEW p \in Providers, UpsertSession(p) \/ DropSession(p) \/ DiscoverSession(p)
      PROVE  SessionsOK'
  BY <1>5 DEF UpsertSession, DropSession, DiscoverSession
<1>6. ASSUME NEW p \in Providers, PopEntry(p) PROVE SessionsOK'
  BY <1>6 DEF PopEntry
<1>7. ASSUME NEW p \in Providers, ClosePage(p) PROVE SessionsOK'
  <2>1. [tid |-> entry[p].tid, open |-> FALSE] \in Entry
    BY <1>7 DEF ClosePage, PageOpen, Entry
  <2>2. QED
    BY <1>7, <2>1 DEF ClosePage
<1>8. ASSUME NEW p \in Providers, Ledgered(p) PROVE SessionsOK'
  BY <1>8 DEF Ledgered, ClaimTask, Chat, SaveReply, MarkCompleted, MarkFailed
<1>9. ASSUME NEW p \in Providers, FindPage(p) \/ CheckRounds(p) \/ ThreadExit(p)
      PROVE  SessionsOK'
  BY <1>9 DEF FindPage, CheckRounds, ThreadExit
<1>10. ASSUME NEW p \in Providers,
              \/ StartWorker(p) \/ BootFails(p) \/ StopCommand(p) \/ WorkerFault(p)
              \/ BlockInGet(p) \/ Unblock(p)
       PROVE  SessionsOK'
  BY <1>10 DEF StartWorker, BootFails, StopCommand, WorkerFault, BlockInGet, Unblock
<1>11. ASSUME Restart PROVE SessionsOK'
  BY <1>11 DEF Restart
<1>12. CASE UNCHANGED vars
  BY <1>12 DEF vars
<1>13. QED
  BY <1>2, <1>3, <1>4, <1>5, <1>6, <1>7, <1>8, <1>9, <1>10, <1>11, <1>12
     DEF Next, WorkerStep, Environment, Ledgered

LEMMA WorkerTyping == TypeOK /\ [Next]_vars => WorkersOK'
<1> SUFFICES ASSUME TypeOK, [Next]_vars PROVE WorkersOK'
  OBVIOUS
<1> USE DEF TypeOK, WorkersOK, workerVars, Alive, Go, Places
<1>1. ASSUME NEW t \in Tasks, HandleRequest(t) PROVE WorkersOK'
  BY <1>1, RequestFrame
<1>2. ASSUME NEW p \in Providers, StartWorker(p) PROVE WorkersOK'
  BY <1>2 DEF StartWorker
<1>3. ASSUME NEW p \in Providers, BootFails(p) \/ ThreadExit(p) PROVE WorkersOK'
  BY <1>3 DEF BootFails, ThreadExit
<1>4. ASSUME NEW p \in Providers, UpsertSession(p) \/ BootPage(p) PROVE WorkersOK'
  BY <1>4 DEF UpsertSession, BootPage
<1>5. ASSUME NEW p \in Providers, ClaimTask(p) PROVE WorkersOK'
  BY <1>5 DEF ClaimTask
<1>6. ASSUME NEW p \in Providers, FindPage(p) \/ Chat(p) PROVE WorkersOK'
  BY <1>6 DEF FindPage, Chat
<1>7. ASSUME NEW p \in Providers, SaveReply(p) \/ MarkCompleted(p) \/ MarkFailed(p)
      PROVE  WorkersOK'
  BY <1>7 DEF SaveReply, MarkCompleted, MarkFailed
<1>8. ASSUME NEW p \in Providers, CountRound(p) \/ CheckRounds(p) \/ ResetRounds(p)
      PROVE  WorkersOK'
  BY <1>8 DEF CountRound, CheckRounds, ResetRounds
<1>9. ASSUME NEW p \in Providers,
             \/ PopEntry(p) \/ StopCommand(p) \/ WorkerFault(p)
             \/ BlockInGet(p) \/ Unblock(p)
      PROVE  WorkersOK'
  BY <1>9 DEF PopEntry, StopCommand, WorkerFault, BlockInGet, Unblock
<1>10. ASSUME NEW p \in Providers,
              VerifySession(p) \/ DropSession(p) \/ DiscoverSession(p) \/ ClosePage(p)
       PROVE  WorkersOK'
  BY <1>10 DEF VerifySession, DropSession, DiscoverSession, ClosePage
<1>11. ASSUME Restart PROVE WorkersOK'
  BY <1>11 DEF Restart
<1>12. CASE UNCHANGED vars
  BY <1>12 DEF vars
<1>13. QED
  BY <1>1, <1>2, <1>3, <1>4, <1>5, <1>6, <1>7, <1>8, <1>9, <1>10, <1>11, <1>12
     DEF Next, WorkerStep, Environment

LEMMA BudgetTyping == TypeOK /\ [Next]_vars => BudgetsOK'
<1> SUFFICES ASSUME TypeOK, [Next]_vars PROVE BudgetsOK'
  OBVIOUS
<1> USE DEF TypeOK, BudgetsOK, Spend
<1>1. ASSUME NEW t \in Tasks, HandleRequest(t) PROVE BudgetsOK'
  BY <1>1 DEF HandleRequest, ListSessions, ScanEntry, PickTarget, InsertTask, RejectTask
<1>2. ASSUME NEW p \in Providers, WorkerStep(p) PROVE BudgetsOK'
  BY <1>2 DEF WorkerStep, UpsertSession, BootPage, ClaimTask, FindPage, Chat, SaveReply,
     MarkCompleted, MarkFailed, CountRound, CheckRounds, ResetRounds, PopEntry, ThreadExit
<1>3. ASSUME NEW p \in Providers, Environment(p) PROVE BudgetsOK'
  BY <1>3 DEF Environment, StartWorker, BootFails, VerifySession, StopCommand,
     WorkerFault, DropSession, DiscoverSession, ClosePage, BlockInGet, Unblock
<1>4. ASSUME Restart PROVE BudgetsOK'
  BY <1>4 DEF Restart
<1>5. CASE UNCHANGED vars
  BY <1>5 DEF vars
<1>6. QED
  BY <1>1, <1>2, <1>3, <1>4, <1>5 DEF Next

LEMMA InitTyping == Init => TypeOK
<1> SUFFICES ASSUME Init PROVE TypeOK
  OBVIOUS
<1> USE DispatchAssumption DEF Init
<1>1. TasksOK
  BY DEF TasksOK, Statuses
<1>2. RequestsOK
  BY DEF RequestsOK, Stages
<1>3. SessionsOK /\ WorkersOK
  BY DEF SessionsOK, WorkersOK, Places, Alive
<1>4. BudgetsOK
  BY DEF BudgetsOK
<1>5. QED
  BY <1>1, <1>2, <1>3, <1>4 DEF TypeOK

\* Every variable keeps its type, from the start and through every step: no
\* handler ever stores a wrong kind of value in a row, an entry or a request.
THEOREM Typing == Spec => []TypeOK
<1>1. TypeOK /\ [Next]_vars => TypeOK'
  BY RequestTyping, TaskTyping, SessionTyping, WorkerTyping, BudgetTyping DEF TypeOK
<1>2. QED
  BY InitTyping, <1>1, PTL DEF Spec
-----------------------------------------------------------------------------
(* The inductive invariant, conjunct by conjunct.                          *)

\* Apart from StartWorker, a step of p's thread or of its environment leaves
\* the other workers where they are and gives no thread a new ident.
LEMMA OtherWorkers ==
    ASSUME TypeOK, NEW p \in Providers, WorkerStep(p) \/ Environment(p)
    PROVE  /\ \A q \in Providers \ {p} : /\ wpc'[q] = wpc[q]
                                         /\ wid'[q] = wid[q]
                                         /\ wtask'[q] = wtask[q]
           /\ ~StartWorker(p) /\ wpc'[p] # "off" => wpc[p] # "off" /\ wid'[p] = wid[p]
<1> USE DEF TypeOK, WorkersOK, Go, workerVars
<1>1. CASE WorkerStep(p)
  BY <1>1 DEF WorkerStep, UpsertSession, BootPage, ClaimTask, FindPage, Chat, SaveReply,
     MarkCompleted, MarkFailed, CountRound, CheckRounds, ResetRounds, PopEntry, ThreadExit
<1>2. CASE Environment(p)
  BY <1>2 DEF Environment, StartWorker, BootFails, VerifySession, StopCommand,
     WorkerFault, DropSession, DiscoverSession, ClosePage, BlockInGet, Unblock
<1>3. QED
  BY <1>1, <1>2

LEMMA UniqueIdentsStep == IInv /\ [Next]_vars => UniqueIdents'
<1> SUFFICES ASSUME IInv, [Next]_vars PROVE UniqueIdents'
  OBVIOUS
<1> USE DEF IInv, UniqueIdents, Alive
<1>1. ASSUME NEW t \in Tasks, HandleRequest(t) PROVE UniqueIdents'
  BY <1>1, RequestFrame DEF workerVars
<1>2. ASSUME NEW p \in Providers, StartWorker(p) PROVE UniqueIdents'
  BY <1>2 DEF StartWorker, LiveIdents, Go, TypeOK, WorkersOK
<1>3. ASSUME NEW p \in Providers, WorkerStep(p) \/ Environment(p), ~StartWorker(p)
      PROVE  UniqueIdents'
  BY <1>3, OtherWorkers
<1>4. ASSUME Restart PROVE UniqueIdents'
  BY <1>4 DEF Restart
<1>5. CASE UNCHANGED vars
  BY <1>5 DEF vars, workerVars
<1>6. QED
  BY <1>1, <1>2, <1>3, <1>4, <1>5 DEF Next

LEMMA RequestStageStep == IInv /\ [Next]_vars => RequestStage'
<1> SUFFICES ASSUME IInv, [Next]_vars PROVE RequestStage'
  OBVIOUS
<1> USE DispatchAssumption DEF IInv, RequestStage, TypeOK, TasksOK, RequestsOK, Stages, Advance
<1>1. ASSUME NEW t \in Tasks, ListSessions(t) \/ ScanEntry(t) \/ PickTarget(t)
      PROVE  RequestStage'
  BY <1>1 DEF ListSessions, ScanEntry, PickTarget, tableVars
<1>2. ASSUME NEW t \in Tasks, InsertTask(t) PROVE RequestStage'
  <2>1. CASE target[t] = None
    BY <1>2, <2>1 DEF InsertTask
  <2>2. CASE target[t] # None
    <3>1. target[t].tid \in Idents /\ target[t].prov \in Providers
      BY <2>2 DEF Slot
    <3>2. QED
      BY <1>2, <2>2, <3>1 DEF InsertTask
  <2>3. QED
    BY <2>1, <2>2
<1>3. ASSUME NEW t \in Tasks, RejectTask(t) PROVE RequestStage'
  BY <1>3 DEF RejectTask
<1>4. ASSUME NEW p \in Providers, ClaimTask(p) PROVE RequestStage'
  BY <1>4 DEF ClaimTask, Claimable, requestVars, WorkersOK, Alive
<1>5. ASSUME NEW p \in Providers, MarkCompleted(p) \/ MarkFailed(p) PROVE RequestStage'
  BY <1>5 DEF MarkCompleted, MarkFailed, TaskStage, TaskStageOf, Working, requestVars
<1>6. ASSUME NEW p \in Providers, Chat(p) \/ SaveReply(p) PROVE RequestStage'
  BY <1>6 DEF Chat, SaveReply, requestVars, tableVars
<1>7. ASSUME NEW p \in Providers, WorkerStep(p) \/ Environment(p), ~Ledgered(p)
      PROVE  RequestStage'
  BY <1>7, LedgerFrame, WorkerFrame DEF requestVars, tableVars
<1>8. ASSUME Restart PROVE RequestStage'
  BY <1>8 DEF Restart
<1>9. CASE UNCHANGED vars
  BY <1>9 DEF vars, requestVars, tableVars
<1>10. QED
  BY <1>1, <1>2, <1>3, <1>4, <1>5, <1>6, <1>7, <1>8, <1>9 DEF Next, HandleRequest, Ledgered

\* Two workers never hold the same task: its owner is the ident of each.
LEMMA TasksApart ==
    ASSUME IInv, NEW p \in Providers, NEW q \in Providers, p # q, Working(p), Working(q)
    PROVE  wtask[p] # wtask[q]
BY DEF IInv, UniqueIdents, TaskStage, TaskStageOf, Working, Alive

\* A page this thread may use belongs to this thread's own provider.
LEMMA OwnPage ==
    ASSUME IInv, NEW p \in Providers, NEW q \in Providers, Alive(p), HasPage(q, wid[p])
    PROVE  q = p
BY DEF IInv, UniqueIdents, PageStage, PageStageOf, HasPage

\* The provider a worker reads from its task is one it knows.
LEMMA TaskProvider ==
    ASSUME IInv, NEW p \in Providers, Working(p)
    PROVE  wtask[p] \in Tasks /\ prov[wtask[p]] \in Providers
<1>1. wtask[p] \in Tasks /\ owner[wtask[p]] = wid[p]
  BY DEF IInv, TaskStage, TaskStageOf
<1>2. wid[p] # None
  BY DispatchAssumption DEF IInv, TypeOK, WorkersOK, Working, Alive
<1>3. QED
  BY <1>1, <1>2 DEF IInv, RequestStage

LEMMA TaskStageStep == IInv /\ [Next]_vars => TaskStage'
<1> SUFFICES ASSUME IInv, [Next]_vars, NEW p \in Providers PROVE TaskStageOf(p)'
  BY DEF TaskStage
<1>0. TaskStageOf(p)
  BY DEF IInv, TaskStage
<1> USE DEF TaskStageOf, Working
<1>1. ASSUME NEW u \in Tasks, HandleRequest(u) PROVE TaskStageOf(p)'
  <2>1. UNCHANGED <<workerVars, sent>>
    BY <1>1, RequestFrame
  <2>2. CASE ListSessions(u) \/ ScanEntry(u) \/ PickTarget(u)
    BY <1>0, <2>1, <2>2 DEF ListSessions, ScanEntry, PickTarget, tableVars, workerVars
  <2>3. CASE InsertTask(u)
    <3>1. status[u] = "absent"
      BY <2>3 DEF InsertTask, IInv, RequestStage
    <3>2. wpc[p] \in {"page", "chat", "save", "done", "fail", "count", "check", "renew"}
            => wtask[p] \in Tasks /\ wtask[p] # u
      BY <1>0, <3>1
    <3>3. \A t \in Tasks \ {u} : /\ status'[t] = status[t] /\ replies'[t] = replies[t]
                                 /\ owner'[t] = owner[t] /\ prov'[t] = prov[t]
      BY <2>3 DEF InsertTask, IInv, TypeOK, TasksOK
    <3>4. QED
      BY <1>0, <2>1, <3>2, <3>3 DEF workerVars
  <2>4. CASE RejectTask(u)
    <3>1. status[u] = "PENDING"
      BY <2>4 DEF RejectTask, IInv, RequestStage
    <3>2. /\ UNCHANGED <<owner, prov, replies>>
          /\ status' = status \/ status' = [status EXCEPT ![u] = "CRITICAL"]
      BY <2>4 DEF RejectTask
    <3>3. QED
      BY <1>0, <2>1, <3>1, <3>2 DEF workerVars, IInv, TypeOK, TasksOK
  <2>5. QED
    BY <1>1, <2>2, <2>3, <2>4 DEF HandleRequest
<1>2. ASSUME NEW q \in Providers \ {p}, WorkerStep(q) \/ Environment(q)
      PROVE  TaskStageOf(p)'
  <2>1. wpc'[p] = wpc[p] /\ wid'[p] = wid[p] /\ wtask'[p] = wtask[p]
    BY <1>2, OtherWorkers DEF IInv
  <2>2. UNCHANGED <<owner, prov>>
    BY <1>2, WorkerFrame
  <2>3. CASE ~Ledgered(q)
    BY <1>0, <1>2, <2>1, <2>2, <2>3, LedgerFrame DEF tableVars
  <2>4. CASE ClaimTask(q)
    BY <1>0, <2>1, <2>2, <2>4 DEF ClaimTask, Claimable, IInv, TypeOK, TasksOK
  <2>5. CASE Chat(q) \/ SaveReply(q) \/ MarkCompleted(q) \/ MarkFailed(q)
    <3>1. Working(q) /\ wtask[q] \in Tasks
      BY <2>5, TaskProvider DEF Chat, SaveReply, MarkCompleted, MarkFailed
    <3>2. \A t \in Tasks \ {wtask[q]} :
             status'[t] = status[t] /\ replies'[t] = replies[t] /\ sent'[t] = sent[t]
      BY <2>5 DEF Chat, SaveReply, MarkCompleted, MarkFailed, tableVars,
                  IInv, TypeOK, TasksOK
    <3>3. \A t \in Tasks : status[t] # "absent" => status'[t] # "absent"
      BY <2>5 DEF Chat, SaveReply, MarkCompleted, MarkFailed, tableVars,
                  IInv, TypeOK, TasksOK
    <3>4. Working(p) => wtask[p] # wtask[q]
      BY <1>2, <3>1, TasksApart
    <3>5. QED
      BY <1>0, <2>1, <2>2, <3>2, <3>3, <3>4
  <2>6. QED
    BY <2>3, <2>4, <2>5 DEF Ledgered
<1>3. ASSUME WorkerStep(p) \/ Environment(p) PROVE TaskStageOf(p)'
  <2> USE DEF IInv, TypeOK, TasksOK, WorkersOK, Go, tableVars
  <2>1. CASE ClaimTask(p)
    <3>1. PICK t \in Tasks : /\ Claimable(t, wid[p])
                             /\ status' = [status EXCEPT ![t] = "DISPATCHED"]
                             /\ wtask' = [wtask EXCEPT ![p] = t]
      BY <2>1 DEF ClaimTask
    <3>2. sent[t] = 0 /\ replies[t] = 0
      BY <3>1 DEF Claimable, PromptAtMostOnce, ReplyMatchesStatus
    <3>3. QED
      BY <2>1, <3>1, <3>2 DEF ClaimTask, Claimable
  <2>2. CASE FindPage(p)
    <3>1. prov[wtask[p]] \in Providers
      BY <2>2, TaskProvider DEF FindPage
    <3>2. HasPage(prov[wtask[p]], wid[p]) => prov[wtask[p]] = p
      BY <2>2, <3>1, OwnPage DEF FindPage, Alive
    <3>3. QED
      BY <1>0, <2>2, <3>2 DEF FindPage
  <2>3. CASE Chat(p)
    BY <1>0, <2>3 DEF Chat
  <2>4. CASE SaveReply(p)
    BY <1>0, <2>4 DEF SaveReply
  <2>5. CASE MarkCompleted(p) \/ MarkFailed(p)
    BY <1>0, <2>5 DEF MarkCompleted, MarkFailed
  <2>6. CASE CountRound(p) \/ CheckRounds(p) \/ ResetRounds(p)
    BY <1>0, <2>6 DEF CountRound, CheckRounds, ResetRounds
  <2>7. CASE UpsertSession(p) \/ BootPage(p) \/ PopEntry(p) \/ ThreadExit(p)
    BY <1>0, <2>7 DEF UpsertSession, BootPage, PopEntry, ThreadExit
  <2>8. CASE \/ StartWorker(p) \/ BootFails(p) \/ StopCommand(p) \/ WorkerFault(p)
             \/ BlockInGet(p) \/ Unblock(p)
    BY <1>0, <2>8 DEF StartWorker, BootFails, StopCommand, WorkerFault, BlockInGet, Unblock
  <2>9. CASE VerifySession(p) \/ DropSession(p) \/ DiscoverSession(p) \/ ClosePage(p)
    BY <1>0, <2>9 DEF VerifySession, DropSession, DiscoverSession, ClosePage, workerVars
  <2>10. QED
    BY <1>3, <2>1, <2>2, <2>3, <2>4, <2>5, <2>6, <2>7, <2>8, <2>9
       DEF WorkerStep, Environment
<1>4. ASSUME Restart PROVE TaskStageOf(p)'
  BY <1>4 DEF Restart
<1>5. CASE UNCHANGED vars
  BY <1>0, <1>5 DEF vars, tableVars, workerVars
<1>6. QED
  BY <1>1, <1>2, <1>3, <1>4, <1>5 DEF Next

LEMMA PageStageStep == IInv /\ [Next]_vars => PageStage'
<1> SUFFICES ASSUME IInv, [Next]_vars, NEW p \in Providers PROVE PageStageOf(p)'
  BY DEF PageStage
<1>0. PageStageOf(p)
  BY DEF IInv, PageStage
<1> USE DEF PageStageOf, PageOpen, Alive
<1>1. ASSUME NEW u \in Tasks, HandleRequest(u) PROVE PageStageOf(p)'
  BY <1>0, <1>1, RequestFrame DEF workerVars
<1>2. ASSUME NEW q \in Providers \ {p}, WorkerStep(q) \/ Environment(q)
      PROVE  PageStageOf(p)'
  <2>1. wpc'[p] = wpc[p] /\ wid'[p] = wid[p]
    BY <1>2, OtherWorkers DEF IInv
  <2>2. entry'[p] = entry[p]
    <3> USE DEF IInv, TypeOK, SessionsOK
    <3>1. CASE WorkerStep(q)
      BY <1>2, <3>1 DEF WorkerStep, UpsertSession, BootPage, OpenPage, ClaimTask, FindPage,
         Chat, SaveReply, MarkCompleted, MarkFailed, CountRound, CheckRounds, ResetRounds,
         PopEntry, ThreadExit
    <3>2. CASE Environment(q)
      BY <1>2, <3>2 DEF Environment, StartWorker, BootFails, VerifySession, OpenPage,
         StopCommand, WorkerFault, DropSession, DiscoverSession, ClosePage, BlockInGet, Unblock
    <3>3. QED
      BY <1>2, <3>1, <3>2
  <2>3. QED
    BY <1>0, <2>1, <2>2
<1>3. ASSUME WorkerStep(p) \/ Environment(p) PROVE PageStageOf(p)'
  <2> USE DEF IInv, TypeOK, WorkersOK, SessionsOK, Go
  <2>1. CASE BootPage(p) \/ VerifySession(p)
    BY <1>0, <2>1 DEF BootPage, VerifySession, OpenPage, HasPage, workerVars
  <2>2. CASE BootFails(p)
    BY <1>0, <2>2 DEF BootFails, ForeignPage
  <2>3. CASE FindPage(p)
    <3>1. prov[wtask[p]] \in Providers
      BY <2>3, TaskProvider DEF FindPage, Working
    <3>2. HasPage(prov[wtask[p]], wid[p]) => HasPage(p, wid[p])
      BY <2>3, <3>1, OwnPage DEF FindPage
    <3>3. QED
      BY <1>0, <2>3, <3>2 DEF FindPage, HasPage
  <2>4. CASE PopEntry(p)
    BY <1>0, <2>4 DEF PopEntry, workerVars
  <2>10. CASE ClosePage(p)
    <3>1. entry'[p] = [tid |-> entry[p].tid, open |-> FALSE] /\ UNCHANGED <<wpc, wid>>
      BY <2>10 DEF ClosePage, workerVars
    <3>2. entry[p].tid \in Idents /\ entry'[p] # None
      <4>1. entry[p] \in Entry
        BY <2>10 DEF ClosePage
      <4>2. entry'[p] \in [tid : Idents, open : BOOLEAN]
        BY <3>1, <4>1 DEF Entry
      <4>3. QED
        BY <4>1, <4>2, DispatchAssumption DEF Entry
    <3>3. QED
      BY <1>0, <3>1, <3>2
  <2>5. CASE StartWorker(p) \/ UpsertSession(p) \/ ThreadExit(p)
    <3>1. StartWorker(p) => ~PageOpen(p)
      BY <1>0 DEF StartWorker
    <3>2. QED
      BY <1>0, <2>5, <3>1 DEF StartWorker, UpsertSession, ThreadExit
  <2>6. CASE \/ StopCommand(p) \/ WorkerFault(p) \/ DropSession(p) \/ DiscoverSession(p)
             \/ BlockInGet(p) \/ Unblock(p)
    BY <1>0, <2>6 DEF StopCommand, WorkerFault, DropSession, DiscoverSession, BlockInGet,
       Unblock, workerVars
  <2>7. CASE ClaimTask(p) \/ Chat(p) \/ SaveReply(p) \/ MarkCompleted(p) \/ MarkFailed(p)
    BY <1>0, <2>7 DEF ClaimTask, Chat, SaveReply, MarkCompleted, MarkFailed
  <2>8. CASE CountRound(p) \/ CheckRounds(p) \/ ResetRounds(p)
    BY <1>0, <2>8 DEF CountRound, CheckRounds, ResetRounds
  <2>9. QED
    BY <1>3, <2>1, <2>2, <2>3, <2>4, <2>5, <2>6, <2>7, <2>8, <2>10
       DEF WorkerStep, Environment
<1>4. ASSUME Restart PROVE PageStageOf(p)'
  BY <1>4 DEF Restart
<1>5. CASE UNCHANGED vars
  BY <1>0, <1>5 DEF vars, workerVars
<1>6. QED
  BY <1>1, <1>2, <1>3, <1>4, <1>5 DEF Next

\* The counters of prompts and replies move with the status of the row.
LEMMA LedgerStep == IInv /\ [Next]_vars => PromptAtMostOnce' /\ ReplyMatchesStatus'
<1> SUFFICES ASSUME IInv, [Next]_vars PROVE PromptAtMostOnce' /\ ReplyMatchesStatus'
  OBVIOUS
<1> USE DEF IInv, PromptAtMostOnce, ReplyMatchesStatus, TypeOK, TasksOK
<1>1. ASSUME NEW u \in Tasks, InsertTask(u) \/ RejectTask(u)
      PROVE  PromptAtMostOnce' /\ ReplyMatchesStatus'
  BY <1>1 DEF InsertTask, RejectTask, RequestStage
<1>2. ASSUME NEW u \in Tasks, ListSessions(u) \/ ScanEntry(u) \/ PickTarget(u)
      PROVE  PromptAtMostOnce' /\ ReplyMatchesStatus'
  BY <1>2 DEF ListSessions, ScanEntry, PickTarget, tableVars
<1>3. ASSUME NEW p \in Providers, Ledgered(p)
      PROVE  PromptAtMostOnce' /\ ReplyMatchesStatus'
  <2>1. TaskStageOf(p)
    BY DEF TaskStage
  <2> USE DEF TaskStageOf, Working
  <2>2. CASE ClaimTask(p)
    BY <2>2 DEF ClaimTask, Claimable
  <2>3. CASE Chat(p)
    BY <2>1, <2>3 DEF Chat, tableVars
  <2>4. CASE SaveReply(p)
    BY <2>1, <2>4 DEF SaveReply
  <2>5. CASE MarkCompleted(p)
    BY <2>1, <2>5 DEF MarkCompleted
  <2>6. CASE MarkFailed(p)
    BY <2>1, <2>6 DEF MarkFailed
  <2>7. QED
    BY <1>3, <2>2, <2>3, <2>4, <2>5, <2>6 DEF Ledgered
<1>4. ASSUME NEW p \in Providers, WorkerStep(p) \/ Environment(p), ~Ledgered(p)
      PROVE  PromptAtMostOnce' /\ ReplyMatchesStatus'
  BY <1>4, LedgerFrame DEF tableVars
<1>5. ASSUME Restart PROVE PromptAtMostOnce' /\ ReplyMatchesStatus'
  BY <1>5 DEF Restart
<1>6. CASE UNCHANGED vars
  BY <1>6 DEF vars, tableVars
<1>7. QED
  BY <1>1, <1>2, <1>3, <1>4, <1>5, <1>6 DEF Next, HandleRequest, Ledgered

LEMMA Spending ==
    ASSUME BudgetsOK, NEW b \in {"stops", "faults", "closes", "restarts"}, Spend(b)
    PROVE  /\ left'[b] = left[b] - 1
           /\ \A c \in {"stops", "faults", "closes", "restarts"} \ {b} : left'[c] = left[c]
BY DEF Spend, BudgetsOK

\* What was lost only grows, and a fault of a worker or a restart adds one.
LEMMA LostStep ==
    ASSUME IInv, [Next]_vars
    PROVE  /\ Lost \in Nat /\ Lost' \in Nat /\ Lost' >= Lost
           /\ left.faults' <= MaxFaults /\ left.restarts' <= MaxRestarts
           /\ Restart => Lost' = Lost + 1
           /\ \A p \in Providers : WorkerFault(p) => Lost' = Lost + 1
<1>0. /\ left.faults \in Nat /\ left.restarts \in Nat
      /\ left.faults' \in Nat /\ left.restarts' \in Nat
      /\ left.faults <= MaxFaults /\ left.restarts <= MaxRestarts
      /\ MaxFaults \in Nat /\ MaxRestarts \in Nat
      /\ BudgetsOK
  BY DispatchAssumption, BudgetTyping DEF BudgetsOK, IInv, BudgetsKept, TypeOK
<1>1. CASE UNCHANGED left
  <2>1. \A b \in {"stops", "faults", "closes", "restarts"} : ~Spend(b)
    BY <1>0, <1>1 DEF Spend, BudgetsOK
  <2>2. QED
    BY <1>0, <1>1, <2>1 DEF Lost, Restart, WorkerFault
<1>2. CASE Spend("stops") \/ Spend("closes")
  <2>1. left.faults' = left.faults /\ left.restarts' = left.restarts
    BY <1>0, <1>2, Spending
  <2>2. ~Spend("faults") /\ ~Spend("restarts")
    BY <1>0, <2>1, Spending
  <2>3. QED
    BY <1>0, <2>1, <2>2 DEF Lost, Restart, WorkerFault
<1>3. CASE Spend("faults")
  <2>1. left.faults' = left.faults - 1 /\ left.restarts' = left.restarts
    BY <1>0, <1>3, Spending
  <2>2. QED
    BY <1>0, <2>1 DEF Lost
<1>4. CASE Spend("restarts")
  <2>1. left.faults' = left.faults /\ left.restarts' = left.restarts - 1
    BY <1>0, <1>4, Spending
  <2>2. QED
    BY <1>0, <2>1 DEF Lost
<1>5. UNCHANGED left \/ \E b \in {"stops", "faults", "closes", "restarts"} : Spend(b)
  <2>1. ASSUME NEW u \in Tasks, HandleRequest(u) PROVE UNCHANGED left \/ Spend("faults")
    BY <2>1 DEF HandleRequest, ListSessions, ScanEntry, PickTarget, InsertTask, RejectTask
  <2>2. ASSUME NEW p \in Providers, WorkerStep(p) PROVE UNCHANGED left
    BY <2>2 DEF WorkerStep, UpsertSession, BootPage, ClaimTask, FindPage, Chat, SaveReply,
       MarkCompleted, MarkFailed, CountRound, CheckRounds, ResetRounds, PopEntry, ThreadExit
  <2>3. ASSUME NEW p \in Providers, Environment(p)
        PROVE  UNCHANGED left \/ Spend("stops") \/ Spend("faults") \/ Spend("closes")
    BY <2>3 DEF Environment, StartWorker, BootFails, VerifySession, StopCommand,
       WorkerFault, DropSession, DiscoverSession, ClosePage, BlockInGet, Unblock
  <2>4. Restart => Spend("restarts")
    BY DEF Restart
  <2>5. QED
    BY <2>1, <2>2, <2>3, <2>4 DEF Next, vars
<1>6. QED
  BY <1>1, <1>2, <1>3, <1>4, <1>5

\* A counter of 0 is within any limit.
LEMMA NoRounds ==
    ASSUME NEW limit \in Nat, limit > 0, NEW lost \in Nat
    PROVE  0 <= limit + lost - 1 /\ 0 <= limit + lost - 0
  OBVIOUS

\* The counter of one session, between its increment and its reset.
RoundsOK(p) ==
    /\ p \notin sessions => rounds[p] = 0
    /\ MaxRounds > 0 => rounds[p] <= MaxRounds + Lost - (IF Counting(p) THEN 0 ELSE 1)

LEMMA RoundsStep == IInv /\ [Next]_vars => BudgetsKept' /\ RoundsBounded'
<1> SUFFICES ASSUME IInv, [Next]_vars, NEW p \in Providers PROVE RoundsOK(p)'
  BY LostStep DEF RoundsOK, BudgetsKept, RoundsBounded
<1>0. /\ RoundsOK(p) /\ rounds[p] \in Nat /\ MaxRounds \in Nat
      /\ Lost \in Nat /\ Lost' \in Nat /\ Lost' >= Lost
  BY LostStep, DispatchAssumption
     DEF IInv, RoundsOK, BudgetsKept, RoundsBounded, TypeOK, SessionsOK
<1>1. ASSUME p \in sessions' <=> p \in sessions, rounds'[p] = rounds[p],
             Counting(p) => Counting(p)'
      PROVE  RoundsOK(p)'
  BY <1>0, <1>1 DEF RoundsOK
<1>2. ASSUME rounds'[p] = 0 PROVE RoundsOK(p)'
  <2>1. ASSUME MaxRounds > 0
        PROVE  0 <= MaxRounds + Lost' - 1 /\ 0 <= MaxRounds + Lost' - 0
    BY <1>0, <2>1, NoRounds
  <2>2. QED
    BY <1>2, <2>1 DEF RoundsOK
<1>3. ASSUME NEW u \in Tasks, HandleRequest(u) PROVE RoundsOK(p)'
  BY <1>1, <1>3, RequestFrame DEF sessionVars, workerVars, Counting
<1>4. ASSUME NEW q \in Providers \ {p}, WorkerStep(q) \/ Environment(q)
      PROVE  RoundsOK(p)'
  <2>1. wpc'[p] = wpc[p] /\ wtask'[p] = wtask[p]
    BY <1>4, OtherWorkers DEF IInv
  <2>2. (p \in sessions' <=> p \in sessions) /\ rounds'[p] = rounds[p]
    <3> USE DEF IInv, TypeOK, SessionsOK, sessionVars
    <3>1. CASE CountRound(q) \/ ResetRounds(q)
      <4>1. prov[wtask[q]] = q
        BY <3>1 DEF CountRound, ResetRounds, TaskStage, TaskStageOf
      <4>2. QED
        BY <3>1, <4>1 DEF CountRound, ResetRounds
    <3>2. CASE Environment(q)
      BY <3>2 DEF Environment, StartWorker, BootFails, VerifySession, StopCommand,
         WorkerFault, DropSession, DiscoverSession, ClosePage, BlockInGet, Unblock
    <3>3. CASE WorkerStep(q) /\ ~CountRound(q) /\ ~ResetRounds(q)
      BY <3>3 DEF WorkerStep, UpsertSession, BootPage, ClaimTask, FindPage, Chat,
         SaveReply, MarkCompleted, MarkFailed, CheckRounds, PopEntry, ThreadExit
    <3>4. QED
      BY <1>4, <3>1, <3>2, <3>3
  <2>3. cut' \subseteq cut \cup {t \in Tasks : prov[t] = q}
    <3>1. CASE WorkerStep(q)
      BY <3>1 DEF WorkerStep, UpsertSession, BootPage, ClaimTask, FindPage, Chat,
         SaveReply, MarkCompleted, MarkFailed, CountRound, CheckRounds, ResetRounds,
         PopEntry, ThreadExit, sessionVars
    <3>2. CASE Environment(q)
      BY <3>2 DEF Environment, StartWorker, BootFails, VerifySession, StopCommand,
         WorkerFault, DropSession, DiscoverSession, ClosePage, BlockInGet, Unblock, sessionVars
    <3>3. QED
      BY <1>4, <3>1, <3>2
  <2>4. Counting(p) => Counting(p)'
    <3>1. Counting(p) => prov[wtask[p]] = p
      BY DEF Counting, IInv, TaskStage, TaskStageOf
    <3>2. QED
      BY <2>1, <2>3, <3>1 DEF Counting
  <2>5. QED
    BY <1>1, <2>2, <2>4
<1>5. ASSUME WorkerStep(p) \/ Environment(p) PROVE RoundsOK(p)'
  <2>0. /\ p \in DOMAIN wpc /\ p \in DOMAIN rounds
        /\ wpc[p] \in {"count", "check", "renew"} => prov[wtask[p]] = p
    BY DEF IInv, TypeOK, WorkersOK, SessionsOK, TaskStage, TaskStageOf
  <2>1. CASE CountRound(p)
    <3>1. UNCHANGED <<sessions, cut, wtask>> /\ wpc'[p] = "check" /\ ~Counting(p)
      BY <2>0, <2>1 DEF CountRound, Go, Counting
    <3>2. IF SessionFound(wtask[p]) THEN rounds'[p] = rounds[p] + 1 ELSE rounds' = rounds
      BY <2>0, <2>1 DEF CountRound
    <3>3. SessionFound(wtask[p]) => p \in sessions /\ Counting(p)'
      BY <2>0, <2>1, <3>1 DEF CountRound, SessionFound, Counting
    <3>4. CASE SessionFound(wtask[p])
      BY <1>0, <3>1, <3>3, <3>2, <3>4 DEF RoundsOK
    <3>5. CASE ~SessionFound(wtask[p])
      BY <1>1, <3>1, <3>2, <3>5
    <3>6. QED
      BY <3>4, <3>5
  <2>2. CASE CheckRounds(p)
    <3>1. UNCHANGED <<sessions, rounds, cut>>
      BY <2>2 DEF CheckRounds, sessionVars
    <3>2. CASE LimitReached(wtask[p]) \/ ~Counting(p)
      <4>1. Counting(p) => Counting(p)'
        BY <2>0, <2>2, <3>1, <3>2 DEF CheckRounds, Go, Counting
      <4>2. QED
        BY <1>1, <3>1, <4>1
    <3>3. CASE p \notin sessions
      BY <1>0, <1>2, <3>1, <3>3 DEF RoundsOK
    <3>4. CASE p \in sessions /\ Counting(p) /\ ~LimitReached(wtask[p])
      <4>1. MaxRounds > 0 => ~(rounds[p] >= MaxRounds)
        BY <2>0, <2>2, <3>4 DEF CheckRounds, Counting, LimitReached, SessionFound
      <4>2. QED
        BY <1>0, <3>1, <3>4, <4>1 DEF RoundsOK
    <3>5. QED
      BY <3>2, <3>3, <3>4
  <2>3. CASE ResetRounds(p)
    <3>1. /\ UNCHANGED <<sessions, cut>>
          /\ rounds'[p] = IF SessionFound(wtask[p]) THEN 0 ELSE rounds[p]
      BY <2>0, <2>3 DEF ResetRounds
    <3>2. CASE SessionFound(wtask[p])
      BY <1>2, <3>1, <3>2
    <3>3. CASE p \notin sessions
      BY <1>0, <1>2, <3>1, <3>3 DEF RoundsOK
    <3>4. CASE p \in sessions /\ ~SessionFound(wtask[p])
      <4>1. ~Counting(p)
        BY <2>0, <2>3, <3>4 DEF ResetRounds, SessionFound, Counting
      <4>2. QED
        BY <1>1, <3>1, <3>4, <4>1
    <3>5. QED
      BY <3>2, <3>3, <3>4
  <2>4. CASE WorkerFault(p)
    <3>1. Lost' = Lost + 1 /\ UNCHANGED <<sessions, rounds>>
      BY <2>4, LostStep DEF WorkerFault, sessionVars
    <3>2. QED
      BY <1>0, <3>1 DEF RoundsOK
  <2>5. CASE UpsertSession(p) \/ DiscoverSession(p)
    <3>1. rounds'[p] = rounds[p] /\ p \in sessions' /\ UNCHANGED cut
      BY <2>5 DEF UpsertSession, DiscoverSession
    <3>2. Counting(p) => Counting(p)'
      BY <2>0, <2>5, <3>1 DEF UpsertSession, DiscoverSession, Go, workerVars, Counting
    <3>3. QED
      BY <1>0, <3>1, <3>2 DEF RoundsOK
  <2>6. CASE DropSession(p)
    <3>1. rounds'[p] = 0
      BY <2>0, <2>6 DEF DropSession
    <3>2. QED
      BY <1>2, <3>1
  <2>7. CASE BootPage(p) \/ FindPage(p) \/ Ledgered(p) \/ PopEntry(p) \/ ThreadExit(p)
    <3>1. UNCHANGED sessionVars /\ ~Counting(p)
      BY <2>7 DEF BootPage, FindPage, Ledgered, ClaimTask, Chat, SaveReply,
         MarkCompleted, MarkFailed, PopEntry, ThreadExit, sessionVars, Counting
    <3>2. QED
      BY <1>1, <3>1 DEF sessionVars
  <2>8. CASE \/ StartWorker(p) \/ BootFails(p) \/ VerifySession(p) \/ StopCommand(p)
             \/ ClosePage(p) \/ BlockInGet(p) \/ Unblock(p)
    <3>1. UNCHANGED sessionVars
      BY <2>8 DEF StartWorker, BootFails, VerifySession, StopCommand, ClosePage, BlockInGet,
         Unblock
    <3>2. Counting(p) => Counting(p)'
      BY <2>8, <3>1 DEF StartWorker, BootFails, VerifySession, StopCommand, ClosePage,
         BlockInGet, Unblock, sessionVars, workerVars, Counting
    <3>3. QED
      BY <1>1, <3>1, <3>2 DEF sessionVars
  <2>9. QED
    BY <1>5, <2>1, <2>2, <2>3, <2>4, <2>5, <2>6, <2>7, <2>8
       DEF WorkerStep, Environment, Ledgered
<1>6. ASSUME Restart PROVE RoundsOK(p)'
  <2>1. Lost' = Lost + 1 /\ UNCHANGED <<sessions, rounds>>
    BY <1>6, LostStep DEF Restart, sessionVars
  <2>2. QED
    BY <1>0, <2>1 DEF RoundsOK
<1>7. CASE UNCHANGED vars
  BY <1>1, <1>7 DEF vars, sessionVars, workerVars, Counting
<1>8. QED
  BY <1>3, <1>4, <1>5, <1>6, <1>7 DEF Next
-----------------------------------------------------------------------------
(* The invariants.                                                         *)

LEMMA InitIInv == Init => IInv
<1> SUFFICES ASSUME Init PROVE IInv
  OBVIOUS
<1>1. TypeOK
  BY InitTyping
<1>2. UniqueIdents /\ RequestStage /\ TaskStage /\ PageStage
  BY DEF Init, UniqueIdents, RequestStage, TaskStage, TaskStageOf, PageStage, PageStageOf,
     PageOpen, Alive, Working
<1>3. PromptAtMostOnce /\ ReplyMatchesStatus
  BY DEF Init, PromptAtMostOnce, ReplyMatchesStatus
<1>4. BudgetsKept /\ RoundsBounded
  BY DispatchAssumption DEF Init, BudgetsKept, RoundsBounded, Lost
<1>5. QED
  BY <1>1, <1>2, <1>3, <1>4 DEF IInv

\* The strengthened invariant holds in every reachable state of the dispatch.
THEOREM Invariance == Spec => []IInv
<1>1. IInv /\ [Next]_vars => IInv'
  <2> SUFFICES ASSUME IInv, [Next]_vars PROVE IInv'
    OBVIOUS
  <2>1. TypeOK'
    BY RequestTyping, TaskTyping, SessionTyping, WorkerTyping, BudgetTyping
       DEF IInv, TypeOK
  <2>2. QED
    BY <2>1, UniqueIdentsStep, RequestStageStep, TaskStageStep, PageStageStep,
       LedgerStep, RoundsStep DEF IInv
<1>2. QED
  BY InitIInv, <1>1, PTL DEF Spec

\* A task in progress is held by one worker, the one its row names: a thread
\* ident that the OS hands out again never makes two workers share a task.
THEOREM Ownership == Spec => []WorkerOwnsTask
<1>1. IInv => WorkerOwnsTask
  <2> SUFFICES ASSUME IInv, NEW p \in Providers, Working(p)
               PROVE  /\ wtask[p] \in Tasks
                      /\ status[wtask[p]] = "DISPATCHED"
                      /\ owner[wtask[p]] = wid[p]
                      /\ \A q \in Providers \ {p} : Working(q) => wtask[q] # wtask[p]
    BY DEF WorkerOwnsTask
  <2>1. TaskStageOf(p)
    BY DEF IInv, TaskStage
  <2>2. QED
    BY <2>1, TasksApart DEF TaskStageOf
<1>2. QED
  BY Invariance, <1>1, PTL

\* No prompt is handed to a chat page twice, whatever fails or restarts.
THEOREM PromptOnce == Spec => []PromptAtMostOnce
<1>1. IInv => PromptAtMostOnce
  BY DEF IInv
<1>2. QED
  BY Invariance, <1>1, PTL

\* A final status tells the truth about the stored replies.
THEOREM TruthfulStatus == Spec => []ReplyMatchesStatus
<1>1. IInv => ReplyMatchesStatus
  BY DEF IInv
<1>2. QED
  BY Invariance, <1>1, PTL

\* No worker thread ever leaves an open page behind it, so its successor can
\* always take the provider's page.
THEOREM PagesOwned == Spec => []OpenPageHasLiveOwner
<1>1. IInv => OpenPageHasLiveOwner
  BY DEF IInv, PageStage, PageStageOf, OpenPageHasLiveOwner
<1>2. QED
  BY Invariance, <1>1, PTL

\* A worker chats only in its own provider's page and for that provider's tasks.
THEOREM OwnPageOnly == Spec => []ChatOnOwnPage
<1>1. IInv => ChatOnOwnPage
  BY DEF IInv, PageStage, PageStageOf, TaskStage, TaskStageOf, ChatOnOwnPage
<1>2. QED
  BY Invariance, <1>1, PTL

\* The rounds of a session overrun the limit by one per lost reset at most.
THEOREM RoundsLimited == Spec => []RoundsBounded
<1>1. IInv => RoundsBounded
  BY DEF IInv
<1>2. QED
  BY Invariance, <1>1, PTL
-----------------------------------------------------------------------------
(* The abstract pool.                                                      *)

Seen == <<sessions, Entered>>

\* A worker in its ledger leaves session rows and pool alone, as a request does.
LEMMA LedgerSeen ==
  ASSUME NEW p \in Providers, Ledgered(p)
  PROVE  UNCHANGED Seen
  BY DEF Ledgered, ClaimTask, Chat, SaveReply, MarkCompleted, MarkFailed, sessionVars,
         Seen, Entered

\* Any other step of a worker or of its environment changes one session row, or
\* one entry of the pool, at most.
LEMMA SeenStep ==
  ASSUME SessionsOK, NEW p \in Providers, WorkerStep(p) \/ Environment(p), ~Ledgered(p)
  PROVE  \/ UNCHANGED Seen
         \/ Pool!SessionChanges
         \/ Pool!EntryChanges
<1>1. UNCHANGED <<status, owner, replies>>
  BY LedgerFrame DEF tableVars
<1>2. ASSUME \E e : entry' = [entry EXCEPT ![p] = e], UNCHANGED sessions
      PROVE  Pool!EntryChanges
  <2>1. Entered' = Entered \cup {p} \/ Entered' = Entered \ {p}
    BY <1>2 DEF Entered, SessionsOK
  <2>2. QED
    BY <1>1, <1>2, <2>1 DEF Pool!EntryChanges, Pool!rows
<1>3. ASSUME sessions' = sessions \cup {p} \/ sessions' = sessions \ {p}, UNCHANGED entry
      PROVE  Pool!SessionChanges
  BY <1>1, <1>3 DEF Pool!SessionChanges, Pool!rows, Entered
<1>4. CASE BootPage(p) \/ VerifySession(p) \/ PopEntry(p) \/ ClosePage(p)
  <2>1. UNCHANGED sessions
    BY <1>4 DEF BootPage, VerifySession, PopEntry, ClosePage, sessionVars
  <2>2. (\E e : entry' = [entry EXCEPT ![p] = e]) \/ UNCHANGED entry
    BY <1>4, Zenon DEF BootPage, VerifySession, PopEntry, ClosePage, OpenPage
  <2>3. QED
    BY <1>2, <2>1, <2>2 DEF Seen, Entered
<1>5. CASE UpsertSession(p) \/ DropSession(p) \/ DiscoverSession(p)
  BY <1>3, <1>5 DEF UpsertSession, DropSession, DiscoverSession
<1>6. CASE \/ FindPage(p) \/ CountRound(p) \/ CheckRounds(p) \/ ResetRounds(p)
           \/ ThreadExit(p) \/ StartWorker(p) \/ BootFails(p) \/ StopCommand(p)
           \/ WorkerFault(p) \/ BlockInGet(p) \/ Unblock(p)
  BY <1>6 DEF FindPage, CountRound, CheckRounds, ResetRounds, ThreadExit, StartWorker,
              BootFails, StopCommand, WorkerFault, BlockInGet, Unblock, sessionVars, Seen,
              Entered
<1>7. QED
  BY <1>4, <1>5, <1>6 DEF WorkerStep, Environment, Ledgered

\* Every step of the dispatch is a step of the pool of tasks or leaves it as it is.
LEMMA PoolStep == IInv /\ [Next]_vars => [Pool!Next]_(Pool!vars)
<1> SUFFICES ASSUME IInv, [Next]_vars PROVE Pool!Next \/ UNCHANGED Pool!vars
  OBVIOUS
<1> USE DEF Pool!vars, Pool!rows
<1>1. ASSUME NEW t \in Tasks, HandleRequest(t) PROVE Pool!Next \/ UNCHANGED Pool!vars
  <2>0. UNCHANGED <<sessions, Entered>>
    BY <1>1, RequestFrame DEF sessionVars, Entered
  <2>1. CASE ListSessions(t) \/ ScanEntry(t) \/ PickTarget(t)
    BY <2>0, <2>1 DEF ListSessions, ScanEntry, PickTarget, tableVars
  <2>2. CASE InsertTask(t)
    <3>1. status[t] = "absent" /\ owner[t] = None /\ owner \in [Tasks -> Idents \cup {None}]
      BY <2>2 DEF InsertTask, IInv, RequestStage, TypeOK, TasksOK
    <3>2. \E o \in Idents \cup {None} : owner' = [owner EXCEPT ![t] = o]
      <4>1. CASE target[t] = None
        <5>1. owner' = [owner EXCEPT ![t] = None]
          BY <2>2, <3>1, <4>1 DEF InsertTask
        <5>2. QED
          BY <5>1
      <4>2. CASE target[t] # None
        <5>1. target[t].tid \in Idents
          BY <4>2 DEF IInv, TypeOK, RequestsOK, Slot
        <5>2. owner' = [owner EXCEPT ![t] = target[t].tid]
          BY <2>2, <4>2 DEF InsertTask
        <5>3. QED
          BY <5>1, <5>2
      <4>3. QED
        BY <4>1, <4>2
    <3>3. Pool!Submit(t)
      BY <2>0, <2>2, <3>1, <3>2 DEF InsertTask, Pool!Submit, Pool!Move
    <3>4. QED
      BY <3>3 DEF Pool!Next
  <2>3. CASE RejectTask(t)
    <3>1. status[t] = "PENDING" /\ owner[t] = None
      BY <2>3 DEF RejectTask, IInv, RequestStage
    <3>2. Pool!Reject(t) \/ UNCHANGED Pool!vars
      BY <2>0, <2>3, <3>1 DEF RejectTask, Pool!Reject, Pool!Move
    <3>3. QED
      BY <3>2 DEF Pool!Next
  <2>4. QED
    BY <1>1, <2>1, <2>2, <2>3 DEF HandleRequest
<1>2. ASSUME NEW p \in Providers, Ledgered(p) PROVE Pool!Next \/ UNCHANGED Pool!vars
  <2>0. UNCHANGED <<sessions, Entered>>
    BY <1>2, LedgerSeen DEF Seen
  <2>1. TaskStageOf(p)
    BY DEF IInv, TaskStage
  <2>2. CASE ClaimTask(p)
    <3>1. PICK t \in Tasks : /\ Claimable(t, wid[p])
                             /\ status' = [status EXCEPT ![t] = "DISPATCHED"]
      BY <2>2 DEF ClaimTask
    <3>2. wid[p] # None
      BY <2>2, DispatchAssumption DEF ClaimTask, IInv, TypeOK, WorkersOK, Alive
    <3>3. Pool!Claim(t)
      BY <2>0, <2>2, <3>1, <3>2 DEF ClaimTask, Claimable, Pool!Claim, Pool!Move
    <3>4. QED
      BY <3>3 DEF Pool!Next
  <2>3. CASE Chat(p)
    BY <2>0, <2>3 DEF Chat, tableVars
  <2>4. CASE SaveReply(p)
    <3>1. Pool!Answer(wtask[p]) /\ wtask[p] \in Tasks
      <4>1. /\ wtask[p] \in Tasks /\ status[wtask[p]] = "DISPATCHED"
            /\ replies[wtask[p]] = 0
        BY <2>1, <2>4 DEF SaveReply, TaskStageOf, Working
      <4>2. replies' = [replies EXCEPT ![wtask[p]] = replies[wtask[p]] + 1]
        BY <2>4, Zenon DEF SaveReply
      <4>3. QED
        BY <2>0, <2>4, <4>1, <4>2 DEF SaveReply, Pool!Answer
    <3>2. QED
      BY <3>1 DEF Pool!Next
  <2>5. CASE MarkCompleted(p)
    <3>1. Pool!Complete(wtask[p]) /\ wtask[p] \in Tasks
      BY <2>0, <2>1, <2>5 DEF MarkCompleted, TaskStageOf, Working, Pool!Complete, Pool!Move
    <3>2. QED
      BY <3>1 DEF Pool!Next
  <2>6. CASE MarkFailed(p)
    <3>1. Pool!Fail(wtask[p]) /\ wtask[p] \in Tasks
      BY <2>0, <2>1, <2>6 DEF MarkFailed, TaskStageOf, Working, Pool!Fail, Pool!Move
    <3>2. QED
      BY <3>1 DEF Pool!Next
  <2>7. QED
    BY <1>2, <2>2, <2>3, <2>4, <2>5, <2>6 DEF Ledgered
<1>3. ASSUME NEW p \in Providers, WorkerStep(p) \/ Environment(p), ~Ledgered(p)
      PROVE  Pool!Next \/ UNCHANGED Pool!vars
  <2>1. UNCHANGED <<status, owner, replies>>
    BY <1>3, LedgerFrame DEF tableVars
  <2>2. SessionsOK
    BY DEF IInv, TypeOK
  <2>3. QED
    BY <1>3, <2>1, <2>2, SeenStep DEF Seen, Pool!Next
<1>4. ASSUME Restart PROVE Pool!Next
  <2>1. Entered' = {}
    BY <1>4 DEF Restart, Entered
  <2>2. Pool!Purge
    BY <1>4, <2>1 DEF Restart, sessionVars, Pool!Purge
  <2>3. QED
    BY <2>2 DEF Pool!Next
<1>5. CASE UNCHANGED vars
  BY <1>5 DEF vars, tableVars, sessionVars, Entered
<1>6. QED
  BY <1>1, <1>2, <1>3, <1>4, <1>5 DEF Next

\* The server behaves as TaskPool promises a polling client: a row never leaves a
\* final status but by the purge, only an owned row is ever taken, it is COMPLETED
\* exactly with its one reply, and session rows and pool entries come and go one
\* at a time, unless the server starts again.
THEOREM Refinement == Spec => ImplementsTaskPool
<1>1. Init => Pool!Init
  BY DEF Init, Pool!Init, Entered
<1>2. QED
  BY <1>1, PoolStep, Invariance, PTL DEF Spec, ImplementsTaskPool, Pool!Spec
-----------------------------------------------------------------------------
(* A server that is up spreads the requests evenly.                        *)

\* The bounds are only spent, so a system that is undisturbed has always been.
Within == /\ left.stops <= MaxStops
          /\ left.faults <= MaxFaults
          /\ left.restarts <= MaxRestarts

\* Every provider has its row and an entry, and its worker is in its loop.
InLoop == {"idle", "get", "page", "chat", "save", "done", "fail", "count", "check", "renew"}
Up == /\ sessions = Providers
      /\ \A p \in Providers : entry[p] # None /\ wpc[p] \in InLoop

\* A request finds every session ready, in the order of the list.
FindsAll(t) ==
    /\ rpc[t] \in {"new", "scan"} => target[t] = None
    /\ rpc[t] = "new" => ready[t] = <<>>
    /\ rpc[t] # "new" => listed[t] = Providers
    /\ at[t] = Len(ready[t]) + 1
    /\ Len(ready[t]) <= Len(Order)
    /\ \A k \in 1..Len(ready[t]) : ready[t][k].prov = Order[k]

\* The cursor has gone round m times and then on to rr: the places after the
\* first, up to its own, are one task ahead.
Ahead(j) == IF j \in 2..(rr + 1) THEN 1 ELSE 0
Turns(m) == \A j \in 1..Len(Order) :
                /\ IsFiniteSet(Assigned(Order[j]))
                /\ Cardinality(Assigned(Order[j])) = m + Ahead(j)
Balanced == /\ Len(Order) > 0 => rr < Len(Order)
            /\ \E m \in Nat : Turns(m)

Spread == Up /\ (\A t \in Tasks : FindsAll(t)) /\ Balanced
SpreadInv == TypeOK /\ Within /\ (Undisturbed => Spread)

\* A step leaves the bounds alone or spends one of them.
Spends == \E b \in {"stops", "faults", "closes", "restarts"} :
              left[b] > 0 /\ left' = [left EXCEPT ![b] = @ - 1]
LEMMA BudgetStep == [Next]_vars => left' = left \/ Spends
<1> SUFFICES ASSUME [Next]_vars PROVE left' = left \/ Spends
  OBVIOUS
<1> USE DEF Spends, Spend
<1>1. ASSUME NEW t \in Tasks, HandleRequest(t) PROVE left' = left \/ Spends
  BY <1>1 DEF HandleRequest, ListSessions, ScanEntry, PickTarget, InsertTask, RejectTask
<1>2. ASSUME NEW p \in Providers, WorkerStep(p) PROVE left' = left \/ Spends
  BY <1>2 DEF WorkerStep, UpsertSession, BootPage, ClaimTask, FindPage, Chat, SaveReply,
     MarkCompleted, MarkFailed, CountRound, CheckRounds, ResetRounds, PopEntry, ThreadExit
<1>3. ASSUME NEW p \in Providers, Environment(p) PROVE left' = left \/ Spends
  BY <1>3 DEF Environment, StartWorker, BootFails, VerifySession, StopCommand,
     WorkerFault, DropSession, DiscoverSession, ClosePage, BlockInGet, Unblock
<1>4. ASSUME Restart PROVE left' = left \/ Spends
  BY <1>4 DEF Restart
<1>5. CASE UNCHANGED vars
  BY <1>5 DEF vars
<1>6. QED
  BY <1>1, <1>2, <1>3, <1>4, <1>5 DEF Next

\* Hence what is undisturbed after a step was so before it, and the step itself
\* was no disturbance.
Calm == /\ left'.stops = left.stops
        /\ left'.faults = left.faults
        /\ left'.restarts = left.restarts
LEMMA CalmBefore ==
    ASSUME TypeOK, Within, [Next]_vars
    PROVE  /\ Within'
           /\ Undisturbed' => Undisturbed /\ Calm
<1>1. CASE left' = left
  BY <1>1 DEF Within, Undisturbed, Calm
<1>2. ASSUME NEW b \in {"stops", "faults", "closes", "restarts"},
             left[b] > 0, left' = [left EXCEPT ![b] = @ - 1]
      PROVE  /\ Within'
             /\ Undisturbed' => Undisturbed /\ Calm
  <2>1. left'[b] = left[b] - 1
    BY <1>2 DEF TypeOK, BudgetsOK
  <2>2. \A c \in {"stops", "faults", "closes", "restarts"} : c # b => left'[c] = left[c]
    BY <1>2 DEF TypeOK, BudgetsOK
  <2>3. \A c \in {"stops", "faults", "closes", "restarts"} : left[c] \in Nat
    BY DEF TypeOK, BudgetsOK
  <2>4. {MaxStops, MaxFaults, MaxRestarts} \subseteq Nat
    BY DispatchAssumption
  <2>5. QED
    BY <2>1, <2>2, <2>3, <2>4 DEF Within, Undisturbed, Calm
<1>3. QED
  BY <1>1, <1>2, BudgetStep DEF Spends

\* What is left of a step when no bound but that on closed pages is spent.
LEMMA NothingSpent ==
    ASSUME TypeOK, Calm
    PROVE  ~Spend("stops") /\ ~Spend("faults") /\ ~Spend("restarts")
<1> SUFFICES ASSUME NEW b \in {"stops", "faults", "restarts"}, Spend(b)
             PROVE  FALSE
  OBVIOUS
<1>1. left'[b] = left[b] - 1 /\ left[b] \in Nat
  BY DEF Spend, TypeOK, BudgetsOK
<1>2. left'[b] = left[b]
  BY DEF Calm
<1>3. QED
  BY <1>1, <1>2

\* The workers stay in their loops and the entries in the pool.
LEMMA UpStep ==
    ASSUME TypeOK, Up, Calm, [Next]_vars
    PROVE  Up'
<1> USE DEF Up
<1>1. ASSUME NEW t \in Tasks, HandleRequest(t) PROVE Up'
  BY <1>1, RequestFrame DEF sessionVars, workerVars
<1>2. ASSUME NEW p \in Providers, WorkerStep(p) PROVE Up'
  <2>1. wpc[p] \in InLoop
    OBVIOUS
  <2>2. UNCHANGED <<sessions, entry>>
    BY <1>2, <2>1 DEF InLoop, WorkerStep, UpsertSession, BootPage, ClaimTask, FindPage,
       Chat, SaveReply, MarkCompleted, MarkFailed, CountRound, CheckRounds, ResetRounds,
       PopEntry, ThreadExit, sessionVars
  <2>3. \E place \in InLoop : Go(p, place)
    BY <1>2, <2>1 DEF InLoop, WorkerStep, UpsertSession, BootPage, ClaimTask, FindPage,
       Chat, SaveReply, MarkCompleted, MarkFailed, CountRound, CheckRounds, ResetRounds,
       PopEntry, ThreadExit
  <2>4. \A q \in Providers : wpc'[q] \in InLoop
    BY <2>3 DEF Go, TypeOK, WorkersOK
  <2>5. QED
    BY <2>2, <2>4
<1>3. ASSUME NEW p \in Providers, Environment(p) PROVE Up'
  <2>1. wpc[p] \in InLoop /\ p \in sessions
    OBVIOUS
  <2>2. VerifySession(p) \/ ClosePage(p) \/ BlockInGet(p) \/ Unblock(p)
    BY <1>3, <2>1, NothingSpent DEF Environment, InLoop, StartWorker, BootFails,
       StopCommand, WorkerFault, DropSession, DiscoverSession
  <2>3. UNCHANGED entry \/ \E e \in Entry : entry' = [entry EXCEPT ![p] = e]
    <3>1. CASE VerifySession(p)
      <4>1. wid[p] \in Idents
        BY <2>1 DEF TypeOK, WorkersOK, Alive, InLoop
      <4>2. QED
        BY <3>1, <4>1 DEF VerifySession, OpenPage, Entry
    <3>2. CASE ClosePage(p)
      <4>1. entry[p] \in Entry
        BY DEF TypeOK, SessionsOK
      <4>2. [tid |-> entry[p].tid, open |-> FALSE] \in Entry
        BY <4>1 DEF Entry
      <4>3. QED
        BY <3>2, <4>2 DEF ClosePage
    <3>3. CASE BlockInGet(p) \/ Unblock(p)
      BY <3>3 DEF BlockInGet, Unblock
    <3>4. QED
      BY <2>2, <3>1, <3>2, <3>3
  <2>4. None \notin Entry
    BY DispatchAssumption DEF Entry
  <2>5. \A q \in Providers : entry'[q] # None
    BY <2>3, <2>4 DEF TypeOK, SessionsOK
  <2>6. UNCHANGED sessions /\ \A q \in Providers : wpc'[q] \in InLoop
    <3>1. UNCHANGED wpc \/ \E place \in {"idle", "get"} : Go(p, place)
      BY <2>2 DEF VerifySession, ClosePage, BlockInGet, Unblock, workerVars
    <3>2. \A q \in Providers : wpc'[q] \in InLoop
      BY <3>1 DEF Go, TypeOK, WorkersOK, InLoop
    <3>3. QED
      BY <2>2, <3>2 DEF VerifySession, ClosePage, BlockInGet, Unblock, sessionVars
  <2>7. QED
    BY <2>5, <2>6
<1>4. ASSUME Restart PROVE FALSE
  BY <1>4, NothingSpent DEF Restart
<1>5. CASE UNCHANGED vars
  BY <1>5 DEF vars, sessionVars, workerVars
<1>6. QED
  BY <1>1, <1>2, <1>3, <1>4, <1>5 DEF Next

\* While every session is up, each row a request looks at adds an entry.
LEMMA FindsAllStep ==
    ASSUME TypeOK, Up, Calm, [Next]_vars, NEW u \in Tasks, FindsAll(u)
    PROVE  FindsAll(u)'
<1> USE DEF FindsAll
<1>1. ASSUME NEW t \in Tasks, HandleRequest(t), t # u PROVE FindsAll(u)'
  <2>1. /\ rpc'[u] = rpc[u] /\ listed'[u] = listed[u] /\ at'[u] = at[u]
        /\ ready'[u] = ready[u] /\ target'[u] = target[u]
    BY <1>1 DEF HandleRequest, ListSessions, ScanEntry, PickTarget, InsertTask,
       RejectTask, Advance, TypeOK, RequestsOK
  <2>2. QED
    BY <2>1
<1>2. CASE ListSessions(u)
  BY <1>2 DEF ListSessions, Advance, Up, TypeOK, RequestsOK
<1>3. CASE ScanEntry(u)
  <2> DEFINE p == Order[at[u]]
             s == [tid |-> entry[p].tid, prov |-> p]
  <2>1. p \in Providers /\ at[u] \in 1..Len(Order)
    BY <1>3, DispatchAssumption DEF ScanEntry, TypeOK, RequestsOK
  <2>2. p \in listed[u] /\ entry[p] # None
    BY <1>3, <2>1 DEF ScanEntry, Up
  <2>3. ready' = [ready EXCEPT ![u] = Append(@, s)]
    BY <1>3, <2>2 DEF ScanEntry
  <2>4. ready[u] \in Seq(Slot) /\ ready'[u] = Append(ready[u], s)
    BY <2>3 DEF TypeOK, RequestsOK
  <2>5. at'[u] = at[u] + 1 /\ UNCHANGED <<rpc, listed, target>>
    BY <1>3 DEF ScanEntry, TypeOK, RequestsOK
  <2>6. s.prov = p
    OBVIOUS
  <2> HIDE DEF s, p
  <2>7. Len(ready'[u]) = Len(ready[u]) + 1
    BY <2>4
  <2>8. \A k \in 1..Len(ready'[u]) : ready'[u][k].prov = Order[k]
    <3> SUFFICES ASSUME NEW k \in 1..Len(ready'[u]) PROVE ready'[u][k].prov = Order[k]
      OBVIOUS
    <3>1. CASE k = Len(ready[u]) + 1
      BY <3>1, <2>4, <2>6 DEF p
    <3>2. CASE k # Len(ready[u]) + 1
      <4>1. k \in 1..Len(ready[u])
        BY <3>2, <2>7, <2>4
      <4>2. QED
        BY <4>1, <2>4
    <3>3. QED
      BY <3>1, <3>2
  <2>9. Len(ready'[u]) <= Len(Order)
    BY <2>1, <2>4, <2>7
  <2>10. rpc[u] = "scan"
    BY <1>3 DEF ScanEntry
  <2>11. QED
    BY <2>4, <2>5, <2>7, <2>8, <2>9, <2>10
<1>4. CASE PickTarget(u) \/ InsertTask(u) \/ RejectTask(u)
  <2>1. /\ rpc'[u] \notin {"new", "scan"} /\ rpc[u] # "new"
        /\ UNCHANGED <<listed, at, ready>>
    BY <1>4 DEF PickTarget, InsertTask, RejectTask, Advance, TypeOK, RequestsOK
  <2>2. QED
    BY <2>1
<1>5. ASSUME NEW p \in Providers, WorkerStep(p) \/ Environment(p) PROVE FindsAll(u)'
  BY <1>5, WorkerFrame DEF requestVars
<1>6. ASSUME Restart PROVE FALSE
  BY <1>6, NothingSpent DEF Restart
<1>7. CASE UNCHANGED vars
  BY <1>7 DEF vars, requestVars
<1>8. QED
  BY <1>1, <1>2, <1>3, <1>4, <1>5, <1>6, <1>7 DEF Next, HandleRequest

\* The cursor moves to the next place, or back to the first.
LEMMA NextPlace ==
    ASSUME NEW a \in Nat, NEW n \in Nat, a < n
    PROVE  (a + 1) % n = IF a + 1 = n THEN 0 ELSE a + 1
OBVIOUS

\* One turn of the cursor: the place it comes to gets one task more.
LEMMA AheadStep ==
    ASSUME NEW n \in Nat, NEW a \in Nat, a < n, NEW b, b = (IF a + 1 = n THEN 0 ELSE a + 1),
           NEW j \in 1..n
    PROVE  (IF j \in 2..(a + 1) THEN 1 ELSE 0) + (IF j = b + 1 THEN 1 ELSE 0)
             = (IF a + 1 = n THEN 1 ELSE 0) + (IF j \in 2..(b + 1) THEN 1 ELSE 0)
OBVIOUS

\* list_all: one session of each provider.
EveryOnce == /\ \A p \in Providers : \E j \in 1..Len(Order) : Order[j] = p
             /\ \A j, k \in 1..Len(Order) : Order[j] = Order[k] => j = k

\* A request that takes its turn is assigned to the provider at the new cursor.
LEMMA TurnTaken ==
    ASSUME TypeOK, EveryOnce, Balanced, NEW t \in Tasks, FindsAll(t), PickTarget(t)
    PROVE  Balanced'
<1> DEFINE n == Len(Order)
<1>1. n \in Nat /\ Order \in Seq(Providers)
  BY DispatchAssumption
<1>2. Len(ready[t]) = n /\ target[t] = None /\ rr \in Nat /\ ready[t] \in Seq(Slot)
  BY <1>1 DEF PickTarget, FindsAll, TypeOK, RequestsOK
<1>3. CASE n = 0
  <2>1. Len(Order) = 0
    BY <1>3
  <2>2. (\A m \in Nat : Turns(m)')
    BY <2>1 DEF Turns
  <2>3. QED
    BY <2>1, <2>2 DEF Balanced
<1>4. CASE n > 0
  <2> DEFINE b == IF rr + 1 = n THEN 0 ELSE rr + 1
  <2>1. rr < n
    BY <1>4 DEF Balanced
  <2>2. rr' = b /\ b \in 0..(n - 1)
    <3>1. ready[t] # <<>>
      BY <1>2, <1>4
    <3>2. rr' = (rr + 1) % n
      BY <1>2, <3>1 DEF PickTarget
    <3>3. QED
      BY <1>1, <1>2, <2>1, <3>2, NextPlace
  <2>3. target' = [target EXCEPT ![t] = ready[t][b + 1]]
    <3>1. ready[t] # <<>>
      BY <1>2, <1>4
    <3>2. QED
      BY <2>2, <3>1 DEF PickTarget
  <2>4. /\ target'[t] = ready[t][b + 1]
        /\ target'[t] \in Slot /\ target'[t].prov = Order[b + 1]
    <3>1. b + 1 \in 1..Len(ready[t])
      BY <1>1, <1>2, <2>2
    <3>2. target'[t] = ready[t][b + 1]
      BY <2>3 DEF TypeOK, RequestsOK
    <3>3. ready[t][b + 1] \in Slot
      BY <1>2, <3>1
    <3>4. ready[t][b + 1].prov = Order[b + 1]
      BY <3>1 DEF FindsAll
    <3>5. QED
      BY <3>2, <3>3, <3>4
  <2>5. \A u \in Tasks \ {t} : target'[u] = target[u]
    BY <2>3 DEF TypeOK, RequestsOK
  <2>6. target'[t] # None
    BY <2>4, DispatchAssumption DEF Slot
  <2>7. PICK m \in Nat : Turns(m)
    BY DEF Balanced
  <2>8. PICK m2 \in Nat : m2 = IF rr + 1 = n THEN m + 1 ELSE m
    OBVIOUS
  <2>9. ASSUME NEW j \in 1..n
        PROVE  /\ IsFiniteSet(Assigned(Order[j])')
               /\ Cardinality(Assigned(Order[j])') = m2 + Ahead(j)'
    <3>1. /\ IsFiniteSet(Assigned(Order[j]))
          /\ Cardinality(Assigned(Order[j])) = m + Ahead(j)
      BY <2>7 DEF Turns
    <3>2. Ahead(j) + (IF j = b + 1 THEN 1 ELSE 0)
            = (IF rr + 1 = n THEN 1 ELSE 0) + Ahead(j)'
      <4>1. Ahead(j)' = IF j \in 2..(b + 1) THEN 1 ELSE 0
        BY <2>2 DEF Ahead
      <4>2. QED
        BY <1>1, <1>2, <2>1, <4>1, AheadStep DEF Ahead
    <3>3. Ahead(j) \in Nat /\ Ahead(j)' \in Nat
      BY DEF Ahead
    <3>4. t \notin Assigned(Order[j])
      BY <1>2 DEF Assigned
    <3>5. CASE j = b + 1
      <4>1. Assigned(Order[j])' = Assigned(Order[j]) \cup {t}
        BY <2>4, <2>5, <2>6, <3>5 DEF Assigned
      <4>2. /\ IsFiniteSet(Assigned(Order[j])')
            /\ Cardinality(Assigned(Order[j])') = Cardinality(Assigned(Order[j])) + 1
        BY <3>1, <3>4, <4>1, FS_AddElement
      <4>3. QED
        BY <2>8, <3>1, <3>2, <3>3, <3>5, <4>2
    <3>6. CASE j # b + 1
      <4>1. Order[j] # Order[b + 1]
        BY <2>2, <3>6 DEF EveryOnce
      <4>2. Assigned(Order[j])' = Assigned(Order[j])
        BY <1>2, <2>4, <2>5, <4>1 DEF Assigned
      <4>3. QED
        BY <2>8, <3>1, <3>2, <3>3, <3>6, <4>2
    <3>7. QED
      BY <3>5, <3>6
  <2>10. Turns(m2)'
    BY <2>9 DEF Turns
  <2>11. (rr < Len(Order))'
    BY <2>2, <1>1
  <2>12. QED
    BY <2>8, <2>10, <2>11 DEF Balanced
<1>5. QED
  BY <1>1, <1>3, <1>4

\* Nothing else moves the cursor or assigns a task.
LEMMA BalancedStep ==
    ASSUME TypeOK, EveryOnce, Up, \A t \in Tasks : FindsAll(t), Balanced, Calm, [Next]_vars
    PROVE  Balanced'
<1>1. ASSUME rr' = rr, target' = target PROVE Balanced'
  BY <1>1 DEF Balanced, Turns, Ahead, Assigned
<1>2. ASSUME NEW t \in Tasks, PickTarget(t) PROVE Balanced'
  BY <1>2, TurnTaken
<1>3. ASSUME NEW t \in Tasks, HandleRequest(t), ~PickTarget(t)
      PROVE  rr' = rr /\ target' = target
  BY <1>3 DEF HandleRequest, ListSessions, ScanEntry, InsertTask, RejectTask
<1>4. ASSUME NEW p \in Providers, WorkerStep(p) \/ Environment(p)
      PROVE  rr' = rr /\ target' = target
  BY <1>4, WorkerFrame DEF requestVars
<1>5. ASSUME Restart PROVE FALSE
  BY <1>5, NothingSpent DEF Restart
<1>6. CASE UNCHANGED vars
  BY <1>1, <1>6 DEF vars, requestVars
<1>7. QED
  BY <1>1, <1>2, <1>3, <1>4, <1>5, <1>6 DEF Next

LEMMA ReadyFits == InitReady => SpreadInv
<1> SUFFICES ASSUME InitReady PROVE SpreadInv
  OBVIOUS
<1> USE DispatchAssumption DEF InitReady
<1>1. TypeOK
  <2>1. TasksOK
    BY DEF TasksOK, Statuses
  <2>2. RequestsOK
    BY DEF RequestsOK, Stages
  <2>3. SessionsOK /\ WorkersOK
    BY DEF SessionsOK, WorkersOK, Places, Alive, Entry
  <2>4. BudgetsOK
    BY DEF BudgetsOK
  <2>5. QED
    BY <2>1, <2>2, <2>3, <2>4 DEF TypeOK
<1>2. Within
  BY DEF Within
<1>3. Up
  <2>1. \A p \in Providers : entry[p] \in [tid : Idents, open : BOOLEAN]
    OBVIOUS
  <2>2. QED
    BY <2>1 DEF Up, InLoop
<1>4. \A t \in Tasks : FindsAll(t)
  BY DEF FindsAll
<1>5. Balanced
  <2>1. \A p \in Providers : Assigned(p) = {}
    BY DEF Assigned
  <2>2. Turns(0)
    <3> SUFFICES ASSUME NEW j \in 1..Len(Order)
                 PROVE  /\ IsFiniteSet(Assigned(Order[j]))
                        /\ Cardinality(Assigned(Order[j])) = 0 + Ahead(j)
      BY DEF Turns
    <3>1. Assigned(Order[j]) = {}
      BY <2>1
    <3>2. Ahead(j) = 0
      BY DEF Ahead
    <3>3. QED
      BY <3>1, <3>2, FS_EmptySet
  <2>3. Len(Order) > 0 => rr < Len(Order)
    OBVIOUS
  <2>4. QED
    BY <2>2, <2>3 DEF Balanced
<1>6. QED
  BY <1>1, <1>2, <1>3, <1>4, <1>5 DEF SpreadInv, Spread

LEMMA SpreadStep ==
    ASSUME EveryOnce, SpreadInv, [Next]_vars
    PROVE  SpreadInv'
<1>1. TypeOK'
  BY RequestTyping, TaskTyping, SessionTyping, WorkerTyping, BudgetTyping
     DEF SpreadInv, TypeOK
<1>2. Within' /\ (Undisturbed' => Undisturbed /\ Calm)
  BY CalmBefore DEF SpreadInv
<1>3. ASSUME Spread, Calm PROVE Spread'
  BY <1>3, UpStep, FindsAllStep, BalancedStep DEF SpreadInv, Spread
<1>4. QED
  BY <1>1, <1>2, <1>3 DEF SpreadInv

\* Two providers differ by at most the one place that the cursor is ahead.
LEMMA TurnsAreEven ==
    ASSUME EveryOnce, Balanced
    PROVE  \A p, q \in Providers :
               Cardinality(Assigned(p)) <= Cardinality(Assigned(q)) + 1
<1>1. PICK m \in Nat : Turns(m)
  BY DEF Balanced
<1>2. SUFFICES ASSUME NEW p \in Providers, NEW q \in Providers
               PROVE  Cardinality(Assigned(p)) <= Cardinality(Assigned(q)) + 1
  OBVIOUS
<1>3. PICK j \in 1..Len(Order) : Order[j] = p
  BY DEF EveryOnce
<1>4. PICK k \in 1..Len(Order) : Order[k] = q
  BY DEF EveryOnce
<1>5. /\ Cardinality(Assigned(p)) = m + Ahead(j)
      /\ Cardinality(Assigned(q)) = m + Ahead(k)
  BY <1>1, <1>3, <1>4 DEF Turns
<1>6. Ahead(j) \in 0..1 /\ Ahead(k) \in 0..1
  BY DEF Ahead
<1>7. QED
  BY <1>5, <1>6

\* From a server that is up, and for as long as nothing is stopped, dropped,
\* broken or restarted, concurrent requests are spread evenly, however many
\* pages are closed: the cursor moves and is read under one lock.
THEOREM SpreadEvenly ==
    ASSUME EveryOnce
    PROVE  FairSpecReady => []EvenSpread
<1>1. SpreadInv => EvenSpread
  BY TurnsAreEven DEF SpreadInv, Spread, EvenSpread
<1>2. SpreadInv /\ [Next]_vars => SpreadInv'
  BY SpreadStep
<1>3. QED
  BY ReadyFits, <1>1, <1>2, PTL DEF FairSpecReady
=============================================================================
