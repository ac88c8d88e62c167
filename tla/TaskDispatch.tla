---------------------------- MODULE TaskDispatch ----------------------------
(***************************************************************************)
(* The dispatch of chat tasks: POST /api/tasks handlers (concurrent pool   *)
(* threads), one worker thread per provider, the in-memory session pool    *)
(* (one browser page per provider) and the tasks and sessions tables.      *)
(*                                                                         *)
(* One action is one database transaction, one access to the shared pool   *)
(* dictionary, or one wait on the browser; everything between two of those *)
(* is local to its thread.  A provider p has the single session row        *)
(* "s-p-1", so rows and entries are indexed by the provider.               *)
(***************************************************************************)
EXTENDS Naturals, Sequences

CONSTANTS Providers,   \* enabled rows of provider_configs
          Order,       \* the providers in the order of their session ids
          Idents,      \* threading.get_ident() values; the OS reuses them
          Tasks,       \* one per POST /api/tasks
          None,        \* Python's None / SQL NULL
          MaxRounds,   \* app_params.max_chat_rounds; 0 switches resets off
          MaxStops,    \* bound: stop_thread commands and dropped session rows
          MaxFaults,   \* bound: failed transactions and failed browser launches
          MaxCloses,   \* bound: pages closed by the user or by a browser crash
          MaxRestarts  \* bound: restarts of the server process

ASSUME DispatchAssumption ==
    /\ Order \in Seq(Providers)
    /\ None \notin Idents \cup [tid : Idents, open : BOOLEAN]
                          \cup [tid : Idents, prov : Providers]
    /\ {MaxRounds, MaxStops, MaxFaults, MaxCloses, MaxRestarts} \subseteq Nat

VARIABLES
    \* tables
    status, owner, prov,  \* tasks: status, owner, provider
    stamp,                \* tasks.created_at, as a rank
    replies,              \* number of raw_responses rows of the task
    sessions,             \* providers whose sessions row exists
    rounds,               \* sessions.chat_rounds
    cut,                  \* waiting tasks whose session_id became NULL
    \* memory of the server process
    entry,                \* ProviderSessionPool._entries
    rpc, listed, at,      \* create_task calls: where each is, the rows it listed,
    ready, target,        \* its place in them, ready_entries and target_entry
    rr,                   \* _rr_cursor
    wpc, wid, wtask,      \* worker thread: where it is, its ident, its task
    \* history and bounds
    clock,                \* tasks created so far
    sent,                 \* how often the prompt of a task was handed to the adapter
    left                  \* what is left of the bounds

tableVars   == <<status, owner, prov, stamp, replies, clock>>
sessionVars == <<sessions, rounds, cut>>
requestVars == <<rpc, listed, at, ready, target>>
workerVars  == <<wpc, wid, wtask>>
vars == <<tableVars, sessionVars, entry, requestVars, rr, workerVars, sent, left>>

Statuses == {"absent", "PENDING", "DISPATCHED", "COMPLETED", "FAILED",
             "CRITICAL", "purged"}
Slot     == [tid : Idents, prov : Providers]
Entry    == [tid : Idents, open : BOOLEAN]
Stages   == {"new", "scan", "insert", "reject", "done"}

\* Where a worker thread is.  "off": no thread.  start_worker_thread: "row",
\* "boot", "boot2".  run_once: "idle", "get", "page", "chat", "save", "done", "fail",
\* "count", "check", "renew".  The finally block: "close", "exit".
Places == {"off", "row", "boot", "boot2", "idle", "get", "page", "chat", "save", "done",
           "fail", "count", "check", "renew", "close", "exit"}
Alive(p)   == wpc[p] # "off"
Working(p) == wpc[p] \in {"page", "chat", "save", "done", "fail"}

Init == /\ status = [t \in Tasks |-> "absent"]
        /\ owner  = [t \in Tasks |-> None]
        /\ prov   = [t \in Tasks |-> None]
        /\ stamp  = [t \in Tasks |-> 0]
        /\ replies = [t \in Tasks |-> 0]
        /\ sent   = [t \in Tasks |-> 0]
        /\ sessions = {}
        /\ rounds = [p \in Providers |-> 0]
        /\ cut    = {}
        /\ entry  = [p \in Providers |-> None]
        /\ rpc    = [t \in Tasks |-> "new"]
        /\ listed = [t \in Tasks |-> {}]
        /\ at     = [t \in Tasks |-> 1]
        /\ ready  = [t \in Tasks |-> <<>>]
        /\ target = [t \in Tasks |-> None]
        /\ rr     = 0
        /\ wpc    = [p \in Providers |-> "off"]
        /\ wid    = [p \in Providers |-> None]
        /\ wtask  = [p \in Providers |-> None]
        /\ clock  = 0
        /\ left   = [stops |-> MaxStops, faults |-> MaxFaults,
                     closes |-> MaxCloses, restarts |-> MaxRestarts]

Spend(budget) == /\ left[budget] > 0
                 /\ left' = [left EXCEPT ![budget] = @ - 1]
-----------------------------------------------------------------------------
(* create_task: the handler runs in a pool thread, many at a time.         *)

Advance(t, stage) == rpc' = [rpc EXCEPT ![t] = stage]

ListSessions(t) ==
    /\ rpc[t] = "new"
    /\ Advance(t, "scan")
    /\ listed' = [listed EXCEPT ![t] = sessions]
    /\ UNCHANGED <<tableVars, sessionVars, entry, at, ready, target, rr, workerVars,
                   sent, left>>

\* The loop over the rows looks each provider up in the pool that workers are
\* changing meanwhile; any entry counts as ready, whatever its page is.
ScanEntry(t) ==
    /\ rpc[t] = "scan"
    /\ at[t] <= Len(Order)
    /\ at' = [at EXCEPT ![t] = @ + 1]
    /\ LET p == Order[at[t]] IN
       IF p \in listed[t] /\ entry[p] # None
       THEN ready' = [ready EXCEPT
                        ![t] = Append(@, [tid |-> entry[p].tid, prov |-> p])]
       ELSE UNCHANGED ready
    /\ UNCHANGED <<tableVars, sessionVars, entry, rpc, listed, target, rr, workerVars,
                   sent, left>>

\* Bug variant for the checks: the cursor is read but not stored.
PickTargetStuck(t) ==
    /\ rpc[t] = "scan"
    /\ at[t] > Len(Order)
    /\ Advance(t, "insert")
    /\ target' = IF ready[t] = <<>> THEN target
                 ELSE [target EXCEPT ![t] = ready[t][((rr + 1) % Len(ready[t])) + 1]]
    /\ UNCHANGED <<tableVars, sessionVars, entry, listed, at, ready, rr, workerVars, sent,
                   left>>

\* Under _rr_lock: advance the cursor shared by all requests, take that entry.
PickTarget(t) ==
    /\ rpc[t] = "scan"
    /\ at[t] > Len(Order)
    /\ Advance(t, "insert")
    /\ IF ready[t] = <<>>
       THEN UNCHANGED <<rr, target>>
       ELSE /\ rr' = (rr + 1) % Len(ready[t])
            /\ target' = [target EXCEPT ![t] = ready[t][rr' + 1]]
    /\ UNCHANGED <<tableVars, sessionVars, entry, listed, at, ready, workerVars, sent,
                   left>>

InsertTask(t) ==
    /\ rpc[t] = "insert"
    /\ status' = [status EXCEPT ![t] = "PENDING"]
    /\ clock' = clock + 1
    /\ stamp' = [stamp EXCEPT ![t] = clock + 1]
    /\ IF target[t] = None
       THEN /\ Advance(t, "reject")
            /\ UNCHANGED <<owner, prov>>
       ELSE /\ Advance(t, "done")
            /\ owner' = [owner EXCEPT ![t] = target[t].tid]
            /\ prov' = [prov EXCEPT ![t] = target[t].prov]
    /\ UNCHANGED <<replies, sessionVars, entry, listed, at, ready, target, rr,
                   workerVars, sent, left>>

\* The second transaction of a request that found no session.
RejectTask(t) ==
    /\ rpc[t] = "reject"
    /\ Advance(t, "done")
    /\ \/ /\ status' = [status EXCEPT ![t] = "CRITICAL"]
          /\ UNCHANGED left
       \/ /\ Spend("faults")
          /\ UNCHANGED status
    /\ UNCHANGED <<owner, prov, stamp, replies, clock, sessionVars, entry, listed, at,
                   ready, target, rr, workerVars, sent>>
-----------------------------------------------------------------------------
(* start_worker_thread.                                                    *)

Go(p, place) == wpc' = [wpc EXCEPT ![p] = place]

LiveIdents == {wid[p] : p \in {q \in Providers : Alive(q)}}

\* Every caller but the start-up loop looks for a live thread of that name
\* first, all on the event loop; a new thread may get the ident of a dead one.
StartWorker(p) ==
    /\ wpc[p] = "off"
    /\ \E i \in Idents \ LiveIdents : wid' = [wid EXCEPT ![p] = i]
    /\ Go(p, "row")
    /\ UNCHANGED <<tableVars, sessionVars, entry, requestVars, rr, wtask, sent, left>>

UpsertSession(p) ==
    /\ wpc[p] = "row"
    /\ Go(p, "boot")
    /\ sessions' = sessions \cup {p}
    /\ UNCHANGED <<tableVars, rounds, cut, entry, requestVars, rr, wid, wtask, sent, left>>

\* The three outcomes of get_or_create_provider_session(q), called by thread i:
\* the page of this thread, a RuntimeError (an open page of another thread),
\* or a new browser that overwrites whatever the key held.
PageOpen(q)       == entry[q] # None /\ entry[q].open
\* Bug variant for the checks: any open page will do.
AnyPage(q, i)     == PageOpen(q)
HasPage(q, i)     == PageOpen(q) /\ entry[q].tid = i
ForeignPage(q, i) == PageOpen(q) /\ entry[q].tid # i
OpenPage(p)       == entry' = [entry EXCEPT ![p] = [tid |-> wid[p], open |-> TRUE]]

\* Called twice: by SessionManager.get_or_create and by run() itself.
BootPage(p) ==
    /\ wpc[p] \in {"boot", "boot2"}
    /\ Go(p, IF wpc[p] = "boot" THEN "boot2" ELSE "idle")
    /\ \/ HasPage(p, wid[p]) /\ UNCHANGED entry
       \/ ~PageOpen(p) /\ OpenPage(p)
    /\ UNCHANGED <<tableVars, sessionVars, requestVars, rr, wid, wtask, sent, left>>

\* An exception before the try block: the thread ends and cleans nothing up.
BootFails(p) ==
    /\ wpc[p] \in {"row", "boot", "boot2"}
    /\ Go(p, "off")
    /\ wid' = [wid EXCEPT ![p] = None]
    /\ \/ /\ wpc[p] # "row" /\ ForeignPage(p, wid[p])
          /\ UNCHANGED left
       \/ /\ wpc[p] = "row" \/ ~PageOpen(p)
          /\ Spend("faults")
    /\ UNCHANGED <<tableVars, sessionVars, entry, requestVars, rr, wtask, sent>>
-----------------------------------------------------------------------------
(* PooledProviderTaskProcessor.run_once.                                   *)

\* Bug variant for the checks: the owner filter is missing.
ClaimableAny(t, i) == status[t] = "PENDING"
Claimable(t, i) == status[t] = "PENDING" /\ owner[t] = i

\* claim_next_pending: the oldest PENDING task whose owner is this thread.
ClaimTask(p) ==
    /\ wpc[p] = "idle"
    /\ \E t \in Tasks :
          /\ Claimable(t, wid[p])
          /\ \A u \in Tasks : Claimable(u, wid[p]) => stamp[t] <= stamp[u]
          /\ status' = [status EXCEPT ![t] = "DISPATCHED"]
          /\ wtask' = [wtask EXCEPT ![p] = t]
    /\ Go(p, "page")
    /\ UNCHANGED <<owner, prov, stamp, replies, clock, sessionVars, entry, requestVars, rr,
                   wid, sent, left>>

\* A verify_session command carries a url, so it can rebuild a closed page.  If
\* the launch fails the exception is logged and the worker goes on to claim.
VerifySession(p) ==
    /\ wpc[p] = "idle"
    /\ ~PageOpen(p)
    /\ OpenPage(p)
    /\ UNCHANGED <<tableVars, sessionVars, requestVars, rr, workerVars, sent, left>>

StopCommand(p) ==
    /\ wpc[p] = "idle"
    /\ Spend("stops")
    /\ Go(p, "close")
    /\ UNCHANGED <<tableVars, sessionVars, entry, requestVars, rr, wid, wtask, sent>>

\* get_command_for_thread, in which every run_once begins, takes the commands of all
\* workers out of one queue: the queue was not empty when p looked, another worker took
\* the last command, and p is left in a get() that has no timeout.
BlockInGet(p) ==
    /\ wpc[p] = "idle"
    /\ \E q \in Providers \ {p} : wpc[q] = "idle"
    /\ Go(p, "get")
    /\ UNCHANGED <<tableVars, sessionVars, entry, requestVars, rr, wid, wtask, sent, left>>

\* Somebody sends a command, to whichever worker.
Unblock(p) ==
    /\ wpc[p] = "get"
    /\ Go(p, "idle")
    /\ UNCHANGED <<tableVars, sessionVars, entry, requestVars, rr, wid, wtask, sent, left>>

\* process(): the page of the task's provider, which after a reuse of the ident
\* need not be this worker's.  The decision has no url, so a page that must be
\* rebuilt cannot be: goto(None) raises, as does a page of another thread.
FindPage(p) ==
    /\ wpc[p] = "page"
    /\ Go(p, IF HasPage(prov[wtask[p]], wid[p]) THEN "chat" ELSE "fail")
    /\ UNCHANGED <<tableVars, sessionVars, entry, requestVars, rr, wid, wtask, sent, left>>

\* adapter.run types the prompt, waits at most a minute for a reply and turns
\* every exception and an empty reply into a failed result.
Chat(p) ==
    /\ wpc[p] = "chat"
    /\ sent' = [sent EXCEPT ![wtask[p]] = @ + 1]
    /\ \/ Go(p, "fail")
       \/ PageOpen(prov[wtask[p]]) /\ Go(p, "save")
    /\ UNCHANGED <<tableVars, sessionVars, entry, requestVars, rr, wid, wtask, left>>

\* Bug variant for the checks: the reply is not stored.
SaveReplyLost(p) ==
    /\ wpc[p] = "save"
    /\ Go(p, "done")
    /\ UNCHANGED <<tableVars, sessionVars, entry, requestVars, rr, wid, wtask, sent, left>>

SaveReply(p) ==
    /\ wpc[p] = "save"
    /\ replies' = [replies EXCEPT ![wtask[p]] = @ + 1]
    /\ Go(p, "done")
    /\ UNCHANGED <<status, owner, prov, stamp, clock, sessionVars, entry, requestVars, rr,
                   wid, wtask, sent, left>>

MarkCompleted(p) ==
    /\ wpc[p] = "done"
    /\ status' = [status EXCEPT ![wtask[p]] = "COMPLETED"]
    /\ Go(p, "count")
    /\ UNCHANGED <<owner, prov, stamp, replies, clock, sessionVars, entry, requestVars, rr,
                   wid, wtask, sent, left>>

\* Bug variants for the checks: a failed task is put back for another attempt;
\* its status is not written.
MarkFailedRetries(p) ==
    /\ wpc[p] = "fail"
    /\ status' = [status EXCEPT ![wtask[p]] = "PENDING"]
    /\ wtask' = [wtask EXCEPT ![p] = None]
    /\ Go(p, "idle")
    /\ UNCHANGED <<owner, prov, stamp, replies, clock, sessionVars, entry, requestVars, rr,
                   wid, sent, left>>
MarkFailedForgets(p) ==
    /\ wpc[p] = "fail"
    /\ wtask' = [wtask EXCEPT ![p] = None]
    /\ Go(p, "idle")
    /\ UNCHANGED <<tableVars, sessionVars, entry, requestVars, rr, wid, sent, left>>

MarkFailed(p) ==
    /\ wpc[p] = "fail"
    /\ status' = [status EXCEPT ![wtask[p]] = "FAILED"]
    /\ wtask' = [wtask EXCEPT ![p] = None]
    /\ Go(p, "idle")
    /\ UNCHANGED <<owner, prov, stamp, replies, clock, sessionVars, entry, requestVars, rr,
                   wid, sent, left>>

\* The session row that a claimed task names: None in the claimed copy finds none.
SessionFound(t) == prov[t] \in sessions /\ t \notin cut

\* increment_chat_rounds on the row of the task's session, if it is still there.
CountRound(p) ==
    /\ wpc[p] = "count"
    /\ rounds' = IF SessionFound(wtask[p])
                 THEN [rounds EXCEPT ![prov[wtask[p]]] = @ + 1] ELSE rounds
    /\ Go(p, "check")
    /\ UNCHANGED <<tableVars, sessions, cut, entry, requestVars, rr, wid, wtask, sent, left>>

LimitReached(t) == MaxRounds > 0 /\ SessionFound(t) /\ rounds[prov[t]] >= MaxRounds

CheckRounds(p) ==
    /\ wpc[p] = "check"
    /\ IF LimitReached(wtask[p])
       THEN Go(p, "renew") /\ UNCHANGED wtask
       ELSE Go(p, "idle") /\ wtask' = [wtask EXCEPT ![p] = None]
    /\ UNCHANGED <<tableVars, sessionVars, entry, requestVars, rr, wid, sent, left>>

\* Whatever the new-chat button or the navigation did, the finally block zeroes
\* the counter.
ResetRounds(p) ==
    /\ wpc[p] = "renew"
    /\ rounds' = IF SessionFound(wtask[p])
                 THEN [rounds EXCEPT ![prov[wtask[p]]] = 0] ELSE rounds
    /\ wtask' = [wtask EXCEPT ![p] = None]
    /\ Go(p, "idle")
    /\ UNCHANGED <<tableVars, sessions, cut, entry, requestVars, rr, wid, sent, left>>

\* Bug variant for the checks: the exception bypasses the finally block.
WorkerFaultSkipsCleanup(p) ==
    /\ wpc[p] \in {"idle", "save", "done", "fail", "count", "check", "renew"}
    /\ Spend("faults")
    /\ Go(p, "off")
    /\ wtask' = [wtask EXCEPT ![p] = None]
    /\ UNCHANGED <<tableVars, sessionVars, entry, requestVars, rr, wid, sent>>

\* A transaction fails: the exception leaves run_once and ends the loop.
WorkerFault(p) ==
    /\ wpc[p] \in {"idle", "save", "done", "fail", "count", "check", "renew"}
    /\ Spend("faults")
    /\ Go(p, "close")
    /\ wtask' = [wtask EXCEPT ![p] = None]
    /\ UNCHANGED <<tableVars, sessionVars, entry, requestVars, rr, wid, sent>>

\* Bug variant for the checks: the browser is closed, the entry stays.
PopEntryForgets(p) ==
    /\ wpc[p] = "close"
    /\ Go(p, "exit")
    /\ UNCHANGED <<tableVars, sessionVars, entry, requestVars, rr, wid, wtask, sent, left>>

\* The finally block: the entry leaves the pool, then the browser is closed.
PopEntry(p) ==
    /\ wpc[p] = "close"
    /\ entry' = [entry EXCEPT ![p] = None]
    /\ Go(p, "exit")
    /\ UNCHANGED <<tableVars, sessionVars, requestVars, rr, wid, wtask, sent, left>>

ThreadExit(p) ==
    /\ wpc[p] = "exit"
    /\ Go(p, "off")
    /\ wid' = [wid EXCEPT ![p] = None]
    /\ UNCHANGED <<tableVars, sessionVars, entry, requestVars, rr, wtask, sent, left>>
-----------------------------------------------------------------------------
(* The rest of the server, and the world.                                  *)

\* delete_by_provider and the clean-up inside GET /api/sessions.  The tasks
\* relationship has no cascade, so the ORM sets session_id to NULL in the tasks of
\* the row it deletes; a worker keeps the copy it has claimed.
DropSession(p) ==
    /\ p \in sessions
    /\ Spend("stops")
    /\ sessions' = sessions \ {p}
    /\ rounds' = [rounds EXCEPT ![p] = 0]
    /\ cut' = cut \cup {t \in Tasks : status[t] = "PENDING" /\ prov[t] = p}
    /\ UNCHANGED <<tableVars, entry, requestVars, rr, workerVars, sent>>

\* The first loop of discover_sessions.
DiscoverSession(p) ==
    /\ p \notin sessions
    /\ sessions' = sessions \cup {p}
    /\ UNCHANGED <<tableVars, rounds, cut, entry, requestVars, rr, workerVars, sent, left>>

ClosePage(p) ==
    /\ PageOpen(p)
    /\ Spend("closes")
    /\ entry' = [entry EXCEPT ![p] = [tid |-> entry[p].tid, open |-> FALSE]]
    /\ UNCHANGED <<tableVars, sessionVars, requestVars, rr, workerVars, sent>>

\* A new process: threads, pool and requests are gone, _purge_all_tasks empties
\* the tasks table, the sessions table survives with its counters.
Restart ==
    /\ Spend("restarts")
    /\ status' = [t \in Tasks |-> IF status[t] = "absent" THEN "absent" ELSE "purged"]
    /\ rpc' = [t \in Tasks |-> IF rpc[t] = "new" THEN "new" ELSE "done"]
    /\ listed' = [t \in Tasks |-> {}]
    /\ at'     = [t \in Tasks |-> 1]
    /\ ready'  = [t \in Tasks |-> <<>>]
    /\ target' = [t \in Tasks |-> None]
    /\ rr' = 0
    /\ entry' = [p \in Providers |-> None]
    /\ wpc'   = [p \in Providers |-> "off"]
    /\ wid'   = [p \in Providers |-> None]
    /\ wtask' = [p \in Providers |-> None]
    /\ UNCHANGED <<owner, prov, stamp, replies, clock, sessionVars, sent>>
-----------------------------------------------------------------------------
HandleRequest(t) == \/ ListSessions(t) \/ ScanEntry(t) \/ PickTarget(t)
                    \/ InsertTask(t) \/ RejectTask(t)

WorkerStep(p) == \/ UpsertSession(p) \/ BootPage(p) \/ ClaimTask(p) \/ FindPage(p)
                 \/ Chat(p) \/ SaveReply(p) \/ MarkCompleted(p) \/ MarkFailed(p)
                 \/ CountRound(p) \/ CheckRounds(p) \/ ResetRounds(p)
                 \/ PopEntry(p) \/ ThreadExit(p)

Environment(p) == \/ StartWorker(p) \/ BootFails(p) \/ VerifySession(p)
                  \/ StopCommand(p) \/ WorkerFault(p) \/ DropSession(p)
                  \/ DiscoverSession(p) \/ ClosePage(p)
                  \/ BlockInGet(p) \/ Unblock(p)

Next == \/ \E t \in Tasks : HandleRequest(t)
        \/ \E p \in Providers : WorkerStep(p) \/ Environment(p)
        \/ Restart

Spec == Init /\ [][Next]_vars

\* The server's threads keep running: a request goes on to its response and a
\* worker, which polls every half second and whose waits on the browser all
\* time out, to its next step.  The one wait that may last for ever is the get() on
\* the command queue; a worker in it has no step of its own.  Nothing is assumed of
\* commands, faults, the user or restarts.
Fairness == /\ \A t \in Tasks : WF_vars(HandleRequest(t))
            /\ \A p \in Providers : WF_vars(WorkerStep(p))

FairSpec == Spec /\ Fairness
-----------------------------------------------------------------------------
\* The type invariant: the tasks table, the locals of the requests, sessions and
\* pool, the workers, and the bounds.
TasksOK ==
    /\ status \in [Tasks -> Statuses]
    /\ owner  \in [Tasks -> Idents \cup {None}]
    /\ prov   \in [Tasks -> Providers \cup {None}]
    /\ stamp  \in [Tasks -> Nat]
    /\ replies \in [Tasks -> Nat]
    /\ sent   \in [Tasks -> Nat]
    /\ clock  \in Nat

RequestsOK ==
    /\ rpc    \in [Tasks -> Stages]
    /\ listed \in [Tasks -> SUBSET Providers]
    /\ at     \in [Tasks -> Nat \ {0}]
    /\ ready  \in [Tasks -> Seq(Slot)]
    /\ target \in [Tasks -> Slot \cup {None}]
    /\ rr     \in Nat

SessionsOK ==
    /\ sessions \subseteq Providers
    /\ rounds \in [Providers -> Nat]
    /\ cut \subseteq Tasks
    /\ entry  \in [Providers -> Entry \cup {None}]

WorkersOK ==
    /\ wpc    \in [Providers -> Places]
    /\ wid    \in [Providers -> Idents \cup {None}]
    /\ wtask  \in [Providers -> Tasks \cup {None}]
    /\ \A p \in Providers : Alive(p) => wid[p] \in Idents

BudgetsOK == left \in [{"stops", "faults", "closes", "restarts"} -> Nat]

\* Every variable keeps its type; a live thread has an ident.
TypeOK == TasksOK /\ RequestsOK /\ SessionsOK /\ WorkersOK /\ BudgetsOK
-----------------------------------------------------------------------------
\* While a worker holds a task the row says DISPATCHED with this thread as its
\* owner, and no other worker holds it: the owner filter of claim_next_pending
\* and the uniqueness of live idents are all that keeps two workers apart.
WorkerOwnsTask ==
    \A p \in Providers : Working(p) =>
        /\ wtask[p] \in Tasks
        /\ status[wtask[p]] = "DISPATCHED"
        /\ owner[wtask[p]] = wid[p]
        /\ \A q \in Providers \ {p} : Working(q) => wtask[q] # wtask[p]

\* A task is handed to the adapter at most once, across failures, stops, new
\* workers and restarts, and never while it is waiting or after it was refused.
PromptAtMostOnce ==
    \A t \in Tasks : /\ sent[t] <= 1
                     /\ status[t] \in {"absent", "PENDING", "CRITICAL"} => sent[t] = 0

\* A COMPLETED task has exactly one stored reply to a prompt that was sent, a
\* FAILED one has none, however the worker was interrupted on the way.
ReplyMatchesStatus ==
    \A t \in Tasks : /\ replies[t] <= sent[t]
                     /\ status[t] = "COMPLETED" => replies[t] = 1
                     /\ status[t] = "FAILED" => replies[t] = 0

\* An open page in the pool belongs to the worker that is alive for its
\* provider: no exit path of the thread leaves a usable entry behind, so the
\* cross-thread RuntimeError can never lock a restarted worker out of its page.
OpenPageHasLiveOwner ==
    \A p \in Providers : PageOpen(p) => Alive(p) /\ wid[p] = entry[p].tid

\* A worker types only into its own provider's page and only a task of that
\* provider, although a reused thread ident makes it claim tasks of another.
ChatOnOwnPage ==
    \A p \in Providers : wpc[p] = "chat" =>
        /\ prov[wtask[p]] = p
        /\ entry[p] # None /\ entry[p].tid = wid[p]

\* A crash between counting a round and resetting the counter leaves it at the
\* limit; each such loss costs one extra round and the next task still resets.
Lost == (MaxFaults - left.faults) + (MaxRestarts - left.restarts)
Counting(p) == wpc[p] \in {"check", "renew"} /\ wtask[p] \notin cut
RoundsBounded ==
    MaxRounds > 0 =>
        \A p \in Providers :
            rounds[p] <= MaxRounds + Lost - (IF Counting(p) THEN 0 ELSE 1)

\* The requests assigned to p so far.
Assigned(p) == {t \in Tasks : target[t] # None /\ target[t].prov = p}

\* The strengthening that makes the invariants above inductive.
\* Live threads have idents of their own.
UniqueIdents ==
    \A p \in Providers : Alive(p) =>
        \A q \in Providers \ {p} : Alive(q) => wid[q] # wid[p]

\* What a request has written so far, and what an assigned row names.
RequestStage ==
    \A t \in Tasks :
        /\ rpc[t] \in {"new", "scan", "insert"} => status[t] = "absent" /\ owner[t] = None
        /\ rpc[t] = "reject" => status[t] = "PENDING" /\ owner[t] = None
        /\ owner[t] # None => prov[t] \in Providers

\* How far the task of each worker has come.
TaskStageOf(p) == LET t == wtask[p] IN
    /\ Working(p) =>
          /\ t \in Tasks
          /\ status[t] = "DISPATCHED"
          /\ owner[t] = wid[p]
          /\ sent[t] = 0 \/ wpc[p] \in {"save", "done", "fail"}
          /\ replies[t] = IF wpc[p] = "done" THEN 1 ELSE 0
    /\ wpc[p] \in {"save", "done"} => sent[t] = 1
    /\ wpc[p] \in {"chat", "save", "done", "count", "check", "renew"} =>
          t \in Tasks /\ prov[t] = p /\ status[t] # "absent"
TaskStage == \A p \in Providers : TaskStageOf(p)

\* A page is open only between the worker's boot and its finally block.
PageStageOf(p) ==
    /\ PageOpen(p) => Alive(p) /\ wid[p] = entry[p].tid
    /\ wpc[p] \in {"row", "exit"} => ~PageOpen(p)
    /\ wpc[p] = "chat" => entry[p] # None /\ entry[p].tid = wid[p]
PageStage == \A p \in Providers : PageStageOf(p)

\* Budgets are only spent, and a session that has no row has counted nothing.
BudgetsKept ==
    /\ left.faults <= MaxFaults /\ left.restarts <= MaxRestarts
    /\ \A p \in Providers \ sessions : rounds[p] = 0

\* The inductive invariant: the facts above together survive every step.
IInv == /\ TypeOK /\ UniqueIdents /\ RequestStage /\ TaskStage /\ PageStage
        /\ PromptAtMostOnce /\ ReplyMatchesStatus /\ BudgetsKept /\ RoundsBounded

\* What the endpoints of the client see: the tables, and the keys of the pool.
Entered == {p \in Providers : entry[p] # None}

Pool == INSTANCE TaskPool WITH sess <- sessions, entries <- Entered

\* Seen through the endpoints that clients poll, the dispatch is a behaviour of
\* TaskPool, the environment of ClientPoll.
ImplementsTaskPool == Pool!Spec

Settled(t) == status[t] \in {"COMPLETED", "FAILED", "CRITICAL", "purged"}

\* The row names a thread that no worker has any more, or one that blocks in get().
Abandoned(t) == /\ owner[t] # None
                /\ \A p \in Providers : wid[p] = owner[t] => wpc[p] = "get"

\* A task that waits reaches a final status or is found abandoned: a page that was closed,
\* a task ahead of it, a new thread with the old ident or a worker that was blocked for a
\* while do not keep it waiting for ever; only the end of its thread and a get() that
\* nobody ends do.
EveryTaskSettles == \A t \in Tasks : status[t] = "PENDING" ~> Settled(t) \/ Abandoned(t)
=============================================================================
