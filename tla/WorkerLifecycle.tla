--------------------------- MODULE WorkerLifecycle ---------------------------
(***************************************************************************)
(* The administration of providers against the worker threads: creating,   *)
(* updating, deleting and verifying a provider starts its thread, sends it *)
(* a stop command, or changes the rows under it.                           *)
(*                                                                         *)
(* The create, update, discover and verify handlers are coroutines: one    *)
(* runs at a time and the others only between its awaits.  Delete, clear   *)
(* and the listing of sessions run in pool threads, the workers in threads *)
(* of their own.                                                           *)
(***************************************************************************)
EXTENDS Naturals, FiniteSets

CONSTANTS Providers,
          Builtin,    \* in ProviderConfigRepository.DEFAULTS, or locked
          Idents,     \* threading.get_ident() values; the OS reuses them
          Calls,      \* bound: requests to the administration
          None,
          MaxFaults,  \* bound: failed launches and failed transactions of workers
          MaxLate     \* bound: stop commands that outlive their 30 seconds

\* The places of worker_thread(); "get": blocked while it looks for a command.
Places  == {"boot", "page", "idle", "get", "chat", "closing"}
Threads == [prov : Providers, at : Places]

ASSUME LifecycleAssumption ==
    /\ Builtin \subseteq Providers
    /\ None \notin Calls \cup Threads
    /\ MaxFaults \in Nat /\ MaxLate \in Nat

VARIABLES
    row,       \* provider_configs: "none", or enable as "on" and "off"
    sessions,  \* providers whose sessions row exists
    thread,    \* live worker threads: ident -> provider and place
    stops,     \* stop_thread commands in COMMAND_QUEUE
    loop,      \* the coroutine that holds the event loop
    step, op, prov,  \* the calls: where each is, what it is, its provider
    want, was, todo, \* locals: payload.enable, row.enable as read, providers to verify
    left       \* what is left of the bounds

callVars == <<step, op, prov, want, was, todo>>
vars == <<row, sessions, thread, stops, loop, callVars, left>>

Ops == {"create", "update", "discover", "check", "delete", "clear", "list"}
Live(i)     == thread[i] # None
Workers(p)  == {i \in Idents : Live(i) /\ thread[i].prov = p}
Enabled     == {p \in Providers : row[p] = "on"}

OneEach == \A i, j \in Idents :
    Live(i) /\ Live(j) /\ thread[i].prov = thread[j].prov => i = j

Boot(p) == [prov |-> p, at |-> "boot"]

\* After lifespan(): one thread for each enabled provider; the rows are as the last
\* run of the server left them.
Init == /\ row \in [Providers -> {"none", "on", "off"}]
        /\ \A p \in Builtin : row[p] # "none"
        /\ sessions \in SUBSET {p \in Providers : row[p] # "none"}
        /\ thread \in [Idents -> {Boot(p) : p \in Providers} \cup {None}]
        /\ \A p \in Providers : (Workers(p) # {}) = (row[p] = "on")
        /\ OneEach
        /\ stops = {}
        /\ loop = None
        /\ step = [c \in Calls |-> "new"]
        /\ op   = [c \in Calls |-> "list"]
        /\ prov \in [Calls -> Providers]
        /\ want = [c \in Calls |-> FALSE]
        /\ was  = [c \in Calls |-> "none"]
        /\ todo = [c \in Calls |-> {}]
        /\ left = [faults |-> MaxFaults, late |-> MaxLate]

Spend(budget) == /\ left[budget] > 0
                 /\ left' = [left EXCEPT ![budget] = @ - 1]
-----------------------------------------------------------------------------
(* Threads.                                                                *)

StartThread(p) ==
    \E i \in Idents : ~Live(i) /\ thread' = [thread EXCEPT ![i] = Boot(p)]

\* threading.enumerate() finds no thread of that name: start one.
StartIfMissing(p) ==
    IF Workers(p) = {} THEN StartThread(p) ELSE UNCHANGED thread

Move(i, place) ==
    thread' = [thread EXCEPT ![i] = [prov |-> thread[i].prov, at |-> place]]

\* The new thread upserts its session row, whatever became of the provider.
BootRow(i) == /\ Live(i) /\ thread[i].at = "boot"
              /\ sessions' = sessions \cup {thread[i].prov}
              /\ Move(i, "page")
              /\ UNCHANGED <<row, stops, loop, callVars, left>>

BootPage(i) == /\ Live(i) /\ thread[i].at = "page"
               /\ Move(i, "idle")
               /\ UNCHANGED <<row, sessions, stops, loop, callVars, left>>

\* get_command_for_thread takes the commands of all workers out of one queue: another
\* worker took the last of them after i saw that there was one, and the get() of i has no
\* timeout.  By then i may have its own stop in its hands, and those of others too.
BlockInGet(i) == /\ Live(i) /\ thread[i].at = "idle"
                 /\ \E j \in Idents \ {i} : Live(j) /\ thread[j].at = "idle"
                 /\ Move(i, "get")
                 /\ UNCHANGED <<row, sessions, stops, loop, callVars, left>>

\* Somebody puts a command into the queue, whomever it is for.
Unblock(i) == /\ Live(i) /\ thread[i].at = "get"
              /\ Move(i, "idle")
              /\ UNCHANGED <<row, sessions, stops, loop, callVars, left>>

SomeBlocked == \E i \in Idents : Live(i) /\ thread[i].at = "get"

\* run_once looks for a command first, then claims a task.  It finds a command of its own
\* that waits, unless another worker that drains the queue has it in its hands.
BeginChat(i) == /\ Live(i) /\ thread[i].at = "idle"
                /\ \/ \A s \in stops : s.target # i
                   \/ \E j \in Idents \ {i} : Live(j) /\ thread[j].at \in {"idle", "get"}
                /\ Move(i, "chat")
                /\ UNCHANGED <<row, sessions, stops, loop, callVars, left>>

EndChat(i) == /\ Live(i) /\ thread[i].at = "chat"
              /\ Move(i, "idle")
              /\ UNCHANGED <<row, sessions, stops, loop, callVars, left>>

\* Bug variant for the checks: StopWorkerException is caught with the others.
ObeyStopCaught(i) == /\ Live(i) /\ thread[i].at = "idle"
                     /\ \E s \in stops : s.target = i /\ stops' = stops \ {s}
                     /\ UNCHANGED <<row, sessions, thread, loop, callVars, left>>

\* run_once takes one command addressed to this ident; stop_thread raises.
ObeyStop(i) == /\ Live(i) /\ thread[i].at = "idle"
               /\ \E s \in stops : s.target = i /\ stops' = stops \ {s}
               /\ Move(i, "closing")
               /\ UNCHANGED <<row, sessions, loop, callVars, left>>

\* The launch fails while booting, or a transaction in the loop.
WorkerFault(i) ==
    /\ Live(i) /\ thread[i].at \in {"boot", "page", "idle", "chat"}
    /\ Spend("faults")
    /\ IF thread[i].at \in {"boot", "page"}
       THEN thread' = [thread EXCEPT ![i] = None]
       ELSE Move(i, "closing")
    /\ UNCHANGED <<row, sessions, stops, loop, callVars>>

\* The page is closed and the thread ends.
Exit(i) == /\ Live(i) /\ thread[i].at = "closing"
           /\ thread' = [thread EXCEPT ![i] = None]
           /\ UNCHANGED <<row, sessions, stops, loop, callVars, left>>

\* Nobody takes a command in time: its worker is starting, chatting, closing, blocked or
\* gone for 30 seconds, or a blocked one keeps it so long, and whoever drains the queue
\* next throws it away.
StopExpires == /\ \E s \in stops :
                     /\ Live(s.target) => thread[s.target].at # "idle" \/ SomeBlocked
                     /\ stops' = stops \ {s}
               /\ Spend("late")
               /\ UNCHANGED <<row, sessions, thread, loop, callVars>>
-----------------------------------------------------------------------------
(* create_provider and update_provider.                                    *)

Go(c, place) == step' = [step EXCEPT ![c] = place]

\* Where a new request may begin; restricted in CalmNext.
Receive(c, kind) ==
    /\ step[c] = "new"
    /\ op' = [op EXCEPT ![c] = kind]

\* provider_repo.get: 409 for a create, 404 for an update.
ReadRow(c) ==
    /\ loop = None
    /\ \E kind \in {"create", "update"}, on \in BOOLEAN :
          /\ Receive(c, kind)
          /\ want' = [want EXCEPT ![c] = on]
          /\ was' = [was EXCEPT ![c] = row[prov[c]]]
          /\ IF (kind = "create") = (row[prov[c]] = "none")
             THEN Go(c, "write") /\ loop' = c
             ELSE Go(c, "done") /\ UNCHANGED loop
    /\ UNCHANGED <<row, sessions, thread, stops, prov, todo, left>>

\* upsert, then the provider list that discover_sessions works from.
WriteRow(c) ==
    /\ step[c] = "write"
    /\ row' = [row EXCEPT ![prov[c]] = IF want[c] THEN "on" ELSE "off"]
    /\ todo' = [todo EXCEPT ![c] = {p \in Providers : row'[p] = "on"}]
    /\ Go(c, "discover")
    /\ UNCHANGED <<sessions, thread, stops, loop, op, prov, want, was, left>>

\* POST /api/sessions/discover: the same from there on, and nothing after it.
DiscoverRequest(c) ==
    /\ loop = None
    /\ Receive(c, "discover")
    /\ todo' = [todo EXCEPT ![c] = Enabled]
    /\ Go(c, "discover")
    /\ loop' = c
    /\ UNCHANGED <<row, sessions, thread, stops, prov, want, was, left>>

\* The first loop of discover_sessions; the first await of the second.
DiscoverRows(c) ==
    /\ step[c] = "discover"
    /\ sessions' = sessions \cup todo[c]
    /\ loop' = None
    /\ Go(c, "verify")
    /\ UNCHANGED <<row, thread, stops, op, prov, want, was, todo, left>>

\* verify_session, the handler of /api/worker/verify-session: an enabled provider
\* without a thread gets one.  Then it waits for the page, ten seconds at most.
EnsureWorker(p) ==
    IF row[p] = "on" THEN StartIfMissing(p) ELSE UNCHANGED thread

\* One POST of the second loop, answered or given up after 15 seconds because the
\* event loop was busy.
VerifyNext(c) ==
    /\ step[c] = "verify"
    /\ loop = None
    /\ \E p \in todo[c] :
          /\ todo' = [todo EXCEPT ![c] = @ \ {p}]
          /\ EnsureWorker(p) \/ UNCHANGED thread
    /\ UNCHANGED <<row, sessions, stops, loop, step, op, prov, want, was, left>>

Resumed(c) == step[c] = "verify" /\ todo[c] = {} /\ loop = None

\* Bug variant for the checks: the worker is not told.
StopWorkerForgets(c) == UNCHANGED stops

\* Bug variant for the checks: the threads' names are not compared.
StopWorkerAny(c) ==
    stops' = stops \cup {[call |-> c, target |-> i] : i \in {j \in Idents : Live(j)}}

\* put_command(stop_thread) if a thread of that name is alive.
StopWorker(c) ==
    stops' = stops \cup {[call |-> c, target |-> i] : i \in Workers(prov[c])}

\* The last part of update_provider decides on the row as it was before the await.
Disable(c) == /\ op[c] = "update" /\ ~want[c] /\ was[c] = "on"
              /\ StopWorker(c)
              /\ sessions' = sessions \ {prov[c]}
              /\ UNCHANGED thread

\* The same decision of create_provider looks at the payload only.
Enable(c) == /\ want[c]
             /\ op[c] = "create" \/ was[c] = "off"
             /\ StartIfMissing(prov[c])
             /\ UNCHANGED <<sessions, stops>>

Keep(c) == /\ \/ ~want[c] /\ (op[c] # "update" \/ was[c] = "off")
              \/ want[c] /\ op[c] = "update" /\ was[c] = "on"
           /\ UNCHANGED <<sessions, stops, thread>>

Finish(c) == /\ Resumed(c)
             /\ Disable(c) \/ Enable(c) \/ Keep(c)
             /\ Go(c, "done")
             /\ UNCHANGED <<row, loop, op, prov, want, was, todo, left>>
-----------------------------------------------------------------------------
(* The other handlers.                                                     *)

\* open_provider, called from a page of the UI.
VerifyRequest(p) == /\ loop = None
                    /\ row[p] = "on"
                    /\ Workers(p) = {}
                    /\ StartThread(p)
                    /\ UNCHANGED <<row, sessions, stops, loop, callVars, left>>

\* The POST of open_session, and of the two below, to the server itself.
PostVerify(c) == /\ todo' = [todo EXCEPT ![c] = {prov[c]}]
                 /\ Go(c, "verify")
                 /\ UNCHANGED loop

\* open_session and verify_session: without an enabled provider the session is cleaned.
CheckSession(c) == /\ loop = None
                   /\ Receive(c, "check")
                   /\ prov[c] \in sessions
                   /\ IF row[prov[c]] = "on" THEN PostVerify(c)
                      ELSE Go(c, "clean") /\ loop' = c /\ UNCHANGED todo
                   /\ UNCHANGED <<row, sessions, thread, stops, prov, want, was, left>>

\* notify_ready does not look at the provider.
NotifyReady(c) == /\ loop = None
                  /\ Receive(c, "check")
                  /\ prov[c] \in sessions
                  /\ PostVerify(c)
                  /\ UNCHANGED <<row, sessions, thread, stops, prov, want, was, left>>

\* delete_provider refuses builtin and locked providers.
Delete(c) == /\ Receive(c, "delete")
             /\ prov[c] \notin Builtin
             /\ Go(c, "unlink")
             /\ UNCHANGED <<row, sessions, thread, stops, loop, prov, want, was, todo, left>>

DeleteSessions(c) == /\ step[c] = "unlink"
                     /\ sessions' = sessions \ {prov[c]}
                     /\ Go(c, "remove")
                     /\ UNCHANGED <<row, thread, stops, loop, op, prov, want, was, todo, left>>

\* A session row that has come back makes the ORM null its provider column, which
\* is NOT NULL: the delete fails and the row stays.
DeleteRow(c) == /\ step[c] = "remove"
                /\ row' = IF prov[c] \in sessions THEN row
                          ELSE [row EXCEPT ![prov[c]] = "none"]
                /\ Go(c, "done")
                /\ UNCHANGED <<sessions, thread, stops, loop, op, prov, want, was, todo, left>>

\* clear_provider_sessions deletes, then fails on `mapped.value`.
ClearSessions(c) == /\ Receive(c, "clear")
                    /\ row[prov[c]] # "none"
                    /\ sessions' = sessions \ {prov[c]}
                    /\ Go(c, "done")
                    /\ UNCHANGED <<row, thread, stops, loop, prov, want, was, todo, left>>

\* GET /api/sessions: a session of no enabled provider is found, then deleted.
ListSessions(c) == /\ Receive(c, "list")
                   /\ prov[c] \in sessions \ Enabled
                   /\ Go(c, "clean")
                   /\ UNCHANGED <<row, sessions, thread, stops, loop, prov, want, was, todo, left>>

CleanSession(c) == /\ step[c] = "clean"
                   /\ sessions' = sessions \ {prov[c]}
                   /\ Go(c, "done")
                   /\ loop' = IF op[c] = "check" THEN None ELSE loop
                   /\ UNCHANGED <<row, thread, stops, op, prov, want, was, todo, left>>
-----------------------------------------------------------------------------
Handle(c) == \/ WriteRow(c) \/ DiscoverRows(c) \/ VerifyNext(c) \/ Finish(c)
             \/ DeleteSessions(c) \/ DeleteRow(c) \/ CleanSession(c)
Begin(c)  == \/ ReadRow(c) \/ DiscoverRequest(c) \/ CheckSession(c) \/ NotifyReady(c)
             \/ Delete(c) \/ ClearSessions(c) \/ ListSessions(c)

Work(i) == BootRow(i) \/ BootPage(i) \/ EndChat(i) \/ Exit(i)
Look(i) == ObeyStop(i) \/ BeginChat(i) \/ BlockInGet(i) \/ Unblock(i)

Next == \/ \E c \in Calls : Begin(c) \/ Handle(c)
        \/ \E i \in Idents : Work(i) \/ Look(i) \/ WorkerFault(i)
        \/ \E p \in Providers : VerifyRequest(p)
        \/ StopExpires

Spec == Init /\ [][Next]_vars

\* Nothing is under way: no call, no command, no thread that is ending.
Quiet == /\ \A c \in Calls : step[c] \in {"new", "done"}
         /\ stops = {}
         /\ \A i \in Idents : Live(i) => thread[i].at # "closing"

\* An administrator who waits for each change to take effect before making the
\* next, and deletes and clears nothing; no worker fails, no command waits 30 seconds.
CalmNext == \/ Quiet /\ \E c \in Calls :
                 \/ ReadRow(c) \/ DiscoverRequest(c)
                 \/ CheckSession(c) \/ NotifyReady(c) \/ ListSessions(c)
            \/ \E c \in Calls : Handle(c)
            \/ \E i \in Idents : Work(i) \/ Look(i)
            \/ \E p \in Providers : VerifyRequest(p)

\* The event loop runs what is ready, a POST ends within its 15 seconds, and a
\* thread is scheduled, starts its page and ends its chat within timeout_ms.  While no
\* worker is blocked on the queue, one that looks again and again finds its stop: others
\* can hide it from every look only until it expires, which CalmNext leaves out.  How
\* long a worker is blocked is up to those who send commands.
CalmFairness == /\ \A c \in Calls : WF_vars(Handle(c))
                /\ \A i \in Idents : /\ WF_vars(Work(i))
                                      /\ SF_vars(~SomeBlocked /\ ObeyStop(i))
-----------------------------------------------------------------------------
(* Properties.                                                             *)

Steps == {"new", "write", "discover", "verify", "unlink", "remove", "clean", "done"}
Stop  == [call : Calls, target : Idents]

\* Types of the rows, the threads and the requests in flight.
TypeOK == /\ row \in [Providers -> {"none", "on", "off"}]
          /\ sessions \subseteq Providers
          /\ thread \in [Idents -> Threads \cup {None}]
          /\ stops \subseteq Stop
          /\ loop \in Calls \cup {None}
          /\ step \in [Calls -> Steps]
          /\ op \in [Calls -> Ops]
          /\ prov \in [Calls -> Providers]
          /\ want \in [Calls -> BOOLEAN]
          /\ was \in [Calls -> {"none", "on", "off"}]
          /\ todo \in [Calls -> SUBSET Providers]
          /\ left \in [{"faults", "late"} -> Nat]

\* However create, update and verify requests overlap, and whatever the workers do
\* meanwhile, no provider ever has two worker threads: the look at
\* threading.enumerate() and the start are in one step of the event loop.
OneWorker == OneEach

\* While nothing is under way, an enabled provider has its worker and its session
\* row, the row at the latest when the worker has booted, and a disabled provider
\* has no worker.
Settled(p) ==
    /\ row[p] = "on"  => /\ Workers(p) # {}
                         /\ p \in sessions \/ \E i \in Workers(p) : thread[i].at = "boot"
    /\ row[p] = "off" => Workers(p) = {}

SettledMatches == Quiet => \A p \in Providers : Settled(p)
=============================================================================
