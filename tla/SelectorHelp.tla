---------------------------- MODULE SelectorHelp ----------------------------
(***************************************************************************)
(* mark_login_ok: the worker of a provider types "hello" into its page and *)
(* has the chat of another provider find the selectors in the page's DOM.  *)
(* The question is an internal task of the helper's thread, and the worker *)
(* that asks stands still until it is answered or a minute has passed.     *)
(* Threads that are started again and other tasks are left out.            *)
(***************************************************************************)
EXTENDS Integers, FiniteSets, FiniteSetsExt

CONSTANTS Workers,    \* one thread per provider
          Locked,     \* those whose provider is locked
          None,
          MaxCalls,   \* bound: requests to the API
          MaxFaults   \* bound: calls that raise, pages that close, threads that stop

ASSUME HelpAssumption ==
    /\ IsFiniteSet(Workers) /\ Locked \subseteq Workers /\ None \notin Workers
    /\ MaxCalls \in Nat /\ MaxFaults \in Nat

Calls == 1..MaxCalls

VARIABLES
    on,       \* worker -> its thread runs
    page,     \* worker -> its entry in the pool: "none", "open" or "closed"
    pc,       \* worker -> where it is; "get": blocked while it looks for a command
    cur,      \* worker -> the call it handles, 0 if none
    job,      \* worker -> the call whose question it runs, 0 if none
    guess,    \* worker -> it has found an input box by itself
    n,        \* calls so far
    target,   \* call -> the worker it is addressed to
    queued,   \* COMMAND_QUEUE, oldest first by number
    helper,   \* call -> the worker its question was given to
    task,     \* call -> status of that task
    json,     \* call -> the raw response of the task has a JSON object
    saved,    \* call -> what update_selectors was given
    results,  \* RESULT_QUEUE
    api,      \* the call the event loop is blocked on, 0 if none
    told,     \* call -> the status code of its request
    faults

threadVars == <<on, page, pc, cur, job, guess>>
callVars   == <<n, target, queued, results, api, told>>
taskVars   == <<helper, task, json>>
vars == <<threadVars, callVars, taskVars, saved, faults>>

\* Some providers are disabled; a thread that runs has opened its page.
Init == /\ on \in [Workers -> BOOLEAN]
        /\ page = [w \in Workers |-> IF on[w] THEN "open" ELSE "none"]
        /\ pc = [w \in Workers |-> "idle"]
        /\ cur = [w \in Workers |-> 0] /\ job = [w \in Workers |-> 0]
        /\ guess = [w \in Workers |-> FALSE]
        /\ n = 0 /\ queued = {} /\ results = {} /\ api = 0
        /\ target = [c \in Calls |-> None]
        /\ told = [c \in Calls |-> "nothing"]
        /\ helper = [c \in Calls |-> None]
        /\ task = [c \in Calls |-> "none"]
        /\ json = [c \in Calls |-> FALSE]
        /\ saved = [c \in Calls |-> "nothing"]
        /\ faults = 0

Fault == faults < MaxFaults /\ faults' = faults + 1

At(w, step)  == on[w] /\ pc[w] = step
Goto(w, step) == pc' = [pc EXCEPT ![w] = step]
-----------------------------------------------------------------------------
(* The endpoint.  get_command_result sleeps in the event loop, so there is *)
(* one such request at a time.                                             *)

Post(w) == /\ api = 0 /\ n < MaxCalls
           /\ n' = n + 1 /\ api' = n + 1
           /\ target' = [target EXCEPT ![n + 1] = w]
           /\ queued' = queued \cup {n + 1}
           /\ UNCHANGED <<threadVars, taskVars, results, told, saved, faults>>

Tell(code) == told' = [told EXCEPT ![api] = code] /\ api' = 0

\* The worker always reports success.
Answer == /\ api \in results
          /\ Tell("200")
          /\ results' = results \ {api}
          /\ UNCHANGED <<threadVars, taskVars, n, target, queued, saved, faults>>

\* A minute has passed; the command is not withdrawn.
GiveUp == /\ api # 0 /\ api \notin results
          /\ Tell("500")
          /\ UNCHANGED <<threadVars, taskVars, n, target, queued, results, saved, faults>>

\* After half a minute in the queue whoever looks into it drops the command.
Expire(c) == /\ c \in queued
             /\ queued' = queued \ {c}
             /\ UNCHANGED <<threadVars, taskVars, n, target, results, api, told, saved,
                            faults>>
-----------------------------------------------------------------------------
(* The handler.                                                            *)

Mine(w) == {c \in queued : target[c] = w}

Finish(w, what) ==
    /\ saved' = [saved EXCEPT ![cur[w]] = what]
    /\ results' = results \cup {cur[w]}
    /\ cur' = [cur EXCEPT ![w] = 0]
    /\ Goto(w, "idle")

\* Between two tasks a worker looks for a command.
Looks(w) == At(w, "idle") /\ job[w] = 0

\* get_command_for_thread takes the commands of all workers out of one queue: another one
\* took the last of them after w saw that there was one, and the get() of w has no
\* timeout.  It may have its own command in its hands by then.
BlockInGet(w) ==
    /\ Looks(w)
    /\ \E v \in Workers \ {w} : Looks(v)
    /\ Goto(w, "get")
    /\ UNCHANGED <<on, page, cur, job, guess, callVars, taskVars, saved, faults>>

\* Somebody puts a command into the queue, whomever it is for.
Unblock(w) ==
    /\ At(w, "get")
    /\ Goto(w, "idle")
    /\ UNCHANGED <<on, page, cur, job, guess, callVars, taskVars, saved, faults>>

TakeCommand(w) ==
    /\ Looks(w) /\ Mine(w) # {}
    /\ LET c == Min(Mine(w)) IN /\ cur' = [cur EXCEPT ![w] = c]
                                /\ queued' = queued \ {c}
    /\ Goto(w, "page")
    /\ UNCHANGED <<on, page, job, guess, n, target, results, api, told, taskVars, saved,
                   faults>>

\* get_page refuses a page that has been closed.
GetPage(w) ==
    /\ At(w, "page") /\ page[w] = "open"
    /\ Goto(w, "hello")
    /\ UNCHANGED <<on, page, cur, job, guess, callVars, taskVars, saved, faults>>

\* No session row, no page, or pool._entries changes while the scan iterates over it.
Raises(w) ==
    /\ \/ At(w, "page") /\ page[w] = "closed" /\ UNCHANGED faults
       \/ (At(w, "page") \/ At(w, "scan")) /\ Fault
    /\ Finish(w, "nothing")
    /\ UNCHANGED <<on, page, job, guess, n, target, queued, api, told, taskVars>>

\* The heuristics find an input box or not; without a page there is no DOM to show.
Hello(w) ==
    /\ At(w, "hello")
    /\ \E found \in BOOLEAN :
          /\ found => page[w] = "open"
          /\ guess' = [guess EXCEPT ![w] = found]
    /\ Goto(w, IF page[w] = "open" THEN "scan" ELSE "save")
    /\ UNCHANGED <<on, page, cur, job, callVars, taskVars, saved, faults>>

Others(w)  == {v \in Workers \ {w} : page[v] = "open"}
\* A locked provider if there is one, then any other, then this one.
Helpers(w) == IF Others(w) \cap Locked # {} THEN Others(w) \cap Locked
              ELSE IF Others(w) # {}        THEN Others(w)
              ELSE {w} \cap {v \in Workers : page[v] = "open"}

Ask(w) ==
    /\ At(w, "scan")
    /\ \E v \in Helpers(w) : helper' = [helper EXCEPT ![cur[w]] = v]
    /\ task' = [task EXCEPT ![cur[w]] = "PENDING"]
    /\ Goto(w, "wait")
    /\ UNCHANGED <<on, page, cur, job, guess, callVars, json, saved, faults>>

NobodyToAsk(w) ==
    /\ At(w, "scan") /\ Helpers(w) = {}
    /\ Goto(w, "save")
    /\ UNCHANGED <<on, page, cur, job, guess, callVars, taskVars, saved, faults>>

Own(w) == IF guess[w] THEN "guess" ELSE "nothing"

Keep == UNCHANGED <<on, page, job, guess, n, target, queued, api, told, taskVars, faults>>

\* What the chat has found, or else what the heuristics have found, is saved.
Poll(w) ==
    /\ At(w, "wait") /\ task[cur[w]] \in {"COMPLETED", "FAILED"}
    /\ Finish(w, IF json[cur[w]] THEN "answer" ELSE Own(w))
    /\ Keep

\* Bug variant for the checks: the worker waits for as long as it takes.
ElapsedNever(w) == At(w, "wait") /\ FALSE /\ UNCHANGED vars

\* The task stays as it is.  This minute began after that of the endpoint.
Elapsed(w) ==
    /\ At(w, "wait") /\ task[cur[w]] \in {"PENDING", "DISPATCHED"}
    /\ api # cur[w]
    /\ Finish(w, Own(w))
    /\ Keep

SaveGuess(w) == At(w, "save") /\ Finish(w, Own(w)) /\ Keep
-----------------------------------------------------------------------------
(* The helper's side: run_once, when it has found no command.  One that    *)
(* comes after the look, or that another worker has in its hands, does not *)
(* keep it from its tasks.                                                 *)

Questions(w) == {c \in Calls : helper[c] = w /\ task[c] = "PENDING"}

\* Bug variant for the checks: a worker that waits goes on with its tasks.
ClaimWhileWaiting(w) ==
    /\ At(w, "idle") \/ At(w, "wait")
    /\ job[w] = 0 /\ Questions(w) # {}
    /\ LET c == Min(Questions(w)) IN /\ job' = [job EXCEPT ![w] = c]
                                     /\ task' = [task EXCEPT ![c] = "DISPATCHED"]
    /\ UNCHANGED <<on, page, pc, cur, guess, callVars, helper, json, saved, faults>>

\* Bug variant for the checks: a question that nobody waits for is left alone.
ClaimWanted(w) ==
    /\ Looks(w)
    /\ LET wanted == {c \in Questions(w) : cur[target[c]] = c}
       IN  /\ wanted # {}
           /\ job' = [job EXCEPT ![w] = Min(wanted)]
           /\ task' = [task EXCEPT ![Min(wanted)] = "DISPATCHED"]
    /\ UNCHANGED <<on, page, pc, cur, guess, callVars, helper, json, saved, faults>>

Claim(w) ==
    /\ Looks(w) /\ Questions(w) # {}
    /\ LET c == Min(Questions(w)) IN /\ job' = [job EXCEPT ![w] = c]
                                     /\ task' = [task EXCEPT ![c] = "DISPATCHED"]
    /\ UNCHANGED <<on, page, pc, cur, guess, callVars, helper, json, saved, faults>>

\* A task on a closed page fails; any other ends in a reply, with or without JSON, or
\* fails as well.
Process(w) ==
    /\ on[w] /\ job[w] # 0
    /\ \E ok, good \in BOOLEAN :
          /\ (ok => page[w] = "open") /\ (good => ok)
          /\ task' = [task EXCEPT ![job[w]] = IF ok THEN "COMPLETED" ELSE "FAILED"]
          /\ json' = [json EXCEPT ![job[w]] = good]
    /\ job' = [job EXCEPT ![w] = 0]
    /\ UNCHANGED <<on, page, pc, cur, guess, callVars, helper, saved, faults>>
-----------------------------------------------------------------------------
(* What happens around them.                                               *)

ClosePage(w) == /\ page[w] = "open" /\ Fault
                /\ page' = [page EXCEPT ![w] = "closed"]
                /\ UNCHANGED <<on, pc, cur, job, guess, callVars, taskVars, saved>>

\* A stop_thread command; the entry goes with the thread.
Stop(w) == /\ Looks(w) /\ Fault
           /\ on' = [on EXCEPT ![w] = FALSE]
           /\ page' = [page EXCEPT ![w] = "none"]
           /\ UNCHANGED <<pc, cur, job, guess, callVars, taskVars, saved>>
-----------------------------------------------------------------------------
Handler(w) == \/ GetPage(w) \/ Raises(w) \/ Hello(w)
              \/ Ask(w) \/ NobodyToAsk(w)
              \/ Poll(w) \/ Elapsed(w) \/ SaveGuess(w)

Next == \/ \E w \in Workers : \/ Post(w) \/ TakeCommand(w) \/ Handler(w)
                               \/ Claim(w) \/ Process(w)
                               \/ BlockInGet(w) \/ Unblock(w)
                               \/ ClosePage(w) \/ Stop(w)
        \/ Answer \/ GiveUp
        \/ \E c \in Calls : Expire(c)

\* A handler goes on, a chat is answered or times out, and so does the endpoint.  A
\* worker that is in no handler looks for a command and then claims its tasks, except that
\* it may block on the way: nothing is assumed of the commands and of the end of a get().
Fairness == /\ \A w \in Workers : /\ WF_vars(Handler(w))
                                  /\ WF_vars(Claim(w) \/ Process(w))
            /\ WF_vars(Answer \/ GiveUp)

Spec == Init /\ [][Next]_vars /\ Fairness
-----------------------------------------------------------------------------
\* Every variable keeps its type.
TypeOK ==
    /\ on \in [Workers -> BOOLEAN]
    /\ page \in [Workers -> {"none", "open", "closed"}]
    /\ pc \in [Workers -> {"idle", "get", "page", "hello", "scan", "wait", "save"}]
    /\ cur \in [Workers -> 0..MaxCalls] /\ job \in [Workers -> 0..MaxCalls]
    /\ \A w \in Workers : (cur[w] = 0) = (pc[w] \in {"idle", "get"})
    /\ guess \in [Workers -> BOOLEAN]
    /\ n \in 0..MaxCalls /\ api \in 0..n
    /\ queued \subseteq 1..n /\ results \subseteq 1..n
    /\ target \in [Calls -> Workers \cup {None}]
    /\ helper \in [Calls -> Workers \cup {None}]
    /\ task \in [Calls -> {"none", "PENDING", "DISPATCHED", "COMPLETED", "FAILED"}]
    /\ json \in [Calls -> BOOLEAN]
    /\ saved \in [Calls -> {"nothing", "guess", "answer"}]
    /\ told \in [Calls -> {"nothing", "200", "500"}]
    /\ faults \in 0..MaxFaults

\* A worker that finds no other page asks itself and then waits for itself: its request
\* is answered with 500 and nothing but its own guess is saved.
SelfHelpFails ==
    \A c \in Calls : helper[c] # None /\ helper[c] = target[c]
                        => told[c] # "200" /\ saved[c] # "answer"

\* Two handlers, or one and itself, that wait for each other with both questions pending.
Waits(c) == target[c] # None /\ cur[target[c]] = c /\ pc[target[c]] = "wait"
Circle(c, d) == /\ Waits(c) /\ task[c] = "PENDING" /\ helper[c] = target[d]
                /\ Waits(d) /\ task[d] = "PENDING" /\ helper[d] = target[c]

\* Of two workers that wait for each other one leaves by its timeout and empty-handed,
\* whatever happens next; a worker that waits for itself is the subject of SelfHelpFails.
CircleCostsOne ==
    \A c \in Calls : \A d \in (c + 1)..MaxCalls :
        [](Circle(c, d) => []~(saved[c] = "answer" /\ saved[d] = "answer"))

\* Handlers end, whoever they wait for: again and again no worker is in one.
HandlersEnd == []<>(\A w \in Workers : cur[w] = 0)

\* A question is put to the chat even when nobody waits for the answer any more, unless
\* its thread has stopped or is blocked on the queue: giving up does not take it back.
QuestionsAreAsked ==
    \A c \in Calls : task[c] = "PENDING" ~>
        \/ task[c] # "PENDING"
        \/ \E w \in Workers : w = helper[c] /\ (~on[w] \/ pc[w] = "get")
=============================================================================
