---------------------------- MODULE CommandQueue ----------------------------
(***************************************************************************)
(* The command channel between the API and the worker threads: one shared  *)
(* queue.Queue of commands addressed to a thread ident, one of results.    *)
(* Every worker drains the whole command queue at the start of each        *)
(* run_once, keeps the first command addressed to it and puts the others   *)
(* back.  The API handlers that wait for a result are coroutines that      *)
(* block the event loop, so at most one of them is waiting.                *)
(***************************************************************************)
EXTENDS Naturals, Sequences, FiniteSets

CONSTANTS Workers,   \* worker threads, by ident
          Commands,  \* bound: the commands the API sends
          None

Kinds   == {"verify_session", "mark_login_ok", "stop_thread"}
Awaited == {"verify_session", "mark_login_ok"}
Command == [kind : Kinds, target : Workers]

ASSUME QueueAssumption == None \notin Commands \cup Workers \cup Command

VARIABLES
    queue,           \* COMMAND_QUEUE
    results,         \* RESULT_QUEUE, as the command ids of the results
    cmd,             \* what was sent: [kind, target], None before put_command
    old,             \* commands older than COMMAND_TIMEOUT_SECONDS
    waiting, held,   \* get_command_result: command_id and temp of the waiter
    answer,          \* what the waiting handler was told
    pc,              \* where each worker is in its cycle
    seen,            \* the commands that were already old at `now`
    temp, found,     \* locals of get_command_for_thread
    runs, dropped    \* history: executions of a command, discarded commands

apiVars    == <<waiting, held, answer>>
workerVars == <<pc, seen, temp, found>>
vars == <<queue, results, cmd, old, apiVars, workerVars, runs, dropped>>

Sent(c) == cmd[c] # None

Init == /\ queue = <<>> /\ results = <<>>
        /\ cmd = [c \in Commands |-> None]
        /\ old = {}
        /\ waiting = None /\ held = <<>>
        /\ answer = [c \in Commands |-> "none"]
        /\ pc    \in [Workers -> {"poll", "dead"}]
        /\ seen  = [w \in Workers |-> {}]
        /\ temp  = [w \in Workers |-> <<>>]
        /\ found = [w \in Workers |-> None]
        /\ runs  = [c \in Commands |-> 0]
        /\ dropped = {}
-----------------------------------------------------------------------------
(* The API, on the event loop.                                             *)

\* put_command to a thread that was alive when looked up; the handlers of
\* verify_session and mark_login_ok then wait, the one of stop_thread does not.
Put(c) ==
    /\ waiting = None
    /\ ~Sent(c)
    /\ \E k \in Kinds, w \in Workers :
          /\ pc[w] # "dead"
          /\ cmd' = [cmd EXCEPT ![c] = [kind |-> k, target |-> w]]
          /\ waiting' = IF k \in Awaited THEN c ELSE None
    /\ queue' = Append(queue, c)
    /\ UNCHANGED <<results, old, held, answer, workerVars, runs, dropped>>

\* One RESULT_QUEUE.get() of get_command_result: the result waited for, and then
\* the others go back, or one more to keep aside.
TakeResult ==
    /\ waiting # None
    /\ results # <<>>
    /\ IF Head(results) = waiting
       THEN /\ answer' = [answer EXCEPT ![waiting] = "result"]
            /\ waiting' = None
            /\ results' = Tail(results) \o held
            /\ held' = <<>>
       ELSE /\ held' = Append(held, Head(results))
            /\ results' = Tail(results)
            /\ UNCHANGED <<waiting, answer>>
    /\ UNCHANGED <<queue, cmd, old, workerVars, runs, dropped>>

\* Bug variant for the checks: the results kept aside are not put back.
GiveUpForgets ==
    /\ waiting # None
    /\ cmd[waiting].kind = "mark_login_ok" => waiting \in old
    /\ answer' = [answer EXCEPT ![waiting] = "timeout"]
    /\ waiting' = None
    /\ held' = <<>>
    /\ UNCHANGED <<queue, results, cmd, old, workerVars, runs, dropped>>

\* The deadline: 10 s for verify_session, before the command is old; 60 s for
\* mark_login_ok, after it.
GiveUp ==
    /\ waiting # None
    /\ cmd[waiting].kind = "mark_login_ok" => waiting \in old
    /\ answer' = [answer EXCEPT ![waiting] = "timeout"]
    /\ waiting' = None
    /\ results' = results \o held
    /\ held' = <<>>
    /\ UNCHANGED <<queue, cmd, old, workerVars, runs, dropped>>

\* 30 s have passed since the command was created.
Age(c) ==
    /\ Sent(c)
    /\ c \notin old
    /\ cmd[c].kind = "verify_session" => waiting # c
    /\ old' = old \cup {c}
    /\ UNCHANGED <<queue, results, cmd, apiVars, workerVars, runs, dropped>>
-----------------------------------------------------------------------------
(* get_command_for_thread(w), called by each worker in run_once.           *)

Go(w, place) == pc' = [pc EXCEPT ![w] = place]

BeginDrain(w) ==
    /\ pc[w] = "poll"
    /\ Go(w, "check")
    /\ seen' = [seen EXCEPT ![w] = old]
    /\ UNCHANGED <<queue, results, cmd, old, apiVars, temp, found, runs, dropped>>

\* Bug variant for the checks: no test of empty() before get().
CheckNothing(w) ==
    /\ pc[w] = "check"
    /\ Go(w, "get")
    /\ UNCHANGED <<queue, results, cmd, old, apiVars, seen, temp, found, runs, dropped>>

\* while not COMMAND_QUEUE.empty()
Check(w) ==
    /\ pc[w] = "check"
    /\ Go(w, IF queue = <<>> THEN "putback" ELSE "get")
    /\ UNCHANGED <<queue, results, cmd, old, apiVars, seen, temp, found, runs, dropped>>

\* Bug variants for the checks: the target is ignored; a second command of this
\* thread replaces the first.
MineAnyTarget(c, w)  == found[w] = None
MineOverwrites(c, w) == cmd[c].target = w
Mine(c, w) == cmd[c].target = w /\ found[w] = None

\* Bug variant for the checks: of several commands the last one is kept, not the first.
GetLast(w) ==
    /\ pc[w] = "get"
    /\ queue # <<>>
    /\ queue' = Tail(queue)
    /\ IF cmd[Head(queue)].target = w
       THEN /\ found' = [found EXCEPT ![w] = Head(queue)]
            /\ temp' = IF found[w] = None THEN temp
                       ELSE [temp EXCEPT ![w] = Append(@, found[w])]
       ELSE /\ temp' = [temp EXCEPT ![w] = Append(@, Head(queue))]
            /\ UNCHANGED found
    /\ Go(w, "check")
    /\ UNCHANGED <<results, cmd, old, apiVars, seen, runs, dropped>>

\* COMMAND_QUEUE.get() blocks while the queue is empty.
Get(w) ==
    /\ pc[w] = "get"
    /\ queue # <<>>
    /\ queue' = Tail(queue)
    /\ LET c == Head(queue) IN
       \/ /\ c \in seen[w]
          /\ dropped' = dropped \cup {c}
          /\ UNCHANGED <<temp, found>>
       \/ /\ c \notin seen[w] /\ Mine(c, w)
          /\ found' = [found EXCEPT ![w] = c]
          /\ UNCHANGED <<temp, dropped>>
       \/ /\ c \notin seen[w] /\ ~Mine(c, w)
          /\ temp' = [temp EXCEPT ![w] = Append(@, c)]
          /\ UNCHANGED <<found, dropped>>
    /\ Go(w, "check")
    /\ UNCHANGED <<results, cmd, old, apiVars, seen, runs>>

\* Bug variant for the checks: the kept commands are forgotten.
PutBackForgets(w) ==
    /\ pc[w] = "putback"
    /\ temp[w] # <<>>
    /\ temp' = [temp EXCEPT ![w] = Tail(@)]
    /\ UNCHANGED <<queue, results, cmd, old, apiVars, pc, seen, found, runs, dropped>>

\* One put per kept command; the producers may put in between.
PutBack(w) ==
    /\ pc[w] = "putback"
    /\ temp[w] # <<>>
    /\ queue' = Append(queue, Head(temp[w]))
    /\ temp' = [temp EXCEPT ![w] = Tail(@)]
    /\ UNCHANGED <<results, cmd, old, apiVars, pc, seen, found, runs, dropped>>

\* Without a command the worker goes on to the tasks table and polls again.
EndDrain(w) ==
    /\ pc[w] = "putback"
    /\ temp[w] = <<>>
    /\ Go(w, IF found[w] = None THEN "poll" ELSE "handle")
    /\ UNCHANGED <<queue, results, cmd, old, apiVars, seen, temp, found, runs, dropped>>

\* _handle_command: stop_thread ends the thread; mark_login_ok always answers;
\* an exception in verify_session (a failed launch) leaves no answer.
Handle(w) ==
    /\ pc[w] = "handle"
    /\ LET c == found[w]
           k == cmd[c].kind
       IN  /\ runs' = [runs EXCEPT ![c] = @ + 1]
           /\ Go(w, IF k = "stop_thread" THEN "dead" ELSE "poll")
           /\ \/ k \in Awaited /\ results' = Append(results, c)
              \/ k # "mark_login_ok" /\ UNCHANGED results
    /\ found' = [found EXCEPT ![w] = None]
    /\ UNCHANGED <<queue, cmd, old, apiVars, seen, temp, dropped>>

Drain(w) == BeginDrain(w) \/ Check(w) \/ Get(w) \/ PutBack(w) \/ EndDrain(w) \/ Handle(w)

Next == \/ \E c \in Commands : Put(c) \/ Age(c)
        \/ TakeResult \/ GiveUp
        \/ \E w \in Workers : Drain(w)

Spec == Init /\ [][Next]_vars

\* Live threads run, a waiter's deadline and a command's age limit are reached.
Fairness == /\ \A w \in Workers : WF_vars(Drain(w))
            /\ \A c \in Commands : WF_vars(Age(c))
            /\ WF_vars(TakeResult \/ GiveUp)
-----------------------------------------------------------------------------
Places == {"poll", "check", "get", "putback", "handle", "dead"}

\* Every variable keeps its type.
TypeOK ==
    /\ queue \in Seq(Commands) /\ results \in Seq(Commands) /\ held \in Seq(Commands)
    /\ cmd \in [Commands -> Command \cup {None}]
    /\ old \subseteq Commands /\ dropped \subseteq Commands
    /\ waiting \in Commands \cup {None}
    /\ answer \in [Commands -> {"none", "result", "timeout"}]
    /\ pc \in [Workers -> Places]
    /\ seen \in [Workers -> SUBSET Commands]
    /\ temp \in [Workers -> Seq(Commands)]
    /\ found \in [Workers -> Commands \cup {None}]
    /\ runs \in [Commands -> Nat]

Times(c, s) == Cardinality({i \in DOMAIN s : s[i] = c})

\* Where a command that was sent can be: the places, each counted.
Held(c)    == {w \in Workers : Times(c, temp[w]) > 0}
Finders(c) == {w \in Workers : found[w] = c}
Copies(c)  == Times(c, queue) + Cardinality(Held(c)) + Cardinality(Finders(c))
                  + runs[c] + (IF c \in dropped THEN 1 ELSE 0)

\* Although each worker takes the whole queue apart and rebuilds it while others
\* do the same, a sent command is never lost and never multiplied: it is queued,
\* in one worker's hands, executed once, or discarded for its age.
CommandConserved ==
    \A c \in Commands : /\ Copies(c) = IF Sent(c) THEN 1 ELSE 0
                        /\ \A w \in Workers : Times(c, temp[w]) <= 1

\* Only the thread a command is addressed to ever takes it out for good, and no
\* thread holds commands while it executes one or after it has stopped.
OnlyTargetTakes ==
    \A w \in Workers : /\ found[w] # None => cmd[found[w]].target = w
                       /\ pc[w] \in {"poll", "handle", "dead"} => temp[w] = <<>>

\* A result exists at most once and only for a command that ran, and a handler
\* is told a result only if its own command ran.
ResultsAreReal ==
    \A c \in Commands :
        /\ Times(c, results) + Times(c, held) <= runs[c]
        /\ answer[c] = "result" => runs[c] = 1 /\ Times(c, results \o held) = 0

\* The blocking get() after the empty() test never finds the queue empty.
NeverBlockedInGet == \A w \in Workers : pc[w] = "get" => queue # <<>>

\* The life of a command, whichever queue or local variable it lies in.
Place(c) == IF runs[c] > 0 THEN "done"
            ELSE IF c \in dropped THEN "dropped"
            ELSE IF Finders(c) # {} THEN "hand"
            ELSE IF Times(c, queue) > 0 \/ Held(c) # {} THEN "box"
            ELSE "unsent"

Life    == [c \in Commands |-> Place(c)]
Unread  == {c \in Commands : Times(c, results) + Times(c, held) > 0}
Stopped == {w \in Workers : pc[w] = "dead"}

Box == INSTANCE CommandBox WITH place <- Life, results <- Unread, stopped <- Stopped

\* To its users the channel is a box: what the drains of the workers do to the order of
\* the queue, what they hold meanwhile and what a waiting handler keeps aside is
\* never seen.
ImplementsCommandBox == Box!Spec

\* The command has been executed or discarded, or its worker has stopped.
Resolved(c) == \/ runs[c] = 1 \/ c \in dropped
               \/ Sent(c) /\ pc[cmd[c].target] = "dead"
=============================================================================
