------------------------------ MODULE Browsers ------------------------------
(***************************************************************************)
(* The browsers behind one provider's page.  Its worker thread, and the    *)
(* next one after it has stopped, asks the session pool for the page; the  *)
(* pool starts a browser on the provider's profile directory, which only   *)
(* one may use at a time, and keeps its controller in the entry.  Windows  *)
(* are closed, browsers die and every call to Playwright may raise.        *)
(***************************************************************************)
EXTENDS Naturals, FiniteSets

CONSTANTS Ids,        \* browser processes with their Playwright drivers
          Idents,     \* threading.get_ident() values; the OS reuses them
          None,
          MaxFaults,  \* bound: calls that raise
          MaxCloses,  \* bound: pages that are closed, browsers that die
          MaxBlind    \* bound: launches for a task, which knows no url

ASSUME BrowsersAssumption ==
    /\ None \notin Ids \cup Idents \cup {"stale"} \cup [ctl : Ids, tid : Idents]
    /\ "stale" \notin Ids /\ IsFiniteSet(Ids)
    /\ MaxFaults \in Nat /\ MaxCloses \in Nat /\ MaxBlind \in Nat

VARIABLES
    browser,   \* "none", or running with the chat "page" or "bare"
    profile,   \* the browsers that run on the profile directory
    lock,      \* SingletonLock: the browser that wrote it, "stale" once that one has
               \* died without removing it, None if there is no file
    entry,     \* pool._entries[provider]: the controller's browser and thread_id
    thread,    \* ident of the worker thread
    at,        \* where it is
    call,      \* who asked for the page: the boot, a command or a task
    mine,      \* the browser of the controller it is starting or closing
    attempts,  \* persistent_attempts
    left       \* what is left of the bounds

worldVars  == <<browser, profile, lock>>
threadVars == <<thread, at, call, mine, attempts>>
vars == <<worldVars, entry, threadVars, left>>

Calls == {"boot", "boot again", "verify", "task", "extract"}
Full  == [faults |-> MaxFaults, closes |-> MaxCloses, blind |-> MaxBlind]

Running == {b \in Ids : browser[b] # "none"}
Open    == entry # None /\ browser[entry.ctl] = "page"

Init == /\ browser = [b \in Ids |-> "none"]
        /\ profile = {} /\ lock = None
        /\ entry = None
        /\ thread = None /\ at = "off" /\ call = "boot"
        /\ mine = None /\ attempts = 0
        /\ left = Full

Spend(budget) == /\ left[budget] > 0
                 /\ left' = [left EXCEPT ![budget] = @ - 1]

\* A browser that ends takes its lock file with it; one that has died cannot.
End(b) == /\ browser' = [browser EXCEPT ![b] = "none"]
          /\ profile' = profile \ {b}
          /\ lock' = IF lock = b THEN None ELSE lock
Crash(b) == /\ lock = b
            /\ browser' = [browser EXCEPT ![b] = "none"]
            /\ profile' = profile \ {b}
            /\ lock' = "stale"
-----------------------------------------------------------------------------
(* The thread, outside the pool.                                           *)

StartThread == /\ at = "off"
               /\ thread' \in Idents
               /\ at' = "boot"
               /\ UNCHANGED <<worldVars, entry, call, mine, attempts, left>>

\* Bug variant for the checks: the loop has no finally.
LeaveLoopAtOnce == /\ at = "idle"
                   /\ at' = "off" /\ thread' = None
                   /\ UNCHANGED <<worldVars, entry, call, mine, attempts, left>>

\* A stop_thread command, or a transaction that fails in the loop.
LeaveLoop == /\ at = "idle"
             /\ at' = "closing"
             /\ UNCHANGED <<worldVars, entry, thread, call, mine, attempts, left>>

\* The page is there: the boot asks a second time, a command or a task uses it.
Return(c) == at' = (IF c = "boot" THEN "boot again" ELSE "idle") /\ UNCHANGED thread

\* An exception ends the thread while it boots, before the try block whose finally
\* would clean up, and is logged later.
Raise(c) == IF c \in {"boot", "boot again"}
            THEN at' = "off" /\ thread' = None
            ELSE at' = "idle" /\ UNCHANGED thread

AskedBy(c) == IF c \in {"boot", "boot again"} THEN at = c ELSE at = "idle"

\* get_or_create_provider_session, and get_page for the extraction: the open page of
\* this thread.
Reuse(c) == /\ AskedBy(c)
            /\ Open /\ entry.tid = thread
            /\ Return(c)
            /\ UNCHANGED <<worldVars, entry, call, mine, attempts, left>>

\* An open page of another thread; get_page also refuses a closed one.
Refuse(c) == /\ AskedBy(c)
             /\ \/ Open /\ entry.tid # thread
                \/ c = "extract" /\ entry # None /\ ~Open
             /\ Raise(c)
             /\ UNCHANGED <<worldVars, entry, call, mine, attempts, left>>

Launch(c) == /\ AskedBy(c)
             /\ Running # Ids   \* bound
             /\ ~Open /\ (c = "extract" => entry = None)
             /\ IF c = "task" THEN Spend("blind") ELSE UNCHANGED left
             /\ at' = "launch" /\ call' = c
             /\ mine' = None /\ attempts' = 0
             /\ UNCHANGED <<worldVars, entry, thread>>
-----------------------------------------------------------------------------
(* BrowserController.start, with two attempts on the profile.              *)

\* The profile is free, or its lock file has been removed under a running browser, or
\* the browser takes over what a dead one has left.
OnProfile ==
    /\ at = "launch" /\ attempts < 2
    /\ lock \in {None, "stale"}
    /\ \E b \in Ids \ Running :
          /\ browser' = [browser EXCEPT ![b] = "bare"]
          /\ profile' = profile \cup {b}
          /\ lock' = b
          /\ mine' = b
    /\ at' = "load"
    /\ UNCHANGED <<entry, thread, call, attempts, left>>

\* "Opening in existing browser session", or a browser that dies before it is used: the
\* launch is tried again, and the lock file removed first, whoever holds it, if exists()
\* sees it, which follows the link that SingletonLock is on some systems.
Refused == \/ at = "launch" /\ (lock # None \/ left.faults > 0)
           \/ at = "load" /\ browser[mine] = "none"

Retry == /\ lock' \in {None, lock}
         /\ at' = "launch" /\ mine' = None
         /\ left' = IF at = "launch" /\ lock = None
                    THEN [left EXCEPT !.faults = @ - 1] ELSE left
         /\ attempts' = attempts + 1
         /\ UNCHANGED <<browser, profile, entry, thread, call>>

ProfileLocked == attempts < 2 /\ Refused /\ Retry

\* Bug variant for the checks: the last launch waits for the profile as well.
WithoutProfileWaits ==
    /\ at = "launch" /\ attempts = 2 /\ lock \in {None, "stale"}
    /\ \E b \in Ids \ Running :
          /\ browser' = [browser EXCEPT ![b] = "bare"]
          /\ mine' = b
    /\ at' = "load"
    /\ UNCHANGED <<profile, lock, entry, thread, call, attempts, left>>

\* After two attempts: a browser of its own, with the saved cookies.
WithoutProfile ==
    /\ at = "launch" /\ attempts = 2
    /\ \E b \in Ids \ Running :
          /\ browser' = [browser EXCEPT ![b] = "bare"]
          /\ mine' = b
    /\ at' = "load"
    /\ UNCHANGED <<profile, lock, entry, thread, call, attempts, left>>

\* Any other error of a launch.
LaunchFails ==
    /\ at = "launch"
    /\ Spend("faults")
    /\ Raise(call)
    /\ UNCHANGED <<worldVars, entry, call, mine, attempts>>
-----------------------------------------------------------------------------
(* The rest of get_or_create_provider_session: cookies, page, entry.       *)

Register == entry' = [ctl |-> mine, tid |-> thread]

\* Bug variant for the checks: the page is opened and not registered.
LoadPageForgets ==
    /\ at = "load" /\ browser[mine] # "none" /\ call # "task"
    /\ browser' = [browser EXCEPT ![mine] = "page"]
    /\ Return(call)
    /\ mine' = None
    /\ UNCHANGED <<profile, lock, entry, call, attempts, left>>

\* The new entry overwrites what the key held.
LoadPage ==
    /\ at = "load" /\ browser[mine] # "none" /\ call # "task"
    /\ browser' = [browser EXCEPT ![mine] = "page"]
    /\ Register
    /\ Return(call)
    /\ mine' = None
    /\ UNCHANGED <<profile, lock, call, attempts, left>>

\* The script of the context, its cookies, a page that does not load, goto(None) for a
\* task, a browser that has died: nobody closes the controller.
LoadFails ==
    /\ at = "load"
    /\ IF call = "task" \/ browser[mine] = "none" THEN UNCHANGED left
                                                 ELSE Spend("faults")
    /\ Raise(call)
    /\ mine' = None
    /\ UNCHANGED <<worldVars, entry, call, attempts>>
-----------------------------------------------------------------------------
(* _close_entry and BrowserController.close.                               *)

PopEntry == /\ at = "closing"
            /\ IF entry = None
               THEN at' = "off" /\ thread' = None /\ UNCHANGED mine
               ELSE at' = "stopping" /\ mine' = entry.ctl /\ UNCHANGED thread
            /\ entry' = None
            /\ UNCHANGED <<worldVars, call, attempts, left>>

\* Bug variant for the checks: only a browser without a profile is closed.
CloseBrowserKeepsProfile ==
    /\ at = "stopping"
    /\ IF mine \in profile THEN UNCHANGED worldVars ELSE End(mine)
    /\ at' = "off" /\ thread' = None /\ mine' = None
    /\ UNCHANGED <<entry, call, attempts, left>>

\* Context, browser and driver, each in a try of its own.
CloseBrowser ==
    /\ at = "stopping"
    /\ End(mine)
    /\ at' = "off" /\ thread' = None /\ mine' = None
    /\ UNCHANGED <<entry, call, attempts, left>>
-----------------------------------------------------------------------------
(* The user, and the browsers themselves.                                  *)

PageCloses(b) == /\ browser[b] = "page"
                 /\ Spend("closes")
                 /\ browser' = [browser EXCEPT ![b] = "bare"]
                 /\ UNCHANGED <<profile, lock, entry, threadVars>>

BrowserDies(b) == /\ browser[b] # "none"
                  /\ Spend("closes")
                  /\ End(b) \/ Crash(b)
                  /\ UNCHANGED <<entry, threadVars>>
-----------------------------------------------------------------------------
Starting == \/ OnProfile \/ ProfileLocked \/ WithoutProfile \/ LaunchFails
            \/ LoadPage \/ LoadFails

Closing == PopEntry \/ CloseBrowser

Next == \/ StartThread \/ LeaveLoop
        \/ \E c \in Calls : Reuse(c) \/ Refuse(c) \/ Launch(c)
        \/ Starting \/ Closing
        \/ \E b \in Ids : PageCloses(b) \/ BrowserDies(b)

\* Every call to Playwright returns or raises.
Spec == Init /\ [][Next]_vars /\ WF_vars(Starting) /\ WF_vars(Closing)
-----------------------------------------------------------------------------
\* Every variable keeps its type.
TypeOK == /\ browser \in [Ids -> {"none", "page", "bare"}]
          /\ profile \subseteq Ids
          /\ lock \in Ids \cup {None, "stale"}
          /\ entry \in [ctl : Ids, tid : Idents] \cup {None}
          /\ thread \in Idents \cup {None}
          /\ at \in {"off", "boot", "boot again", "idle", "launch", "load",
                     "closing", "stopping"}
          /\ call \in Calls
          /\ mine \in Ids \cup {None}
          /\ attempts \in 0..2
          /\ left \in [{"faults", "closes", "blind"} -> Nat]

Blamed == (MaxFaults - left.faults) + (MaxCloses - left.closes) + (MaxBlind - left.blind)

\* Browsers that nobody will ever close.
Orphans == Running \ ({mine} \cup (IF entry = None THEN {} ELSE {entry.ctl}))

\* A browser is only ever left behind by a call that raised, a page that was closed or
\* a task that found its page closed, and each of them leaves at most one.
OrphansAccounted == Cardinality(Orphans) <= Blamed

\* As long as nothing of that happens, the worker can be stopped and started any number
\* of times and always gets its one browser on the profile, where the login is kept.
CalmKeepsProfile ==
    Blamed = 0 => /\ Cardinality(Running) <= 1
                  /\ Running = profile
                  /\ attempts = 0

\* An open page outlives its thread in no case, so the next thread is never refused.
NeverRefused == /\ Open => entry.tid = thread
                /\ at = "off" => ~Open

\* A start ends, with a page or an exception, after two attempts and one more.
StartsEnd == at \in {"launch", "load"} ~> at \notin {"launch", "load"}
=============================================================================
