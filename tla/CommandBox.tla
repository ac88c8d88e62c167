----------------------------- MODULE CommandBox -----------------------------
(***************************************************************************)
(* What the command channel promises those who use it, the API's handlers  *)
(* and the workers: a box of commands from which each thread takes its     *)
(* own, one at a time, and a set of results of which only the handler that *)
(* waits takes its own.  Neither the order of the two queues nor the way   *)
(* the workers take the shared one apart is visible.  CommandQueue         *)
(* implements this module.                                                 *)
(***************************************************************************)
CONSTANTS Workers, Commands, None

Kinds   == {"verify_session", "mark_login_ok", "stop_thread"}
Awaited == {"verify_session", "mark_login_ok"}

VARIABLES place,     \* the life of a command
          cmd, old,  \* what was sent; the commands older than their age limit
          results,   \* the results nobody has read yet
          waiting, answer,  \* the handler that waits; what the handlers were told
          stopped    \* the threads that have ended

vars == <<place, cmd, old, results, waiting, answer, stopped>>

Init == /\ place = [c \in Commands |-> "unsent"]
        /\ cmd = [c \in Commands |-> None]
        /\ old = {} /\ results = {}
        /\ waiting = None
        /\ answer = [c \in Commands |-> "none"]
        /\ stopped \in SUBSET Workers

Move(c, from, to) == /\ place[c] = from
                     /\ place' = [place EXCEPT ![c] = to]

\* put_command to a live thread, by a handler that then waits or does not.
Send(c) == /\ Move(c, "unsent", "box")
           /\ waiting = None
           /\ \E k \in Kinds, w \in Workers \ stopped :
                 /\ cmd' = [cmd EXCEPT ![c] = [kind |-> k, target |-> w]]
                 /\ waiting' = IF k \in Awaited THEN c ELSE None
           /\ UNCHANGED <<old, results, answer, stopped>>

\* A handler that waits for verify_session gives up before its command is old.
Age(c) == /\ place[c] # "unsent"
          /\ waiting = c => cmd[c].kind # "verify_session"
          /\ old' = old \cup {c}
          /\ UNCHANGED <<place, cmd, results, waiting, answer, stopped>>

\* Only the thread a command is addressed to takes it, with empty hands.
Take(c) == /\ Move(c, "box", "hand")
           /\ cmd[c].target \notin stopped
           /\ \A d \in Commands : place[d] = "hand" => cmd[d].target # cmd[c].target
           /\ UNCHANGED <<cmd, old, results, waiting, answer, stopped>>

\* Any live thread throws an old command away, no other.
Drop(c) == /\ Move(c, "box", "dropped")
           /\ c \in old
           /\ stopped # Workers
           /\ UNCHANGED <<cmd, old, results, waiting, answer, stopped>>

\* The handler of the command runs in its thread, once.
Execute(c) ==
    /\ Move(c, "hand", "done")
    /\ stopped' = IF cmd[c].kind = "stop_thread" THEN stopped \cup {cmd[c].target}
                  ELSE stopped
    /\ \/ cmd[c].kind \in Awaited /\ results' = results \cup {c}
       \/ cmd[c].kind # "mark_login_ok" /\ UNCHANGED results
    /\ UNCHANGED <<cmd, old, waiting, answer>>

Answered(told) == /\ answer' = [answer EXCEPT ![waiting] = told]
                  /\ waiting' = None
                  /\ UNCHANGED <<place, cmd, old, stopped>>

\* The handler that waits finds its result, and only this one is used up.
Hear == /\ waiting \in results
        /\ results' = results \ {waiting}
        /\ Answered("result")

\* Its deadline; its result may still come, and is read by nobody.
GiveUp == /\ waiting # None
          /\ cmd[waiting].kind = "mark_login_ok" => waiting \in old
          /\ UNCHANGED results
          /\ Answered("timeout")

Next == \/ \E c \in Commands : Send(c) \/ Age(c) \/ Take(c) \/ Drop(c) \/ Execute(c)
        \/ Hear \/ GiveUp

Spec == Init /\ [][Next]_vars
=============================================================================
