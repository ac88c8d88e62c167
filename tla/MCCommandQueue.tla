--------------------------- MODULE MCCommandQueue ---------------------------
(***************************************************************************)
(* Small instances of CommandQueue for TLC: a worker that is alone on the  *)
(* queue, and several that share it and fewer commands.                    *)
(***************************************************************************)
EXTENDS CommandQueue

CONSTANT MaxShared   \* bound: commands sent while several workers share the queue

VARIABLES alive,     \* the workers that were alive at the beginning
          behind     \* history: the commands that were sent while one was pending

Alone == \E w \in Workers : alive = {w}

\* The commands are numbers here, and since they are interchangeable they are sent
\* in this order.
Within == /\ Alone \/ \A c \in Commands : Sent(c) => c <= MaxShared
          /\ \A c \in Commands \ {1} : Sent(c) => Sent(c - 1)

\* It waits, or has been found by a drain that still goes on.
Pending(c) == Place(c) = "box" \/ \E w \in Workers : found[w] = c /\ pc[w] # "handle"

MCInit == Init /\ alive = {w \in Workers : pc[w] # "dead"} /\ behind = {}

MCNext == /\ Next /\ UNCHANGED alive /\ Within'
          /\ behind' = IF \E c \in Commands : Pending(c)
                       THEN behind \cup {c \in Commands : ~Sent(c) /\ cmd'[c] # None}
                       ELSE behind

mcVars == <<vars, alive, behind>>

MCSpec == MCInit /\ [][MCNext]_mcVars /\ Fairness

\* A worker that drains the queue alone never blocks in it: the get() after the
\* empty() test of get_command_for_thread always finds something.  With a second
\* worker it may, and nothing but another command wakes it.
AloneNeverBlocked == Alone => NeverBlockedInGet

\* The put-back of a lone worker may exchange two commands, but leaves alone those that
\* were sent while none was pending: a stop or a verification sent to such a worker, idle
\* or busy with a chat, is never overtaken by a later command.
OvertakenOnlyBehind ==
    Alone => \A c, d \in Commands :
        c < d /\ Place(c) = "box" /\ Place(d) \in {"hand", "done"} => c \in behind

\* However many workers drain the queue at once, every command is executed, or discarded
\* for its age, unless its worker stops first or a worker blocks in the get() that follows
\* the empty() test; a worker that is alone never does (AloneNeverBlocked).
ResolvesUnlessBlocked == \A c \in Commands : Sent(c) ~> Resolved(c) \/ ~NeverBlockedInGet
=============================================================================
