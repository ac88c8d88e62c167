------------------------------ MODULE TaskPool ------------------------------
(***************************************************************************)
(* What the server promises a client that posts tasks and polls them: the  *)
(* life of one row, its owner and the replies stored for it, and, of the   *)
(* rest, only which providers have a session row and an entry in the pool: *)
(* no browsers or threads.  TaskDispatch implements this module.           *)
(***************************************************************************)
EXTENDS Naturals

CONSTANTS Tasks,    \* the rows POST /api/tasks may create
          Idents,   \* thread identifiers, the values of tasks.owner
          Providers,
          None      \* SQL NULL

Statuses == {"absent", "PENDING", "DISPATCHED", "COMPLETED", "FAILED",
             "CRITICAL", "purged"}

VARIABLES status,   \* tasks.status; "absent" before the insert, "purged" after the delete
          owner,    \* tasks.owner
          replies,  \* how many raw_responses rows refer to the task
          sess,     \* providers with a sessions row
          entries   \* keys of pool._entries

rows == <<status, owner, replies>>
vars == <<rows, sess, entries>>

Init == /\ status  = [t \in Tasks |-> "absent"]
        /\ owner   = [t \in Tasks |-> None]
        /\ replies = [t \in Tasks |-> 0]
        /\ sess \in SUBSET Providers
        /\ entries \in SUBSET Providers

Move(t, from, to) == /\ status[t] = from
                     /\ status' = [status EXCEPT ![t] = to]

\* TaskRepository.create: a new row is PENDING, with or without an owner.
Submit(t) == /\ Move(t, "absent", "PENDING")
             /\ \E o \in Idents \cup {None} : owner' = [owner EXCEPT ![t] = o]
             /\ UNCHANGED <<replies, sess, entries>>

\* create_task's second transaction: no session could take the task.
Reject(t) == /\ Move(t, "PENDING", "CRITICAL")
             /\ owner[t] = None
             /\ UNCHANGED <<owner, replies, sess, entries>>

\* claim_next_pending: only a task that has an owner is ever taken.
Claim(t) == /\ Move(t, "PENDING", "DISPATCHED")
            /\ owner[t] # None
            /\ UNCHANGED <<owner, replies, sess, entries>>

\* save_raw_response: the one reply of a task in progress.
Answer(t) == /\ status[t] = "DISPATCHED"
             /\ replies[t] = 0
             /\ replies' = [replies EXCEPT ![t] = 1]
             /\ UNCHANGED <<status, owner, sess, entries>>

\* mark_status: COMPLETED only with a reply stored, FAILED only without one.
Complete(t) == /\ Move(t, "DISPATCHED", "COMPLETED")
               /\ replies[t] = 1
               /\ UNCHANGED <<owner, replies, sess, entries>>

Fail(t) == /\ Move(t, "DISPATCHED", "FAILED")
           /\ replies[t] = 0
           /\ UNCHANGED <<owner, replies, sess, entries>>

\* A session row is written by discover or a worker's boot, or cleared or cleaned.
SessionChanges == /\ \E p \in Providers : sess' \in {sess \cup {p}, sess \ {p}}
                  /\ UNCHANGED <<rows, entries>>

\* A worker has opened its page, or has closed it on its way out.
EntryChanges == /\ \E p \in Providers : entries' \in {entries \cup {p}, entries \ {p}}
                /\ UNCHANGED <<rows, sess>>

\* The server starts again: the pool is empty and _purge_all_tasks empties the table.
Purge == /\ status' = [t \in Tasks |->
                         IF status[t] = "absent" THEN "absent" ELSE "purged"]
         /\ entries' = {}
         /\ UNCHANGED <<owner, replies, sess>>

Next == \/ \E t \in Tasks : \/ Submit(t) \/ Reject(t) \/ Claim(t)
                            \/ Answer(t) \/ Complete(t) \/ Fail(t)
        \/ SessionChanges \/ EntryChanges \/ Purge

Spec == Init /\ [][Next]_vars
=============================================================================
