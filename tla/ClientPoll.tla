----------------------------- MODULE ClientPoll -----------------------------
(***************************************************************************)
(* A client posts one task and polls it until it has a final status, while *)
(* the tasks table moves as TaskPool promises, session rows and pool       *)
(* entries come and go, and the server may be started again.  A poll is    *)
(* not one transaction: the row, its reply, the session rows and the pool  *)
(* entries are read one after the other.                                   *)
(***************************************************************************)
EXTENDS Naturals

CONSTANTS Tasks,      \* one client for each
          Idents,
          Providers,
          None,
          MaxChanges  \* bound: session rows and pool entries that come or go

ASSUME ClientAssumption == MaxChanges \in Nat /\ None \notin Idents

VARIABLES
    status, owner, replies,  \* the rows, the session rows and the keys of the pool,
    sess, entries,           \*   as in TaskPool
    json,      \* tasks whose reply holds a JSON object
    at,        \* where the client's request is, or the client between requests
    api,       \* the endpoint of that request: get_task or get_task_result
    row, raw,  \* locals of the handler: the status it read, whether it found a reply
    listed,    \* locals of the handler: sessions it has still to look up in the pool
    told,      \* the last answer the client got
    late,      \* clients whose timeout_seconds have passed
    left       \* what is left of MaxChanges

poolVars == <<status, owner, replies>>
envVars  == <<sess, entries, left>>
vars == <<poolVars, json, envVars, at, api, row, raw, listed, told, late>>

Pool == INSTANCE TaskPool
            WITH Tasks <- Tasks, Idents <- Idents, Providers <- Providers, None <- None,
                 status <- status, owner <- owner, replies <- replies,
                 sess <- sess, entries <- entries

Open  == {"PENDING", "DISPATCHED"}
Final == {"COMPLETED", "FAILED", "CRITICAL"}
Unknown  == [status |-> "unknown", reply |-> FALSE, json |-> FALSE]

InRequest(t) == at[t] \in {"posting", "get", "reply", "sessions", "entries"}

Init == /\ Pool!Init
        /\ json \in SUBSET Tasks
        /\ at = [t \in Tasks |-> "new"]
        /\ api \in [Tasks -> {"task", "result"}]
        /\ row = [t \in Tasks |-> "unknown"] /\ raw = [t \in Tasks |-> FALSE]
        /\ listed = [t \in Tasks |-> {}]
        /\ told = [t \in Tasks |-> Unknown]
        /\ late = {}
        /\ left = MaxChanges

Go(t, place) == at' = [at EXCEPT ![t] = place]
-----------------------------------------------------------------------------
(* Creating the task.                                                      *)

Post(t) == /\ at[t] = "new"
           /\ Pool!Submit(t)
           /\ Go(t, "posting")
           /\ UNCHANGED <<json, envVars, api, row, raw, listed, told, late>>

\* 201 with the row, once a row without an owner has become CRITICAL.
Posted(t) == /\ at[t] = "posting"
             /\ status[t] = "CRITICAL" \/ owner[t] # None
             /\ Go(t, "asking")
             /\ UNCHANGED <<poolVars, json, envVars, api, row, raw, listed, told, late>>

\* Any other status code: raise_for_status ends the client.
Raise(t) == /\ Go(t, "raised")
            /\ UNCHANGED <<poolVars, json, envVars, api, row, raw, listed, told, late>>

\* create_task's second transaction fails.
PostFails(t) == at[t] = "posting" /\ owner[t] = None /\ status[t] = "PENDING" /\ Raise(t)
-----------------------------------------------------------------------------
(* get_task and get_task_result.                                           *)

Ask(t) == /\ at[t] = "asking"
          /\ Go(t, "get")
          /\ UNCHANGED <<poolVars, json, envVars, api, row, raw, listed, told, late>>

\* The row is gone: 404 from one endpoint, 500 from the other, which catches its
\* own 404; either ends the client.
NotFound(t) == at[t] = "get" /\ status[t] = "purged" /\ Raise(t)

ReadRow(t) == /\ at[t] = "get"
              /\ status[t] # "purged"
              /\ row' = [row EXCEPT ![t] = status[t]]
              /\ Go(t, "reply")
              /\ UNCHANGED <<poolVars, json, envVars, api, raw, listed, told, late>>

Answer(t, s, found) ==
    /\ told' = [told EXCEPT ![t] = [status |-> s, reply |-> found,
                                     json |-> found /\ t \in json]]
    /\ Go(t, "told")

\* Bug variant for the checks: the status is read again after the reply.
ReadReplyFirst(t) ==
    /\ at[t] = "reply"
    /\ status[t] # "purged"
    /\ raw' = [raw EXCEPT ![t] = row[t] = "COMPLETED"]
    /\ row' = [row EXCEPT ![t] = status[t]]
    /\ IF status[t] \in Open /\ api[t] = "task"
       THEN Go(t, "sessions") /\ UNCHANGED told
       ELSE Answer(t, status[t], raw'[t])
    /\ UNCHANGED <<poolVars, json, envVars, api, listed, late>>

\* _build_task_payload: the latest raw response, its JSON or an extract_error, and
\* reads that find nothing.  Only get_task looks at the sessions, and only while
\* the row it read was not final.
ReadReply(t) ==
    /\ at[t] = "reply"
    /\ raw' = [raw EXCEPT ![t] = replies[t] = 1]
    /\ IF row[t] \in Open /\ api[t] = "task"
       THEN Go(t, "sessions") /\ UNCHANGED told
       ELSE Answer(t, row[t], raw'[t])
    /\ UNCHANGED <<poolVars, json, envVars, api, row, listed, late>>

\* _all_sessions_unhealthy_or_unavailable: the session rows first,
ReadSessions(t) ==
    /\ at[t] = "sessions"
    /\ listed' = [listed EXCEPT ![t] = sess]
    /\ IF sess = {} THEN Answer(t, "CRITICAL", raw[t])
                    ELSE Go(t, "entries") /\ UNCHANGED told
    /\ UNCHANGED <<poolVars, json, envVars, api, row, raw, late>>

\* then the pool, one session after the other, until one has an entry.
ReadEntry(t) ==
    /\ at[t] = "entries"
    /\ \E p \in listed[t] :
          /\ listed' = [listed EXCEPT ![t] = @ \ {p}]
          /\ IF p \in entries THEN Answer(t, row[t], raw[t])
             ELSE IF listed[t] = {p} THEN Answer(t, "CRITICAL", raw[t])
             ELSE UNCHANGED <<at, told>>
    /\ UNCHANGED <<poolVars, json, envVars, api, row, raw, late>>
-----------------------------------------------------------------------------
(* The client's loop.                                                      *)

\* Bug variant for the checks: any answer with a reply ends the loop.
DecideOnReply(t) ==
    /\ at[t] = "told"
    /\ Go(t, IF told[t].status \in Final \/ told[t].reply THEN "final"
             ELSE IF t \in late THEN "timeout" ELSE "asking")
    /\ UNCHANGED <<poolVars, json, envVars, api, row, raw, listed, told, late>>

\* Bug variant for the checks: the deadline is never looked at.
DecideForever(t) ==
    /\ at[t] = "told"
    /\ Go(t, IF told[t].status \in Final THEN "final" ELSE "asking")
    /\ UNCHANGED <<poolVars, json, envVars, api, row, raw, listed, told, late>>

\* A final status ends the loop, then the deadline does, else it asks again later.
Decide(t) ==
    /\ at[t] = "told"
    /\ Go(t, IF told[t].status \in Final THEN "final"
             ELSE IF t \in late THEN "timeout" ELSE "asking")
    /\ UNCHANGED <<poolVars, json, envVars, api, row, raw, listed, told, late>>

TimePasses(t) == /\ at[t] \notin {"new", "final", "timeout", "raised"}
                 /\ t \notin late
                 /\ late' = late \cup {t}
                 /\ UNCHANGED <<poolVars, json, envVars, at, api, row, raw, listed, told>>
-----------------------------------------------------------------------------
(* The server under it.                                                    *)

\* Bug variant for the checks: a worker gives a task back before it answers.
DispatchReleases(t) == /\ \/ Pool!Claim(t) \/ Pool!Answer(t) \/ Pool!Complete(t)
                          \/ /\ status[t] = "DISPATCHED" /\ replies[t] = 0
                             /\ status' = [status EXCEPT ![t] = "PENDING"]
                             /\ UNCHANGED <<owner, replies>>
                       /\ UNCHANGED <<json, envVars, at, api, row, raw, listed, told, late>>

\* What workers and create_task do to the rows.
Dispatch(t) == /\ \/ Pool!Reject(t) /\ at[t] = "posting"
                  \/ Pool!Claim(t) \/ Pool!Answer(t)
                  \/ Pool!Complete(t) \/ Pool!Fail(t)
               /\ UNCHANGED <<json, envVars, at, api, row, raw, listed, told, late>>

Spend == left > 0 /\ left' = left - 1

\* Session rows and pool entries come and go.
Change == /\ Pool!SessionChanges \/ Pool!EntryChanges
          /\ Spend
          /\ UNCHANGED <<json, at, api, row, raw, listed, told, late>>

\* The server stops and starts: requests in progress break off too.
Restart == /\ Pool!Purge
           /\ Spend
           /\ at' = [t \in Tasks |-> IF InRequest(t) THEN "raised" ELSE at[t]]
           /\ UNCHANGED <<json, api, row, raw, listed, told, late>>
-----------------------------------------------------------------------------
Request(t) == \/ PostFails(t) \/ Posted(t) \/ NotFound(t) \/ ReadRow(t)
              \/ ReadReply(t) \/ ReadSessions(t) \/ ReadEntry(t)
Client(t)  == Post(t) \/ Ask(t) \/ Decide(t)

Next == \/ \E t \in Tasks : Client(t) \/ Request(t) \/ TimePasses(t) \/ Dispatch(t)
        \/ Change \/ Restart

Spec == Init /\ [][Next]_vars

\* A handler runs to its end, the client asks again after its pause, time passes;
\* nothing is assumed of the workers.
Fairness == \A t \in Tasks : /\ WF_vars(Request(t))
                             /\ WF_vars(Ask(t) \/ Decide(t))
                             /\ WF_vars(TimePasses(t))

FairSpec == Spec /\ Fairness
-----------------------------------------------------------------------------
\* Every variable keeps its type.
TypeOK ==
    /\ status \in [Tasks -> Pool!Statuses]
    /\ owner \in [Tasks -> Idents \cup {None}] /\ replies \in [Tasks -> {0, 1}]
    /\ json \subseteq Tasks /\ sess \subseteq Providers /\ entries \subseteq Providers
    /\ at \in [Tasks -> {"new", "posting", "asking", "get", "reply", "sessions",
                         "entries", "told", "final", "timeout", "raised"}]
    /\ api \in [Tasks -> {"task", "result"}]
    /\ row \in [Tasks -> Open \cup Final \cup {"unknown"}]
    /\ raw \in [Tasks -> BOOLEAN] /\ listed \in [Tasks -> SUBSET Providers]
    /\ told \in [Tasks -> [status : Open \cup Final \cup {"unknown"},
                           reply : BOOLEAN, json : BOOLEAN]]
    /\ late \subseteq Tasks /\ left \in 0..MaxChanges

\* The row and its reply are read in two transactions, in this order: a COMPLETED
\* answer always carries a reply, and a FAILED or rejected one never does
\* (_build_task_payload against the worker that stores and then marks).
AnswerIsWhole ==
    \A t \in Tasks : /\ told[t].status = "COMPLETED" => told[t].reply
                     /\ told[t].status = "FAILED" => ~told[t].reply

\* A client stops with the status that its row keeps until the table is purged,
\* however old the reads of its last poll are.  The one verdict that may be wrong is a
\* CRITICAL that get_task has made up itself, from a row that was still open.
VerdictHolds ==
    \A t \in Tasks : at[t] = "final" =>
        \/ status[t] \in {told[t].status, "purged"}
        \/ told[t].status = "CRITICAL" /\ api[t] = "task" /\ row[t] \in Open

Rank(s) == CASE s = "unknown" -> 0 [] s = "PENDING" -> 1 [] s = "DISPATCHED" -> 2
             [] OTHER -> 3

\* From one poll to the next a client never sees its task go backwards.
NeverBackwards ==
    [][\A t \in Tasks : Rank(told'[t].status) >= Rank(told[t].status)]_vars

\* Whatever becomes of the workers and the server, a client that has posted comes to
\* an end: an answer, a timeout or an error.
EveryClientEnds ==
    \A t \in Tasks : at[t] # "new" ~> at[t] \in {"final", "timeout", "raised"}
=============================================================================
