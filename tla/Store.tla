-------------------------------- MODULE Store --------------------------------
(***************************************************************************)
(* The SQLite tables of internal/store as values, and each Tx method as an *)
(* operator from the old table to the new one.  A transaction of the code  *)
(* (Store.Do) is one action of the modules that extend this one: the pool  *)
(* holds a single connection, so transactions are serial, and an error     *)
(* rolls the whole of one back.                                            *)
(*                                                                         *)
(*   orders : external_id -> sd_order_id      (the rows are DOMAIN orders) *)
(*   outbox : a sequence of jobs, a job's position being its id (ids are   *)
(*            AUTOINCREMENT and rows are never deleted)                    *)
(*                                                                         *)
(* next_at is kept as the one bit the worker reads of it: whether the job  *)
(* is due.  The texts (last_error), the source and the creation times are  *)
(* left out here; the modules that need a column add it.                   *)
(***************************************************************************)
EXTENDS Naturals, Sequences, FiniteSets

\* sd_order_id of an order the CRM is not known to have (the column's default).
NoId == 0

JobStates == {"pending", "done", "failed"}

------------------------------------------------------------------------------
(* orders *)

NoOrders == [ext \in {} |-> NoId]

\* INSERT of a new row; a UNIQUE violation leaves the table as it is.
InsertOrder(table, ext) ==
    [x \in DOMAIN table \cup {ext} |->
        IF x \in DOMAIN table THEN table[x] ELSE NoId]

\* Mutant of SetSDOrderID: the external_id condition is missing.
SetSDOrderIDOfAll(table, ext, id) ==
    [x \in DOMAIN table |-> IF table[x] = NoId THEN id ELSE table[x]]

\* Mutant of SetSDOrderID: the sd_order_id=0 condition is missing.
SetSDOrderIDAnyway(table, ext, id) ==
    [x \in DOMAIN table |-> IF x = ext THEN id ELSE table[x]]

\* Records the CRM id, never over one that is already set; no row, no effect.
SetSDOrderID(table, ext, id) ==
    [x \in DOMAIN table |->
        IF x = ext /\ table[x] = NoId THEN id ELSE table[x]]

------------------------------------------------------------------------------
(* outbox *)

HasKey(table, key) == \E i \in DOMAIN table : table[i].key = key

\* A job enters due at once.
NewJob(key, kind, payload) ==
    [key |-> key, kind |-> kind, payload |-> payload,
     state |-> "pending", attempts |-> 0, due |-> TRUE]

\* Mutant of Enqueue: the dedupe key is not unique.
EnqueueAgain(table, key, kind, payload) ==
    Append(table, NewJob(key, kind, payload))

\* An existing dedupe key leaves the outbox as it is.
Enqueue(table, key, kind, payload) ==
    IF HasKey(table, key) THEN table
                          ELSE Append(table, NewJob(key, kind, payload))

IsDue(job) == job.state = "pending" /\ job.due

\* Mutant of DueJobs: LIMIT is one short.
DueJobsShort(table, limit) ==
    LET due == {i \in DOMAIN table : IsDue(table[i])}
    IN  {i \in due : Cardinality({k \in due : k <= i}) < limit}

\* The ids of the first `limit` due jobs, oldest first.
DueJobs(table, limit) ==
    LET due == {i \in DOMAIN table : IsDue(table[i])}
    IN  {i \in due : Cardinality({k \in due : k < i}) < limit}

\* Writes the mutable columns of the caller's copy of the job.
UpdateJob(table, i, job) ==
    [table EXCEPT ![i] = [@ EXCEPT !.state = job.state,
                                   !.attempts = job.attempts,
                                   !.due = job.due]]

\* Mutant of RequeueJob: a state that no query selects.
RequeueJobAsNew(table, i) ==
    IF table[i].state = "failed"
    THEN [table EXCEPT ![i] = [@ EXCEPT !.state = "new", !.attempts = 0]]
    ELSE table

\* Mutant of RequeueJob: the state='failed' condition is missing.
RequeueJobAnyway(table, i) ==
    [table EXCEPT ![i] = [@ EXCEPT !.state = "pending", !.attempts = 0]]

\* Gives a failed job a fresh life; any other job is left alone.
RequeueJob(table, i) ==
    IF table[i].state = "failed"
    THEN [table EXCEPT ![i] = [@ EXCEPT !.state = "pending",
                                        !.attempts = 0,
                                        !.due = TRUE]]
    ELSE table
==============================================================================
