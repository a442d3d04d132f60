------------------------------ MODULE ConnPool ------------------------------
(***************************************************************************)
(* The API's requests and the connection pool they share (internal/db over *)
(* pgxpool): whoever finds no idle connection waits, first come first      *)
(* served, without a time limit.                                           *)
(*                                                                         *)
(* Every statement of Store takes a connection and gives it back when it   *)
(* has been read, except the one of ListJobsForEvent: its rows stay open   *)
(* while ListChecksForJob asks the pool for another connection, once per   *)
(* row.  A handler is the list of its statements; what they read or write  *)
(* is not modelled here, only that they may fail.                          *)
(***************************************************************************)
EXTENDS Sequences, FiniteSets, Naturals

CONSTANTS Requests,  \* requests that may be handled at the same time
          Conns,     \* the connections of the pool
          MaxJobs,   \* bound: jobs of the event that is listed
          None       \* no connection

ASSUME PoolAssumption == /\ IsFiniteSet(Conns) /\ Conns # {}
                         /\ IsFiniteSet(Requests)
                         /\ MaxJobs \in Nat
                         /\ None \notin Conns

VARIABLES
    todo,     \* the statements each handler still has to run; <<>>: no request
    rows,     \* the rows its open listing has yet to read
    outer,    \* the connection of its statement
    inner,    \* the second connection, of ListChecksForJob
    waiting   \* the handlers that wait in pool.Acquire, in order

vars == <<todo, rows, outer, inner, waiting>>

\* "one" is a statement that takes one connection until it has been read, a
\* transaction included; "reset" is the one of ResetFailedJobs, before its
\* UpdateEventStatus; "jobs" the one of ListJobsForEvent; "row" the INSERT of a
\* row of BulkCreate, which goes on with the next row when it fails.
Statement == {"one", "row", "reset", "jobs"}

\* All but Login begin with the GetUserByID of RequireAuth, the admin's lists do
\* so twice.  GetEvent is two statements.  Create is for one instance: it looks
\* up the owner of each.  Bulk is for two rows.
Login  == <<"one">>
Simple == <<"one", "one">>                                    \* lists; instances
Admin  == <<"one", "one", "one">>
Bulk   == <<"one", "row", "row">>
Get    == <<"one", "one", "one", "jobs">>
Create == <<"one", "one", "one", "one">>
Rerun  == <<"one", "one", "reset", "one", "one", "one">>
Clone  == <<"one", "one", "one", "one", "one", "one", "one">> \* RollbackJob, too

Handlers == {Login, Simple, Admin, Bulk, Get, Create, Rerun, Clone}

InLine == {waiting[i] : i \in 1..Len(waiting)}

\* The requests whose listing is open.
Listing == {r \in Requests : todo[r] # <<>> /\ Head(todo[r]) = "jobs" /\ outer[r] # None}

InUse == {outer[r] : r \in Requests} \cup {inner[r] : r \in Requests}

TypeOK ==
    /\ todo \in [Requests -> Seq(Statement)]
    /\ rows \in [Requests -> 0..MaxJobs]
    /\ outer \in [Requests -> Conns \cup {None}]
    /\ inner \in [Requests -> Conns \cup {None}]
    /\ waiting \in Seq(Requests)

Init ==
    /\ todo = [r \in Requests |-> <<>>]
    /\ rows = [r \in Requests |-> 0]
    /\ outer = [r \in Requests |-> None]
    /\ inner = [r \in Requests |-> None]
    /\ waiting = <<>>

-----------------------------------------------------------------------------
Arrive(r, h) ==
    /\ todo[r] = <<>>
    /\ todo' = [todo EXCEPT ![r] = h]
    /\ UNCHANGED <<rows, outer, inner, waiting>>

\* Mutant: the reset is still open when the event is marked.
NestedMark(r) ==
    /\ todo[r] # <<>> /\ r \notin InLine
    /\ \/ outer[r] = None
       \/ Head(todo[r]) = "reset" /\ inner[r] = None /\ rows[r] = 0
    /\ waiting' = Append(waiting, r)
    /\ UNCHANGED <<todo, rows, outer, inner>>

\* The next statement asks for a connection.
Acquire(r) ==
    /\ todo[r] # <<>> /\ r \notin InLine
    /\ outer[r] = None
    /\ waiting' = Append(waiting, r)
    /\ UNCHANGED <<todo, rows, outer, inner>>

\* So does ListChecksForJob, for a row that was just read.
AcquireSecond(r) ==
    /\ r \in Listing /\ r \notin InLine
    /\ rows[r] > 0
    /\ inner[r] = None
    /\ waiting' = Append(waiting, r)
    /\ UNCHANGED <<todo, rows, outer, inner>>

\* Mutant: whoever came last is served first.
GrantLast(k) ==
    /\ waiting # <<>>
    /\ k \notin InUse
    /\ LET r == waiting[Len(waiting)] IN
          IF outer[r] # None
          THEN inner' = [inner EXCEPT ![r] = k] /\ UNCHANGED <<outer, rows>>
          ELSE /\ outer' = [outer EXCEPT ![r] = k]
               /\ IF Head(todo[r]) = "jobs"
                  THEN \E n \in 1..MaxJobs : rows' = [rows EXCEPT ![r] = n]
                  ELSE UNCHANGED rows
               /\ UNCHANGED inner
    /\ waiting' = SubSeq(waiting, 1, Len(waiting) - 1)
    /\ UNCHANGED todo

\* An idle connection goes to the handler at the head of the line.
Grant(k) ==
    /\ waiting # <<>>
    /\ k \notin InUse
    /\ LET r == Head(waiting) IN
          IF outer[r] # None
          THEN inner' = [inner EXCEPT ![r] = k] /\ UNCHANGED <<outer, rows>>
          ELSE /\ outer' = [outer EXCEPT ![r] = k]
               /\ IF Head(todo[r]) = "jobs"
                  THEN \E n \in 1..MaxJobs : rows' = [rows EXCEPT ![r] = n]
                  ELSE UNCHANGED rows
               /\ UNCHANGED inner
    /\ waiting' = Tail(waiting)
    /\ UNCHANGED todo

\* Mutant: the checks' connection is given back once more at the end.
ReleaseTwice(r) ==
    /\ r \in Listing /\ r \notin InLine
    /\ inner' = [inner EXCEPT ![r] = None]
    /\ rows' = [rows EXCEPT ![r] = @ - 1]
    /\ UNCHANGED <<todo, outer, waiting>>

\* The checks of a row have been read; on to the next row.
ReleaseSecond(r) ==
    /\ inner[r] # None
    /\ inner' = [inner EXCEPT ![r] = None]
    /\ rows' = [rows EXCEPT ![r] = @ - 1]
    /\ UNCHANGED <<todo, outer, waiting>>

\* A statement has been read to its end, or a row has failed; after the last
\* one, the answer.
Release(r) ==
    /\ outer[r] # None /\ r \notin InLine
    /\ r \in Listing => rows[r] = 0
    /\ inner[r] = None
    /\ outer' = [outer EXCEPT ![r] = None]
    /\ todo' = [todo EXCEPT ![r] = Tail(@)]
    /\ UNCHANGED <<rows, inner, waiting>>

\* Mutant: ListJobsForEvent does not close its rows when ListChecksForJob fails.
FailOpen(r) ==
    /\ outer[r] # None /\ r \notin InLine
    /\ Head(todo[r]) # "row"
    /\ todo' = [todo EXCEPT ![r] = <<>>]
    /\ rows' = [rows EXCEPT ![r] = 0]
    /\ inner' = [inner EXCEPT ![r] = None]
    /\ outer' = IF inner[r] = None THEN [outer EXCEPT ![r] = None] ELSE outer
    /\ UNCHANGED waiting

\* A statement fails and so does the request, but for a row.  What it holds is
\* given back on the way out: rows.Close and tx.Rollback are deferred.
Fail(r) ==
    /\ outer[r] # None /\ r \notin InLine
    /\ Head(todo[r]) # "row"
    /\ todo' = [todo EXCEPT ![r] = <<>>]
    /\ rows' = [rows EXCEPT ![r] = 0]
    /\ inner' = [inner EXCEPT ![r] = None]
    /\ outer' = [outer EXCEPT ![r] = None]
    /\ UNCHANGED waiting

-----------------------------------------------------------------------------
HandlerStep(r) == Acquire(r) \/ AcquireSecond(r) \/ ReleaseSecond(r) \/ Release(r)

Next ==
    \/ \E r \in Requests : HandlerStep(r) \/ Fail(r) \/ \E h \in Handlers : Arrive(r, h)
    \/ \E k \in Conns : Grant(k)

Spec == Init /\ [][Next]_vars

\* Handlers run, statements return, and the pool hands out what it has.
Fairness == /\ \A r \in Requests : WF_vars(HandlerStep(r))
            /\ WF_vars(\E k \in Conns : Grant(k))

FairSpec == Spec /\ Fairness

-----------------------------------------------------------------------------
(* Properties.                                                             *)

\* As many listings are open as there are connections.
Crowded == Cardinality(Listing) >= Cardinality(Conns)

\* A connection is never lent twice, and never kept by a request that is over.
ConnsAccounted ==
    /\ \A r, s \in Requests : r # s => /\ outer[r] # None => outer[r] # outer[s]
                                       /\ inner[r] # None => inner[r] # inner[s]
    /\ \A r, s \in Requests : inner[r] # None => inner[r] # outer[s]
    /\ \A r \in Requests : todo[r] = <<>> => outer[r] = None /\ inner[r] = None

\* Unless it is crowded, the requests in line do not all wait for each other:
\* there is an idle connection, or one whose holder is at work and will give it
\* back.  It is about every path on which a handler asks for a connection
\* while it has one.
NoGridlock ==
    waiting # <<>> /\ ~ Crowded =>
        \/ \E k \in Conns : k \notin InUse
        \/ \E r \in Requests : outer[r] # None /\ r \notin InLine

\* Every request is answered, or at some time it was crowded: the line is
\* fair, no failure keeps a connection, and no other handler nests its
\* statements.
Answered == \A r \in Requests : todo[r] # <<>> ~> (todo[r] = <<>> \/ Crowded)

\* "non-blocking API" (ARCHITECTURE.md, why RabbitMQ): every request is answered.
AlwaysAnswered == \A r \in Requests : todo[r] # <<>> ~> todo[r] = <<>>
=============================================================================
