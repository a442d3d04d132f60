------------------------------ MODULE EventPage -----------------------------
(***************************************************************************)
(* The event page: the hook useEventPolling, the buttons of                *)
(* EventDetailPage, and the requests between them and the API.             *)
(*                                                                         *)
(* The page shows the last answer that arrived, and its timer runs while   *)
(* that answer says the event is active.  Requests are not aborted, so     *)
(* they are read by the server and answered in any order; an answer may    *)
(* be for the event the page was on before.  The server reads an event in  *)
(* two steps (EventsHandler.Get): the row of the event, then its jobs.     *)
(*                                                                         *)
(* The server's side is as much of Dispatch as the page can tell apart: a  *)
(* version of the jobs of each event, and whether the event is active or   *)
(* over.  An event that is over may be worked on again: because it is      *)
(* re-run (rerun), or, without anybody asking (late), because a message is *)
(* delivered again after a crash between rollup and acknowledgement, or    *)
(* because a rollup that counted earlier writes last (rollup_race).        *)
(***************************************************************************)
EXTENDS Integers

CONSTANTS Ids,         \* event identifiers
          First,       \* the event the page is opened on
          Slots,       \* bound: requests in flight
          MaxVersion,  \* bound: changes to the jobs of each event
          MaxLate,     \* bound: changes by workers to each event once it is over
          MaxAgain,    \* bound: those, and re-runs of each event, together
          MaxFailures, \* bound: requests that fail
          Buttons,     \* what the user may press: "refresh", "rerun", "clone"
          None

ASSUME PageAssumption == /\ First \in Ids
                         /\ MaxVersion \in [Ids -> Nat]
                         /\ MaxAgain \in [Ids -> Nat]
                         /\ MaxLate \in [Ids -> Nat]
                         /\ MaxFailures \in Nat
                         /\ None \notin Ids

VARIABLES
    version,   \* server: how often the jobs of an event have changed
    status,    \* server: "none", "active" or "terminal", for each event
    rerun,     \* history: how often each event was re-run
    late,      \* history: how often workers changed each event after it was over
    page,      \* the event id in the URL
    shown,     \* the state event of the hook: an answer, or None
    requests,  \* each slot: a GET in flight, or None
    action,    \* the button whose POST is in flight, or None
    error,     \* whether the page shows an error
    failures   \* how many requests have failed

serverVars == <<version, status, rerun, late>>
vars == <<serverVars, page, shown, requests, action, error, failures>>

Answer  == [id : Ids, status : {"active", "terminal"}, version : Nat]
Request == [kind : {"initial", "poll", "refresh"}, id : Ids,
            status : {"unread", "active", "terminal"}, version : Nat \cup {None}]
Action  == [button : {"rerun", "clone"}, id : Ids,
            stage : {"sent", "reset", "answered"}, next : Ids \cup {None}]

TypeOK ==
    /\ version \in [Ids -> Nat]
    /\ status \in [Ids -> {"none", "active", "terminal"}]
    /\ rerun \in [Ids -> Nat]
    /\ late \in [Ids -> Nat]
    /\ page \in Ids
    /\ shown \in Answer \cup {None}
    /\ requests \in [Slots -> Request \cup {None}]
    /\ action \in Action \cup {None}
    /\ error \in {"none", "shown"}
    /\ failures \in Nat

NewRequest(kind, id) == [kind |-> kind, id |-> id, status |-> "unread", version |-> None]

\* The page is opened; the effect on load has sent its first request.
Init ==
    /\ version = [e \in Ids |-> 0]
    /\ status = [e \in Ids |-> IF e = First THEN "active" ELSE "none"]
    /\ rerun = [e \in Ids |-> 0]
    /\ late = [e \in Ids |-> 0]
    /\ page = First
    /\ shown = None
    /\ \E s \in Slots :
          requests = [x \in Slots |-> IF x = s THEN NewRequest("initial", First) ELSE None]
    /\ action = None
    /\ error = "none"
    /\ failures = 0

-----------------------------------------------------------------------------
(* The server.                                                             *)

\* A worker changes an event that is over.
CountLate(e) ==
    IF status[e] = "terminal"
    THEN /\ late[e] < MaxLate[e]
         /\ rerun[e] + late[e] < MaxAgain[e]
         /\ late' = [late EXCEPT ![e] = @ + 1]
    ELSE UNCHANGED late

\* A job changes its status, its output or its checks, whatever its event says.
JobStep(e) ==
    /\ status[e] # "none"
    /\ version[e] < MaxVersion[e]
    /\ version' = [version EXCEPT ![e] = @ + 1]
    /\ CountLate(e)
    /\ UNCHANGED <<status, rerun, page, shown, requests, action, error, failures>>

\* RollupEvent gives the event a terminal status.
EventEnds(e) ==
    /\ status[e] = "active"
    /\ status' = [status EXCEPT ![e] = "terminal"]
    /\ UNCHANGED <<version, rerun, late, page, shown, requests, action, error, failures>>

\* An event that is over is set RUNNING: by Handle, when a job is delivered
\* again, or by a RollupEvent that counted before the last one.
EventRunsAgain(e) ==
    /\ status[e] = "terminal"
    /\ CountLate(e)
    /\ status' = [status EXCEPT ![e] = "active"]
    /\ UNCHANGED <<version, rerun, page, shown, requests, action, error, failures>>

SetRequest(s, r) == requests' = [requests EXCEPT ![s] = r]

\* Mutant: Get lists the jobs before it reads the event.
JobsFirst(s) ==
    /\ requests[s] # None
    /\ requests[s].version = None
    /\ SetRequest(s, [requests[s] EXCEPT !.version = version[requests[s].id]])
    /\ UNCHANGED <<serverVars, page, shown, action, error, failures>>
EventLast(s) ==
    /\ requests[s] # None
    /\ requests[s].status = "unread"
    /\ requests[s].version # None
    /\ SetRequest(s, [requests[s] EXCEPT !.status = status[requests[s].id]])
    /\ UNCHANGED <<serverVars, page, shown, action, error, failures>>
GetEitherOrder(s) == JobsFirst(s) \/ EventLast(s)

\* EventsHandler.Get: GetEvent ...
GetEvent(s) ==
    /\ requests[s] # None
    /\ requests[s].status = "unread"
    /\ SetRequest(s, [requests[s] EXCEPT !.status = status[requests[s].id]])
    /\ UNCHANGED <<serverVars, page, shown, action, error, failures>>

\* ... and ListJobsForEvent.
ListJobs(s) ==
    /\ requests[s] # None
    /\ requests[s].status # "unread"
    /\ requests[s].version = None
    /\ SetRequest(s, [requests[s] EXCEPT !.version = version[requests[s].id]])
    /\ UNCHANGED <<serverVars, page, shown, action, error, failures>>

-----------------------------------------------------------------------------
(* The hook.                                                               *)

\* Mutant: a QUEUED event counts as at rest.
TimerIfStarted == shown # None /\ shown.status = "active" /\ shown.version > 0

\* The effect on event.status keeps an interval timer exactly while the event
\* shown is active.
Timer == shown # None /\ shown.status = "active"

\* Mutant: the timer asks again for the event that is shown.
TickShown(s) ==
    /\ Timer
    /\ requests[s] = None
    /\ SetRequest(s, NewRequest("poll", shown.id))
    /\ UNCHANGED <<serverVars, page, shown, action, error, failures>>

\* The timer asks for the event of the page, whatever is shown or in flight.
Tick(s) ==
    /\ Timer
    /\ requests[s] = None
    /\ SetRequest(s, NewRequest("poll", page))
    /\ UNCHANGED <<serverVars, page, shown, action, error, failures>>

Arrived(s) ==
    /\ requests[s] # None
    /\ requests[s].version # None
    /\ requests[s].status # "unread"

\* An answer arrives: load calls setEvent with it.
Receive(s) ==
    /\ Arrived(s)
    /\ shown' = [id |-> requests[s].id, status |-> requests[s].status,
                 version |-> requests[s].version]
    /\ SetRequest(s, None)
    /\ error' = IF requests[s].kind = "refresh" THEN "none" ELSE error
    /\ UNCHANGED <<serverVars, page, action, failures>>

\* A request fails.  A poll that fails is not mentioned.
Fail(s) ==
    /\ requests[s] # None
    /\ failures < MaxFailures
    /\ failures' = failures + 1
    /\ SetRequest(s, None)
    /\ error' = IF requests[s].kind = "poll" THEN error ELSE "shown"
    /\ UNCHANGED <<serverVars, page, shown, action>>

-----------------------------------------------------------------------------
(* The buttons.  All of them need an event on the page and no other action *)
(* in flight (busy); whether a job of it has failed is left open.          *)

Enabled(button) == button \in Buttons /\ shown # None /\ action = None

Refresh(s) ==
    /\ Enabled("refresh")
    /\ requests[s] = None
    /\ SetRequest(s, NewRequest("refresh", page))
    /\ UNCHANGED <<serverVars, page, shown, action, error, failures>>

\* run: the POST is about the event that is shown.
Press(button) ==
    /\ Enabled(button)
    /\ action' = [button |-> button, id |-> shown.id, stage |-> "sent", next |-> None]
    /\ error' = "none"
    /\ UNCHANGED <<serverVars, page, shown, requests, failures>>

\* The server re-runs an event, the first statement of ResetFailedJobs: failed
\* jobs are queued again, if there are any by now ...
ResetJobs ==
    /\ action # None
    /\ action.button = "rerun" /\ action.stage = "sent"
    /\ rerun[action.id] + late[action.id] < MaxAgain[action.id]
    /\ rerun' = [rerun EXCEPT ![action.id] = @ + 1]
    /\ \/ /\ version[action.id] < MaxVersion[action.id]
          /\ version' = [version EXCEPT ![action.id] = @ + 1]
       \/ UNCHANGED version
    /\ action' = [action EXCEPT !.stage = "reset"]
    /\ UNCHANGED <<status, late, page, shown, requests, error, failures>>

\* ... and the second: the event is RUNNING.
ResetEvent ==
    /\ action # None
    /\ action.stage = "reset"
    /\ status' = [status EXCEPT ![action.id] = "active"]
    /\ action' = [action EXCEPT !.stage = "answered", !.next = action.id]
    /\ UNCHANGED <<version, rerun, late, page, shown, requests, error, failures>>

\* Clone and rollback create another event, which is active.
ServeClone(e) ==
    /\ action # None
    /\ action.button = "clone" /\ action.stage = "sent"
    /\ status[e] = "none"
    /\ status' = [status EXCEPT ![e] = "active"]
    /\ action' = [action EXCEPT !.stage = "answered", !.next = e]
    /\ UNCHANGED <<version, rerun, late, page, shown, requests, error, failures>>

\* Mutant: the page goes on before the answer.
NavigateEarly(s) ==
    /\ action # None
    /\ page' = action.next
    /\ action' = None
    /\ UNCHANGED <<serverVars, shown, requests, error, failures>>

\* The POST has succeeded: navigate to the event it returned.  Another id makes
\* another load, whose effect sends a request; the same id changes nothing.
Navigate(s) ==
    /\ action # None
    /\ action.next # None
    /\ page' = action.next
    /\ IF action.next = page
       THEN UNCHANGED requests
       ELSE requests[s] = None /\ SetRequest(s, NewRequest("initial", action.next))
    /\ action' = None
    /\ UNCHANGED <<serverVars, shown, error, failures>>

\* The POST has failed, before, between or after the statements of the server.
ActionFails ==
    /\ action # None
    /\ failures < MaxFailures
    /\ failures' = failures + 1
    /\ action' = None
    /\ error' = "shown"
    /\ UNCHANGED <<serverVars, page, shown, requests>>

-----------------------------------------------------------------------------
ServerNext == \/ ResetJobs \/ ResetEvent
              \/ \E e \in Ids : JobStep(e) \/ EventEnds(e) \/ EventRunsAgain(e) \/ ServeClone(e)

RequestNext(s) == GetEvent(s) \/ ListJobs(s) \/ Receive(s)

UserNext == (\E b \in {"rerun", "clone"} : Press(b)) \/ \E s \in Slots : Refresh(s)

Next == \/ ServerNext
        \/ \E s \in Slots : Tick(s) \/ RequestNext(s) \/ Fail(s) \/ Navigate(s)
        \/ UserNext \/ ActionFails

Spec == Init /\ [][Next]_vars

\* The browser runs its timer, and requests are served and answered; users and
\* the server's jobs are under no obligation.
Fairness ==
    /\ WF_vars(\E s \in Slots : Tick(s))
    /\ \A s \in Slots : WF_vars(RequestNext(s))

FairSpec == Spec /\ Fairness

-----------------------------------------------------------------------------
(* Properties.                                                             *)

\* Nobody re-ran the event, and no worker has touched it after it was over.
Untouched(e) == rerun[e] = 0 /\ late[e] = 0

\* A page at rest shows the final result: when what is shown says the event is
\* over, its jobs are the ones the server ended with, in whatever order the
\* answers came, until the event is re-run or a worker changes it once more (a
\* job delivered again, a rollup that lost the race).  It rests on the order of
\* the two reads of EventsHandler.Get.
RestShowsResult ==
    shown # None => (shown.status = "terminal" /\ Untouched(shown.id) =>
        shown.version = version[shown.id])

Fresh == /\ shown # None
         /\ shown.id = page
         /\ shown.version = version[page]
         /\ shown.status = status[page]

\* As long as the user stays on the page, nothing is re-run and no worker changes
\* the event after it was over, polling catches up with the server for good,
\* although answers overtake each other, the user refreshes and some polls fail,
\* unless the page reports an error.
CatchesUp == <>[](page = First /\ Untouched(First) => Fresh \/ error = "shown")

\* Whatever was pressed, whatever workers do to events that are over, and even
\* while an answer for the previous event is on display: as long as the timer
\* runs, the page gets to the server's state.  A timer that has stopped is
\* another matter (PollsWhileActive).
TimerHeals == Timer ~> (Fresh \/ ~ Timer)

-----------------------------------------------------------------------------
(* What ARCHITECTURE.md says and the page does not keep.                   *)

\* "Event detail polls every 1.5s while jobs are active": while the event of the
\* page is active and nothing is on its way, and no error is shown, the timer
\* runs.
PollsWhileActive ==
    /\ status[page] = "active"
    /\ \A s \in Slots : requests[s] = None
    /\ action = None
    /\ error = "none"
    => Timer
=============================================================================
