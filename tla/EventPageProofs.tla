--------------------------- MODULE EventPageProofs --------------------------
(***************************************************************************)
(* Theorems about EventPage, for any events, any number of requests in     *)
(* flight, and any number of changes and failures.                         *)
(***************************************************************************)
EXTENDS EventPage, TLAPS

LEMMA NewRequestType ==
    ASSUME NEW kind \in {"initial", "poll", "refresh"}, NEW id \in Ids
    PROVE  NewRequest(kind, id) \in Request
BY DEF NewRequest, Request

\* The page asks only about events that exist, so an answer has a status.
Known ==
    /\ status[page] # "none"
    /\ \A s \in Slots : requests[s] # None => status[requests[s].id] # "none"
    /\ shown # None => status[shown.id] # "none"
    /\ action # None => status[action.id] # "none"
                       /\ (action.next # None => status[action.next] # "none")

\* An event that exists keeps existing.
Remains == \A e \in Ids : status[e] # "none" => status'[e] # "none"

LEMMA EventsRemain == TypeOK /\ [Next]_vars => Remains
<1> SUFFICES ASSUME TypeOK, [Next]_vars PROVE Remains
  OBVIOUS
<1> USE DEF TypeOK, serverVars, Remains
<1>1. ASSUME NEW e \in Ids, JobStep(e) \/ EventEnds(e) \/ EventRunsAgain(e) \/ ServeClone(e)
      PROVE  Remains
  BY <1>1 DEF JobStep, EventEnds, EventRunsAgain, ServeClone
<1>2. CASE ResetJobs \/ ResetEvent
  BY <1>2 DEF ResetJobs, ResetEvent
<1>3. CASE UNCHANGED status
  BY <1>3
<1> QED
  BY <1>1, <1>2, <1>3 DEF Next, ServerNext, RequestNext, UserNext, GetEvent, ListJobs, Receive,
     Fail, Tick, Refresh, Navigate, Press, ActionFails, vars

LEMMA KnownStep == TypeOK /\ Known /\ [Next]_vars => Known'
<1> SUFFICES ASSUME TypeOK, Known, [Next]_vars PROVE Known'
  OBVIOUS
<1>0. Remains
  BY EventsRemain
<1>a. /\ page \in Ids
      /\ shown # None => shown.id \in Ids
      /\ action # None => action.id \in Ids /\ action.next \in Ids \cup {None}
      /\ \A s \in Slots : requests[s] # None => requests[s].id \in Ids
  BY DEF TypeOK, Answer, Action, Request
<1> USE <1>0, <1>a DEF Known, Remains, serverVars, SetRequest
<1>1. ASSUME NEW e \in Ids, JobStep(e) \/ EventEnds(e) \/ EventRunsAgain(e) PROVE Known'
  BY <1>1 DEF JobStep, EventEnds, EventRunsAgain
<1>2. ASSUME NEW e \in Ids, ServeClone(e) PROVE Known'
  BY <1>2 DEF ServeClone, TypeOK, Action
<1>3. CASE ResetJobs \/ ResetEvent
  BY <1>3 DEF ResetJobs, ResetEvent, TypeOK, Action
<1>4. ASSUME NEW s \in Slots, GetEvent(s) \/ ListJobs(s) PROVE Known'
  BY <1>4 DEF GetEvent, ListJobs, TypeOK, Request
<1>5. ASSUME NEW s \in Slots, Receive(s) \/ Fail(s) PROVE Known'
  BY <1>5 DEF Receive, Arrived, Fail, TypeOK
<1>6. ASSUME NEW s \in Slots, Tick(s) \/ Refresh(s) PROVE Known'
  BY <1>6 DEF Tick, Refresh, NewRequest, TypeOK
<1>7. ASSUME NEW s \in Slots, Navigate(s) PROVE Known'
  BY <1>7 DEF Navigate, NewRequest, TypeOK
<1>8. ASSUME NEW b \in {"rerun", "clone"}, Press(b) PROVE Known'
  BY <1>8 DEF Press, Enabled
<1>9. CASE ActionFails
  BY <1>9 DEF ActionFails
<1>10. CASE UNCHANGED vars
  BY <1>10 DEF vars
<1> QED
  BY <1>1, <1>2, <1>3, <1>4, <1>5, <1>6, <1>7, <1>8, <1>9, <1>10
  DEF Next, ServerNext, RequestNext, UserNext

LEMMA PageTypeStep == TypeOK /\ Known /\ [Next]_vars => TypeOK'
<1> SUFFICES ASSUME TypeOK, Known, [Next]_vars PROVE TypeOK'
  OBVIOUS
<1> USE PageAssumption DEF TypeOK, serverVars, SetRequest
<1>1. ASSUME NEW e \in Ids, JobStep(e) \/ EventEnds(e) \/ EventRunsAgain(e) PROVE TypeOK'
  <2>1. late' \in [Ids -> Nat]
    BY <1>1 DEF JobStep, EventEnds, EventRunsAgain, CountLate
  <2> QED
    BY <1>1, <2>1 DEF JobStep, EventEnds, EventRunsAgain
<1>2. ASSUME NEW e \in Ids, ServeClone(e) PROVE TypeOK'
  BY <1>2 DEF ServeClone, Action
<1>11. CASE ResetJobs
  <2>1. version' \in [Ids -> Nat] /\ rerun' \in [Ids -> Nat]
    BY <1>11 DEF ResetJobs, Action
  <2>2. action' \in Action
    BY <1>11 DEF ResetJobs, Action
  <2> QED
    BY <1>11, <2>1, <2>2 DEF ResetJobs
<1>12. CASE ResetEvent
  BY <1>12 DEF ResetEvent, Action
<1>3. ASSUME NEW s \in Slots, GetEvent(s) \/ ListJobs(s) PROVE TypeOK'
  <2>1. requests[s] \in Request
    BY <1>3 DEF GetEvent, ListJobs
  <2>2. CASE GetEvent(s)
    <3>1. status[requests[s].id] \in {"active", "terminal"}
      BY <2>1, <2>2 DEF GetEvent, Known, Request
    <3> QED
      BY <2>1, <2>2, <3>1 DEF GetEvent, Request
  <2>3. CASE ListJobs(s)
    BY <2>1, <2>3 DEF ListJobs, Request
  <2> QED
    BY <1>3, <2>2, <2>3
<1>4. ASSUME NEW s \in Slots, Receive(s) PROVE TypeOK'
  <2>1. requests[s] \in Request
    BY <1>4 DEF Receive, Arrived
  <2>2. shown' \in Answer
    BY <1>4, <2>1 DEF Receive, Arrived, Answer, Request
  <2> QED
    BY <1>4, <2>2 DEF Receive
<1>5. ASSUME NEW s \in Slots, Fail(s) PROVE TypeOK'
  BY <1>5 DEF Fail
<1>6. ASSUME NEW s \in Slots, Tick(s) \/ Refresh(s) PROVE TypeOK'
  BY <1>6, NewRequestType DEF Tick, Refresh
<1>7. ASSUME NEW s \in Slots, Navigate(s) PROVE TypeOK'
  <2>1. action \in Action /\ action.next \in Ids
    BY <1>7 DEF Navigate, Action
  <2>2. requests' \in [Slots -> Request \cup {None}]
    BY <1>7, <2>1, NewRequestType DEF Navigate
  <2> QED
    BY <1>7, <2>1, <2>2 DEF Navigate
<1>8. ASSUME NEW b \in {"rerun", "clone"}, Press(b) PROVE TypeOK'
  <2>1. shown.id \in Ids
    BY <1>8 DEF Press, Enabled, Answer
  <2> QED
    BY <1>8, <2>1 DEF Press, Action
<1>9. CASE ActionFails
  BY <1>9 DEF ActionFails
<1>10. CASE UNCHANGED vars
  BY <1>10 DEF vars
<1> QED
  BY <1>1, <1>2, <1>3, <1>4, <1>5, <1>6, <1>7, <1>8, <1>9, <1>10, <1>11,
     <1>12
  DEF Next, ServerNext, RequestNext, UserNext

LEMMA PageStarts == Init => TypeOK /\ Known
<1> SUFFICES ASSUME Init PROVE TypeOK /\ Known
  OBVIOUS
<1>1. PICK s \in Slots :
         requests = [x \in Slots |-> IF x = s THEN NewRequest("initial", First) ELSE None]
  BY DEF Init
<1>2. TypeOK
  BY <1>1, PageAssumption, NewRequestType DEF Init, TypeOK
<1>3. Known
  BY <1>1, PageAssumption DEF Init, Known, NewRequest
<1> QED
  BY <1>2, <1>3

\* Types hold in every state, however requests and buttons interleave; an answer
\* is about an event that exists.
THEOREM PageTypeCorrect == Spec => []TypeOK
<1> DEFINE Inv == TypeOK /\ Known
<1>1. Init => Inv
  BY PageStarts
<1>2. Inv /\ [Next]_vars => Inv'
  BY PageTypeStep, KnownStep
<1>3. Inv => TypeOK
  OBVIOUS
<1> QED
  BY <1>1, <1>2, <1>3, PTL DEF Spec

-----------------------------------------------------------------------------
(* A page at rest.                                                         *)

\* What was read of an event that is over, and not touched since, is final.
Final(x) == x.status = "terminal" /\ Untouched(x.id) => status[x.id] = "terminal"

FinalRequests ==
    \A s \in Slots : requests[s] # None =>
        /\ Final(requests[s])
        /\ requests[s].status = "unread" => requests[s].version = None
        /\ (requests[s].status = "terminal" /\ Untouched(requests[s].id) =>
              requests[s].version \in {None, version[requests[s].id]})

FinalShown == shown # None => Final(shown)

\* A re-run counts from the first of its two statements.
Counted == action # None => (action.stage = "reset" => ~ Untouched(action.id))

RestInv == TypeOK /\ Known /\ Counted /\ FinalRequests /\ FinalShown /\ RestShowsResult

\* What is touched stays so; an event that is over changes only by being touched.
Settled == \A e \in Ids : Untouched(e)' =>
               /\ Untouched(e)
               /\ status[e] = "terminal" =>
                     status'[e] = "terminal" /\ version'[e] = version[e]

LEMMA ServerSettles == TypeOK /\ Counted /\ [Next]_vars => Settled
<1> SUFFICES ASSUME TypeOK, Counted, [Next]_vars, NEW e \in Ids, Untouched(e)'
             PROVE  /\ Untouched(e)
                    /\ status[e] = "terminal" =>
                          status'[e] = "terminal" /\ version'[e] = version[e]
  BY DEF Settled
<1>0. /\ rerun \in [Ids -> Nat] /\ late \in [Ids -> Nat]
      /\ version \in [Ids -> Nat] /\ status \in [Ids -> {"none", "active", "terminal"}]
      /\ rerun'[e] = 0 /\ late'[e] = 0
      /\ action # None => action.id \in Ids
  BY DEF TypeOK, Untouched, Action
<1> USE <1>0 DEF serverVars, Untouched
<1>1. ASSUME NEW d \in Ids, CountLate(d), UNCHANGED rerun
      PROVE  Untouched(e) /\ (status[d] = "terminal" => e # d)
  BY <1>1 DEF CountLate
<1>2. ASSUME NEW d \in Ids, JobStep(d) \/ EventRunsAgain(d)
      PROVE  /\ Untouched(e)
             /\ status[e] = "terminal" => status'[e] = "terminal" /\ version'[e] = version[e]
  <2>1. Untouched(e) /\ (status[d] = "terminal" => e # d)
    BY <1>1, <1>2 DEF JobStep, EventRunsAgain
  <2> QED
    BY <1>2, <2>1 DEF JobStep, EventRunsAgain
<1>3. ASSUME NEW d \in Ids, EventEnds(d) \/ ServeClone(d)
      PROVE  /\ Untouched(e)
             /\ status[e] = "terminal" => status'[e] = "terminal" /\ version'[e] = version[e]
  BY <1>3 DEF EventEnds, ServeClone
<1>4. CASE ResetJobs
  <2>1. action.id # e /\ action.id \in Ids
    BY <1>4 DEF ResetJobs
  <2> QED
    BY <1>4, <2>1 DEF ResetJobs
<1>5. CASE ResetEvent
  <2>1. action.id # e /\ action.id \in Ids
    BY <1>5 DEF ResetEvent, Counted
  <2> QED
    BY <1>5, <2>1 DEF ResetEvent
<1>6. CASE UNCHANGED serverVars
  BY <1>6
<1> QED
  BY <1>2, <1>3, <1>4, <1>5, <1>6 DEF Next, ServerNext, RequestNext, UserNext, GetEvent,
     ListJobs, Receive, Fail, Tick, Refresh, Navigate, Press, ActionFails, vars

LEMMA CountedStep == TypeOK /\ Counted /\ Settled /\ [Next]_vars => Counted'
<1> SUFFICES ASSUME TypeOK, Counted, Settled, [Next]_vars PROVE Counted'
  OBVIOUS
<1>0. /\ rerun \in [Ids -> Nat] /\ late \in [Ids -> Nat]
      /\ action \in Action \cup {None}
      /\ action # None => action.id \in Ids
      /\ \A e \in Ids : Untouched(e)' => Untouched(e)
  BY DEF TypeOK, Action, Settled
<1> USE <1>0 DEF Counted, serverVars
<1>1. CASE UNCHANGED action
  BY <1>1
<1>2. CASE ResetJobs
  <2>1. /\ action' = [action EXCEPT !.stage = "reset"]
        /\ rerun'[action.id] = rerun[action.id] + 1 /\ action.id \in Ids
    BY <1>2 DEF ResetJobs
  <2>2. ~ Untouched(action.id)' /\ action'.id = action.id
    BY <2>1 DEF Untouched, Action
  <2> QED
    BY <2>2
<1>3. CASE ResetEvent \/ \E e \in Ids : ServeClone(e)
  BY <1>3 DEF ResetEvent, ServeClone, Action
<1>4. CASE ActionFails \/ (\E s \in Slots : Navigate(s)) \/ \E b \in {"rerun", "clone"} : Press(b)
  BY <1>4 DEF ActionFails, Navigate, Press
<1> QED
  BY <1>1, <1>2, <1>3, <1>4 DEF Next, ServerNext, RequestNext, UserNext, JobStep, EventEnds,
     EventRunsAgain, GetEvent, ListJobs, Receive, Fail, Tick, Refresh, vars

LEMMA RestStep == RestInv /\ [Next]_vars => RestInv'
<1> SUFFICES ASSUME RestInv, [Next]_vars PROVE RestInv'
  BY DEF RestInv
<1>0. Settled /\ TypeOK /\ TypeOK' /\ Known' /\ Counted'
  BY ServerSettles, PageTypeStep, KnownStep, CountedStep DEF RestInv
<1>a. /\ shown # None => shown.id \in Ids
      /\ \A s \in Slots : requests[s] # None => requests[s].id \in Ids
  BY <1>0 DEF TypeOK, Answer, Request
<1> SUFFICES FinalRequests' /\ FinalShown' /\ RestShowsResult'
  BY <1>0 DEF RestInv
<1>b. UNCHANGED shown => FinalShown' /\ RestShowsResult'
  BY <1>0, <1>a DEF Settled, RestInv, FinalShown, RestShowsResult, Final
<1>c. UNCHANGED requests => FinalRequests'
  BY <1>0, <1>a DEF Settled, RestInv, FinalRequests, Final
<1> USE DEF serverVars, SetRequest, Untouched
<1>1. ASSUME NEW e \in Ids, JobStep(e) \/ EventEnds(e) \/ EventRunsAgain(e) \/ ServeClone(e)
      PROVE  UNCHANGED <<shown, requests>>
  BY <1>1 DEF JobStep, EventEnds, EventRunsAgain, ServeClone
<1>2. CASE ResetJobs \/ ResetEvent \/ ActionFails \/ \E b \in {"rerun", "clone"} : Press(b)
  BY <1>2, <1>b, <1>c DEF ResetJobs, ResetEvent, ActionFails, Press
<1>3. ASSUME NEW s \in Slots, GetEvent(s)
      PROVE  FinalRequests' /\ UNCHANGED shown
  BY <1>3, <1>0 DEF GetEvent, TypeOK, Request, RestInv, FinalRequests, Final
<1>4. ASSUME NEW s \in Slots, ListJobs(s)
      PROVE  FinalRequests' /\ UNCHANGED shown
  BY <1>4, <1>0 DEF ListJobs, TypeOK, Request, RestInv, FinalRequests, Final
<1>5. ASSUME NEW s \in Slots, Receive(s)
      PROVE  FinalRequests' /\ FinalShown' /\ RestShowsResult'
  <2>1. FinalRequests'
    BY <1>5, <1>0 DEF Receive, Arrived, TypeOK, RestInv, FinalRequests, Final
  <2>2. FinalShown' /\ RestShowsResult'
    BY <1>5, <1>0 DEF Receive, Arrived, RestInv, FinalRequests, FinalShown, RestShowsResult, Final
  <2> QED
    BY <2>1, <2>2
<1>6. ASSUME NEW s \in Slots, Fail(s)
      PROVE  FinalRequests' /\ UNCHANGED shown
  BY <1>6, <1>0 DEF Fail, TypeOK, RestInv, FinalRequests, Final
<1>7. ASSUME NEW s \in Slots, Tick(s) \/ Refresh(s) \/ Navigate(s)
      PROVE  FinalRequests' /\ UNCHANGED shown
  <2>1. CASE UNCHANGED requests
    BY <1>7, <2>1, <1>c DEF Tick, Refresh, Navigate
  <2>2. ASSUME NEW k, NEW i, SetRequest(s, NewRequest(k, i)), UNCHANGED serverVars
        PROVE  FinalRequests'
    BY <2>2, <1>0 DEF NewRequest, TypeOK, RestInv, FinalRequests, Final
  <2> QED
    BY <1>7, <2>1, <2>2 DEF Tick, Refresh, Navigate
<1>8. CASE UNCHANGED vars
  BY <1>8, <1>b, <1>c DEF vars
<1> QED
  BY <1>1, <1>2, <1>3, <1>4, <1>5, <1>6, <1>7, <1>8, <1>b, <1>c DEF Next, ServerNext, RequestNext, UserNext

\* A page at rest shows the final result of its event, whatever the order of
\* answers, until the event is re-run or a worker changes it once more (a job
\* delivered again, a rollup that lost the race): what EventsHandler.Get reads
\* first is the event, and nothing else changes the jobs of one that is over.
THEOREM RestShowsResultAlways == Spec => []RestShowsResult
<1>1. Init => RestInv
  <2> SUFFICES ASSUME Init PROVE RestInv
    OBVIOUS
  <2>1. TypeOK /\ Known
    BY PageStarts
  <2>2. FinalRequests
    BY DEF Init, FinalRequests, Final, NewRequest
  <2>3. Counted /\ FinalShown /\ RestShowsResult
    BY DEF Init, Counted, FinalShown, RestShowsResult
  <2> QED
    BY <2>1, <2>2, <2>3 DEF RestInv
<1>2. RestInv => RestShowsResult
  BY DEF RestInv
<1> QED
  BY <1>1, <1>2, RestStep, PTL DEF Spec
=============================================================================
