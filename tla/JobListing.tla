------------------------------ MODULE JobListing ------------------------------
(***************************************************************************)
(* GET /v1/jobs and the page of the web interface that polls it.  The list *)
(* is cut by LIMIT and OFFSET out of a table that other requests change    *)
(* between and within two polls; the browser has at most one request on    *)
(* its way, while a person changes filter and page under it.  Each click   *)
(* begins a chain of timers of its own: a chain carries its token, and     *)
(* ends when it finds that the token is not the current one.               *)
(*                                                                         *)
(* A job is a number: the larger is the newer by (created_at, id).  Jobs   *)
(* appear in any order, as created_at is taken before the transaction that *)
(* commits it.  What makes a job change its status is GenerationRunner's   *)
(* subject; here any job may.  Left out: the wording of parameters and of  *)
(* their errors, which this client never causes, and document.hidden,      *)
(* which only postpones a poll.                                            *)
(***************************************************************************)
EXTENDS Integers, FiniteSets, Sequences

CONSTANTS
    Jobs,           \* bound: number of jobs
    Limit,          \* jobsLimit
    Filter,         \* values of the status filter that a person selects
    MaxEvents       \* bound: commits, clicks and errors of a behaviour

VARIABLES
    table,      \* jobs.status, "absent" where there is no row
    events,     \* how many commits, clicks and errors there were
    filter, offset, total,  \* jobsFilter, jobsOffset, jobsTotal
    token,      \* jobsPollToken: that of the chain begun last
    timers,     \* the tokens of the chains that wait for a timer
    request,    \* the request in flight, or NoRequest
    shown       \* the page renderJobs showed last

uiVars == <<filter, offset, total, token, timers>>
vars == <<table, events, uiVars, request, shown>>

Job == 1 .. Jobs
Status == {"queued", "running", "completed"}
NoRequest == [pc |-> "none"]

-----------------------------------------------------------------------------
(* The server.                                                             *)

\* parseJobListStatuses; no status at all means every job.
StatusesOf(f) ==
    CASE f = "all" -> {}
      [] f = "active" -> {"queued", "running"}
      [] OTHER -> {f}

Listed(rows, f) ==
    {j \in Job : /\ rows[j] # "absent"
                 /\ StatusesOf(f) = {} \/ rows[j] \in StatusesOf(f)}

\* ORDER BY created_at DESC, id DESC LIMIT l OFFSET o: as many rows are before
\* a row of the page as are newer.
PageOf(rows, f, o, l) ==
    LET list == Listed(rows, f)
        size == Cardinality(list)
        last == IF o + l <= size THEN o + l ELSE size
    IN  [n \in 1 .. last - o |->
            CHOOSE j \in list : Cardinality({i \in list : i > j}) = o + n - 1]

\* The transaction is REPEATABLE READ: its snapshot is that of its first
\* statement.
CountJobs ==
    /\ request.pc = "sent"
    /\ request' = [request EXCEPT
          !.pc = "counted", !.snapshot = table,
          !.total = Cardinality(Listed(table, request.filter))]
    /\ UNCHANGED <<table, events, uiVars, shown>>

\* A slip of ListRows: the second statement has a snapshot of its own.
ListRowsReadCommitted ==
    /\ request.pc = "counted"
    /\ request' = [request EXCEPT
          !.pc = "answered", !.snapshot = <<>>,
          !.rows = PageOf(table, request.filter, request.offset, Limit)]
    /\ UNCHANGED <<table, events, uiVars, shown>>

ListRows ==
    /\ request.pc = "counted"
    /\ request' = [request EXCEPT
          !.pc = "answered", !.snapshot = <<>>,
          !.rows = PageOf(request.snapshot, request.filter, request.offset,
                          Limit)]
    /\ UNCHANGED <<table, events, uiVars, shown>>

\* Other requests and the runner commit: jobs are created, change their
\* status, and are deleted when the queue refused them.
Happens == events < MaxEvents /\ events' = events + 1
Commit ==
    /\ Happens
    /\ \E j \in Job, st \in Status \cup {"absent"} :
          /\ st # table[j]
          /\ table[j] = "absent" => st = "queued"
          /\ st = "absent" => table[j] = "queued"
          /\ table' = [table EXCEPT ![j] = st]
    /\ UNCHANGED <<uiVars, request, shown>>

-----------------------------------------------------------------------------
(* The browser.                                                            *)

Sent(f, o, t) ==
    [pc |-> "sent", filter |-> f, offset |-> o, chain |-> t,
     snapshot |-> <<>>, total |-> 0, rows |-> <<>>]

\* A new chain begins, and polls at once; while a request is on its way,
\* refreshJobs answers null and the chain sets a timer to try again.
StartJobsMonitor ==
    /\ token' = token + 1
    /\ IF request = NoRequest
       THEN request' = Sent(filter', offset', token') /\ UNCHANGED timers
       ELSE timers' = timers \cup {token'} /\ UNCHANGED request

SelectFilter ==
    /\ Happens
    /\ filter' \in Filter \ {filter}
    /\ offset' = 0
    /\ StartJobsMonitor
    /\ UNCHANGED <<table, total, shown>>

PreviousPage ==
    /\ Happens
    /\ offset # 0
    /\ offset' = IF offset > Limit THEN offset - Limit ELSE 0
    /\ UNCHANGED <<filter, table, total, shown>>
    /\ StartJobsMonitor

\* The total is that of the last answer, perhaps of another filter.
NextPage ==
    /\ Happens
    /\ offset + Limit < total
    /\ offset' = offset + Limit
    /\ UNCHANGED <<filter, table, total, shown>>
    /\ StartJobsMonitor

Refresh ==
    /\ Happens
    /\ UNCHANGED <<filter, offset, table, total, shown>>
    /\ StartJobsMonitor

\* A slip of Poll: a chain does not ask whether it is the current one.
PollUnchecked(t) ==
    /\ t \in timers
    /\ request = NoRequest /\ request' = Sent(filter, offset, t)
    /\ timers' = timers \ {t}
    /\ UNCHANGED <<table, events, filter, offset, total, token, shown>>

\* A timer fires.  The current chain polls, or waits on while a request is on
\* its way; any other chain ends.
Poll(t) ==
    /\ t \in timers
    /\ IF t = token
       THEN request = NoRequest /\ request' = Sent(filter, offset, t)
       ELSE UNCHANGED request
    /\ timers' = timers \ {t}
    /\ UNCHANGED <<table, events, filter, offset, total, token, shown>>

\* An answer ends the request; the chain that waited for it sets a timer, if
\* it still is the current one, and ends otherwise.
Ended ==
    /\ request' = NoRequest
    /\ timers' = timers \cup ({request.chain} \cap {token})

Asked == request.filter = filter /\ request.offset = offset

LastPage(n) == ((n - 1) \div Limit) * Limit

Shown == [filter |-> request.filter, offset |-> request.offset,
          total |-> request.total, rows |-> request.rows]

\* A slip of Answer: a page beyond the end is shown as it is.
AnswerBeyondEnd ==
    /\ request.pc = "answered"
    /\ Ended
    /\ IF ~Asked THEN UNCHANGED <<offset, total, shown>>
       ELSE /\ total' = request.total /\ shown' = Shown
            /\ UNCHANGED offset
    /\ UNCHANGED <<table, events, filter, token>>

Answer ==
    /\ request.pc = "answered"
    /\ Ended
    /\ IF ~Asked THEN UNCHANGED <<offset, total, shown>>
       ELSE /\ total' = request.total
            /\ IF request.rows = <<>> /\ offset > 0 /\ request.total > 0
               THEN offset' = LastPage(request.total) /\ UNCHANGED shown
               ELSE shown' = Shown /\ UNCHANGED offset
    /\ UNCHANGED <<table, events, filter, token>>

\* The request or one of its statements failed: the page stays.
AnswerFails ==
    /\ Happens
    /\ request # NoRequest
    /\ Ended
    /\ UNCHANGED <<table, filter, offset, total, token, shown>>

-----------------------------------------------------------------------------
Init ==
    /\ table \in [Job -> Status \cup {"absent"}]
    /\ events = 0
    /\ filter = "active" /\ offset = 0 /\ total = 0
    /\ token = 1 /\ timers = {} /\ request = Sent("active", 0, 1)
    /\ shown = [filter |-> "active", offset |-> 0, total |-> 0,
                rows |-> <<>>]

System == (\E t \in timers : Poll(t)) \/ CountJobs \/ ListRows \/ Answer

Next ==
    \/ System \/ Commit \/ AnswerFails
    \/ SelectFilter \/ PreviousPage \/ NextPage \/ Refresh

Spec == Init /\ [][Next]_vars

\* Timers fire and the server answers.
FairSpec == Spec /\ WF_vars(System)

-----------------------------------------------------------------------------
(* Properties.                                                             *)

\* However often the monitor is started, the current chain goes on: it waits
\* for the answer to a request of its own or for its timer, and not for both.
CurrentChainLives ==
    token \in timers <=> ~(request # NoRequest /\ request.chain = token)

\* The numbers under the list, "first-last of total", and whether there is a
\* next page, come from two statements between which other transactions
\* commit; they agree.
PageMatchesTotal ==
    Len(shown.rows) =
        IF shown.offset >= shown.total THEN 0
        ELSE IF shown.offset + Limit <= shown.total THEN Limit
        ELSE shown.total - shown.offset

\* The page never contradicts itself, nor is it ever left without a poll.
ListIsConsistent == CurrentChainLives /\ PageMatchesTotal

\* An answer that comes after the person chose another filter or page never
\* replaces the list.
ShowsOnlyAsked ==
    shown' # shown => shown'.filter = filter /\ shown'.offset = offset
OnlyAskedIsShown == [][ShowsOnlyAsked]_vars

\* Chains that were replaced while they waited for a timer or an answer poll no
\* more: one chain polls, however many are still about.
PollsInCurrentChain ==
    request = NoRequest /\ request' # NoRequest => request'.chain = token'
OneChainPolls == [][PollsInCurrentChain]_vars

\* When commits, clicks and errors end, the browser shows the rows of the
\* selected page as they are, also after the page it stood on has vanished;
\* the list is empty only when no job passes the filter.
ListSettles ==
    <>[](/\ shown = [filter |-> filter, offset |-> offset, total |-> total,
                     rows |-> PageOf(table, filter, offset, Limit)]
         /\ shown.rows = <<>> => Listed(table, filter) = {})

\* The list follows the person at every step, and the table in the end.
ListFollowsPerson == OnlyAskedIsShown /\ OneChainPolls /\ ListSettles

=============================================================================
