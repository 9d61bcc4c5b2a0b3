------------------------------ MODULE EventLog ------------------------------
(***************************************************************************)
(* The audit log and the live stream of decisions: _emit_log of            *)
(* app/pipeline.py and write_pg of app/logging/events.py in the threads    *)
(* that analyze requests, the bus of app/logging/bus.py, and the           *)
(* generator behind GET /events/stream (app/api.py).                       *)
(*                                                                         *)
(* A writer is a thread of the gRPC server, a stream one connection of a   *)
(* dashboard.  A stream that connects again is another stream.  The        *)
(* streams share one event loop: each runs from an await to the next.  The *)
(* wait for an event, asyncio.to_thread(q.get), runs in a worker thread    *)
(* of its own, which goes on when the stream that waits is cancelled.      *)
(* The dashboard also asks for a session's timeline and for statistics,    *)
(* which GET /stats puts together from several queries.                    *)
(***************************************************************************)
EXTENDS Integers, FiniteSets, SequencesExt

CONSTANTS
    Writers, Streams,
    Settings,     \* [sink, dashboard]: cfg.log_sink, and what the dashboard
                  \* does meanwhile: hold "streams" open or send "queries"
    Directions,   \* of an event: what the streams filter by
    Wanted,       \* the directions a stream asks for
    QueueSize,    \* _SUBSCRIBER_MAXSIZE
    MaxEvents,    \* bound on the decisions
    MaxTime,      \* bound on the clock
    StatsWindow,  \* the window of GET /stats
    Sections      \* how many queries GET /stats sends

ASSUME EventLogAssumption ==
    /\ Settings \subseteq [sink : {"pg", "jsonl", "both"},
                          dashboard : {"streams", "queries"}]
    /\ MaxTime \in Nat /\ StatsWindow \in Nat \ {0} /\ Sections \in Nat
    /\ Wanted \in [Streams -> SUBSET Directions]
    /\ QueueSize \in Nat \ {0} /\ MaxEvents \in Nat

VARIABLES
    setting,      \* the setting of this behaviour
    clock,        \* the time of the database and of the server
    lastId,       \* the last value of the sequence of log_events.event_id
    pc,           \* where a writer is
    event,        \* the event a writer writes
    snapshot,     \* the copy of the subscribers publish iterates over
    at,           \* the position in it
    table,        \* log_events: the events with a committed row
    file,         \* the decisions with a line in the JSONL file
    begun,        \* how many decisions there were
    subscribers,  \* bus._subscribers
    queue,        \* the queue of each stream
    spc,          \* where a stream's generator is
    worker,       \* where the thread of its q.get is
    held,         \* the event that thread has taken
    gone,         \* the streams whose client has disconnected
    sent,         \* the events sent to each client
    stats,        \* GET /stats: [since, seen], the rows each query counted
    log           \* history: see LogEntry

writerVars == <<pc, event, snapshot, at>>
workerVars == <<worker, held>>
streamVars == <<subscribers, queue, spc, workerVars, gone, sent>>
tableVars == <<table, lastId>>
timeVars == <<setting, clock, stats>>
vars == <<timeVars, writerVars, tableVars, file, begun, streamVars, log>>

sink == setting.sink

(* id numbers the decisions; eventId and created are the columns the       *)
(* database fills in.                                                      *)
Event(id, direction) ==
    [id |-> id, direction |-> direction, eventId |-> 0, created |-> 0]
NoEvent == Event(0, "none")

(* What the properties remember of an event: the decisions answered before *)
(* it began, the streams publish copied, those whose queue was full, those *)
(* whose filter passed it over; whether a write to the file raised, and    *)
(* whether analyze has returned.                                           *)
LogEntry(earlier) ==
    [earlier |-> earlier, offered |-> {}, dropped |-> {}, skipped |-> {},
     unwritable |-> FALSE, answered |-> FALSE]
Answers == {i \in DOMAIN log : log[i].answered}

Init ==
    /\ setting \in Settings
    /\ clock = 0 /\ lastId = 0
    /\ stats = [since |-> 0, seen |-> <<>>]
    /\ pc = [w \in Writers |-> "idle"]
    /\ event = [w \in Writers |-> NoEvent]
    /\ snapshot = [w \in Writers |-> <<>>]
    /\ at = [w \in Writers |-> 0]
    /\ table = {} /\ file = {} /\ begun = 0
    /\ subscribers = <<>>
    /\ queue = [s \in Streams |-> <<>>]
    /\ spc = [s \in Streams |-> "new"]
    /\ worker = [s \in Streams |-> "none"]
    /\ held = [s \in Streams |-> NoEvent]
    /\ gone = {}
    /\ sent = [s \in Streams |-> <<>>]
    /\ log = <<>>

-----------------------------------------------------------------------------
(* The writers.                                                            *)

(* _emit_log: the decision is made, _write_event chooses the sink.         *)
Begin(w, direction) ==
    /\ pc[w] = "idle" /\ begun < MaxEvents
    /\ begun' = begun + 1
    /\ event' = [event EXCEPT ![w] = Event(begun + 1, direction)]
    /\ log' = Append(log, LogEntry(Answers))
    /\ pc' = [pc EXCEPT ![w] = IF sink = "jsonl" THEN "file" ELSE "insert"]
    /\ UNCHANGED <<timeVars, snapshot, at, tableVars, file, streamVars>>

(* write_pg: the INSERT takes the next event_id and the time...            *)
Insert(w) ==
    /\ pc[w] = "insert"
    /\ lastId' = lastId + 1
    /\ event' = [event EXCEPT ![w].eventId = lastId', ![w].created = clock]
    /\ pc' = [pc EXCEPT ![w] = "commit"]
    /\ UNCHANGED <<timeVars, snapshot, at, table, file, begun, streamVars, log>>

(* ...and the end of the with block commits it.                            *)
(* Mutant: the event is published before its row is committed.             *)
PublishUncommitted(w) ==
    /\ pc[w] = "commit"
    /\ pc' = [pc EXCEPT ![w] = "publish"]
    /\ UNCHANGED <<timeVars, event, snapshot, at, tableVars, file, begun,
                   streamVars, log>>
Commit(w) ==
    /\ pc[w] = "commit"
    /\ table' = table \cup {event[w]}
    /\ pc' = [pc EXCEPT ![w] = "publish"]
    /\ UNCHANGED <<timeVars, event, snapshot, at, lastId, file, begun,
                   streamVars, log>>

(* Mutant: no fallback.                                                    *)
FailsSilently(w) ==
    /\ pc[w] \in {"insert", "commit"}
    /\ pc' = [pc EXCEPT ![w] = "idle"]
    /\ log' = [log EXCEPT ![event[w].id].answered = TRUE]
    /\ UNCHANGED <<timeVars, event, snapshot, at, tableVars, file, begun,
                   streamVars>>
(* write_pg raises: nothing is committed, or the acknowledgement is lost;  *)
(* the JSONL file takes the event.                                         *)
InsertFails(w) ==
    /\ \/ pc[w] = "insert" /\ UNCHANGED table
       \/ pc[w] = "commit" /\ table' \in {table, table \cup {event[w]}}
    /\ pc' = [pc EXCEPT ![w] = "file"]
    /\ UNCHANGED <<timeVars, event, snapshot, at, lastId, file, begun,
                   streamVars, log>>

(* publish copies the subscribers under the lock...                        *)
Publish(w) ==
    /\ pc[w] = "publish"
    /\ snapshot' = [snapshot EXCEPT ![w] = subscribers]
    /\ at' = [at EXCEPT ![w] = 1]
    /\ log' = [log EXCEPT ![event[w].id].offered = Range(subscribers)]
    /\ pc' = [pc EXCEPT ![w] = "put"]
    /\ UNCHANGED <<timeVars, event, tableVars, file, begun, streamVars>>

(* ...and puts the event in each queue of the copy, unless it is full.     *)
(* Mutant: the list itself is iterated over.                               *)
LiveTargets(w) == subscribers
Targets(w) == snapshot[w]
Put(w) ==
    LET s == Targets(w)[at[w]]
    IN  /\ pc[w] = "put" /\ at[w] <= Len(Targets(w))
        /\ \/ /\ Len(queue[s]) < QueueSize
              /\ queue' = [queue EXCEPT ![s] = Append(@, event[w])]
              /\ UNCHANGED log
           \/ /\ Len(queue[s]) >= QueueSize
              /\ log' = [log EXCEPT ![event[w].id].dropped = @ \cup {s}]
              /\ UNCHANGED queue
        /\ at' = [at EXCEPT ![w] = @ + 1]
        /\ UNCHANGED <<timeVars, pc, event, snapshot, tableVars, file, begun,
                       subscribers, spc, workerVars, gone, sent>>

(* analyze returns the decision.                                           *)
Answered(w) == [log EXCEPT ![event[w].id].answered = TRUE]

(* publish is over: with sink "both" the file takes the event too.         *)
Published(w) ==
    /\ pc[w] = "put" /\ at[w] > Len(Targets(w))
    /\ \/ /\ sink = "both"
          /\ pc' = [pc EXCEPT ![w] = "file"]
          /\ UNCHANGED <<snapshot, at, log>>
       \/ /\ sink # "both"
          /\ pc' = [pc EXCEPT ![w] = "idle"]
          /\ log' = Answered(w)
          /\ snapshot' = [snapshot EXCEPT ![w] = <<>>]
          /\ at' = [at EXCEPT ![w] = 0]
    /\ UNCHANGED <<timeVars, event, tableVars, file, begun, streamVars>>

(* log_event appends a line, or raises: _emit_log swallows the exception.  *)
WriteFile(w) ==
    /\ pc[w] = "file"
    /\ \/ /\ file' = file \cup {event[w].id}
          /\ log' = Answered(w)
       \/ /\ log' = [Answered(w) EXCEPT ![event[w].id].unwritable = TRUE]
          /\ UNCHANGED file
    /\ pc' = [pc EXCEPT ![w] = "idle"]
    /\ snapshot' = [snapshot EXCEPT ![w] = <<>>]
    /\ at' = [at EXCEPT ![w] = 0]
    /\ UNCHANGED <<timeVars, event, tableVars, begun, streamVars>>

-----------------------------------------------------------------------------
(* The streams.                                                            *)
StreamOnly == UNCHANGED <<timeVars, writerVars, tableVars, file, begun>>

(* _event_stream starts: the client is connected.                          *)
Connect(s) ==
    /\ setting.dashboard = "streams" /\ spc[s] = "new"
    /\ subscribers' = Append(subscribers, s)
    /\ spc' = [spc EXCEPT ![s] = "top"]
    /\ StreamOnly /\ UNCHANGED <<queue, workerVars, gone, sent, log>>

Disconnect(s) ==
    /\ spc[s] \in {"top", "get"} /\ s \notin gone
    /\ gone' = gone \cup {s}
    /\ StreamOnly
    /\ UNCHANGED <<subscribers, queue, spc, workerVars, sent, log>>

(* The finally clause.                                                     *)
Unsubscribe(s) ==
    /\ subscribers' = RemoveFirst(subscribers, s)
    /\ spc' = [spc EXCEPT ![s] = "closed"]
    /\ StreamOnly /\ UNCHANGED <<queue, held, gone, sent, log>>

(* The top of the loop: the wait is given to a worker.                     *)
Leave(s) == spc[s] = "top" /\ s \in gone /\ Unsubscribe(s) /\ UNCHANGED worker
Stay(s) ==
    /\ spc[s] = "top" /\ s \notin gone
    /\ spc' = [spc EXCEPT ![s] = "get"]
    /\ worker' = [worker EXCEPT ![s] = "waiting"]
    /\ StreamOnly /\ UNCHANGED <<subscribers, queue, held, gone, sent, log>>

(* The server cancels the generator of a client that is gone.  A wait that *)
(* the pool has not yet begun is cancelled with it, any other goes on.     *)
Cancel(s) ==
    /\ spc[s] \in {"top", "get"} /\ s \in gone
    /\ Unsubscribe(s)
    /\ \/ UNCHANGED worker
       \/ worker[s] = "waiting" /\ worker' = [worker EXCEPT ![s] = "none"]

(* The worker's q.get takes an event, or times out.                        *)
Take(s) ==
    /\ worker[s] = "waiting" /\ queue[s] # <<>>
    /\ held' = [held EXCEPT ![s] = Head(queue[s])]
    /\ queue' = [queue EXCEPT ![s] = Tail(@)]
    /\ worker' = [worker EXCEPT ![s] = "took"]
    /\ StreamOnly /\ UNCHANGED <<subscribers, spc, gone, sent, log>>
TimesOut(s) ==
    /\ worker[s] = "waiting" /\ queue[s] = <<>>
    /\ worker' = [worker EXCEPT ![s] = "empty"]
    /\ StreamOnly
    /\ UNCHANGED <<subscribers, queue, spc, held, gone, sent, log>>

(* The generator resumes with the event: it is sent if the filters let it  *)
(* pass...                                                                 *)
Get(s) ==
    /\ spc[s] = "get" /\ worker[s] = "took"
    /\ \/ /\ held[s].direction \in Wanted[s]
          /\ sent' = [sent EXCEPT ![s] = Append(@, held[s])]
          /\ UNCHANGED log
       \/ /\ held[s].direction \notin Wanted[s]
          /\ log' = [log EXCEPT ![held[s].id].skipped = @ \cup {s}]
          /\ UNCHANGED sent
    /\ held' = [held EXCEPT ![s] = NoEvent]
    /\ worker' = [worker EXCEPT ![s] = "none"]
    /\ spc' = [spc EXCEPT ![s] = "top"]
    /\ StreamOnly /\ UNCHANGED <<subscribers, queue, gone>>

(* ...or after the timeout, and a comment is sent: the loop goes on.       *)
Heartbeat(s) ==
    /\ spc[s] = "get" /\ worker[s] = "empty"
    /\ worker' = [worker EXCEPT ![s] = "none"]
    /\ spc' = [spc EXCEPT ![s] = "top"]
    /\ StreamOnly /\ UNCHANGED <<subscribers, queue, held, gone, sent, log>>

-----------------------------------------------------------------------------
(* The queries.                                                            *)
QueriesOnly == UNCHANGED <<setting, writerVars, tableVars, file, begun,
                           streamVars, log>>

Tick ==
    /\ setting.dashboard = "queries" /\ clock < MaxTime
    /\ clock' = clock + 1
    /\ QueriesOnly /\ UNCHANGED stats

(* The rows a filtered query finds: what GET /events pages through.        *)
FetchEvents(directions) == {e \in table : e.direction \in directions}

(* GET /events/{session_id}: created_at, then event_id, ascending.         *)
(* Mutant: by the time alone.                                              *)
BeforeByTime(d, e) == d.created < e.created
Precedes(d, e) ==
    \/ d.created < e.created
    \/ d.created = e.created /\ d.eventId < e.eventId

(* GET /stats: since is computed once, and each section is a query of its  *)
(* own, on a connection of its own.                                        *)
(* Mutant: since is computed for each section.                             *)
NewSince(now) == now - StatsWindow
Since(now) == IF stats.seen = <<>> THEN now - StatsWindow ELSE stats.since
StatsSection ==
    /\ setting.dashboard = "queries" /\ Len(stats.seen) < Sections
    /\ LET since == Since(clock)
       IN  stats' = [since |-> since,
                     seen  |-> Append(stats.seen, {e \in table : e.created >= since})]
    /\ QueriesOnly /\ UNCHANGED clock

WriterStep(w) ==
    \/ Insert(w) \/ Commit(w) \/ InsertFails(w)
    \/ Publish(w) \/ Put(w) \/ Published(w) \/ WriteFile(w)
StreamStep(s) ==
    Leave(s) \/ Stay(s) \/ Take(s) \/ TimesOut(s) \/ Get(s) \/ Heartbeat(s)

Next ==
    \/ \E w \in Writers, d \in Directions : Begin(w, d)
    \/ \E w \in Writers : WriterStep(w)
    \/ \E s \in Streams : \/ StreamStep(s) \/ Connect(s)
                          \/ Disconnect(s) \/ Cancel(s)
    \/ Tick \/ StatsSection

Spec == Init /\ [][Next]_vars
-----------------------------------------------------------------------------
Recorded == {e.id : e \in table} \cup file
Ids(events) == {events[i].id : i \in DOMAIN events}

(* A decision is in the table or in the file before its verdict is         *)
(* returned, unless writing the file raised (pipeline.py:151-163).         *)
AnsweredIsRecorded ==
    \A i \in Answers : i \in Recorded \/ log[i].unwritable

(* A dashboard never shows a decision that a query with the filter of its  *)
(* stream would not find: what is sent has been committed, and the filters *)
(* mean the same (events.py:91-95, api.py:214-217).                        *)
SentIsLogged ==
    \A s \in Streams : Range(sent[s]) \subseteq FetchEvents(Wanted[s])

(* publish works on a copy, so that streams that leave meanwhile take      *)
(* nothing from the others: when it is over, each stream of the copy has   *)
(* the event in its queue, has sent it, passed it over or, its queue being *)
(* full, lost it; or the worker of its q.get has it.  From the queue of a  *)
(* stream that leaves, one event at most is so taken and never sent        *)
(* (bus.py:31-38, api.py:124-128).                                         *)
DeliveredOrDropped ==
    \A i \in Answers : \A s \in log[i].offered :
        \/ i \in Ids(queue[s]) \cup Ids(sent[s]) \cup {held[s].id}
        \/ s \in log[i].dropped \cup log[i].skipped

(* A session's timeline shows a decision answered before another began     *)
(* before that other, within one tick of the clock too (api.py:234-240:    *)
(* "input -> output").                                                     *)
TimelineInOrder ==
    \A d, e \in table : d.id \in log[e.id].earlier => Precedes(d, e)

(* The sections of one answer of GET /stats may disagree, as rows are      *)
(* committed between its queries, but only one way: a later section counts *)
(* every row an earlier one counted (api.py:250-305).                      *)
StatsSectionsGrow ==
    \A i, j \in DOMAIN stats.seen : i < j => stats.seen[i] \subseteq stats.seen[j]
=============================================================================
