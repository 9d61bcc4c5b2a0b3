-------------------------- MODULE EventLog_proofs --------------------------
(***************************************************************************)
(* Proofs about EventLog, for any writers, streams, filters, sizes and     *)
(* bounds: a decision is recorded when it is answered, a stream sends what *)
(* a query would find, publish forgets no subscriber, a timeline is in     *)
(* order, and the sections of one answer of GET /stats only grow.          *)
(***************************************************************************)
EXTENDS EventLog, SequenceTheorems, WellFoundedInduction, TLAPS

-----------------------------------------------------------------------------
(* Sequences.                                                              *)

LEMMA LeastOf ==
  ASSUME NEW T \in SUBSET Nat, T # {}
  PROVE  Min(T) \in T
  <1> DEFINE Less == {p \in Nat \X Nat : p[1] < p[2]}
  <1>1. OpToRel(<, Nat) = Less
      BY DEF OpToRel
  <1>2. IsWellFoundedOn(Less, Nat)
      BY <1>1, NatLessThanWellFounded
  <1>3. \A x, y \in Nat : y < x => <<y, x>> \in Less
      OBVIOUS
  <1>4. \E x \in T : \A y \in T : ~(<<y, x>> \in Less)
    <2> HIDE DEF Less
    <2> QED BY <1>2, WFMin
  <1>5. PICK x \in T : \A y \in T : ~(<<y, x>> \in Less)
      BY <1>4
  <1>6. ASSUME NEW y \in T PROVE x <= y
    <2>1. x \in Nat /\ y \in Nat /\ ~(<<y, x>> \in Less)
      <3> HIDE DEF Less
      <3> QED BY <1>5
    <2> HIDE DEF Less
    <2>2. ~(y < x)
        BY <1>3, <2>1
    <2> QED BY <2>1, <2>2
  <1> QED BY <1>6 DEF Min

(* list.remove leaves a list of the same kind of things.                   *)
LEMMA RemoveFirstTyped ==
  ASSUME NEW S, NEW s \in Seq(S), NEW e
  PROVE  RemoveFirst(s, e) \in Seq(S)
  <1> SUFFICES ASSUME \E i \in 1 .. Len(s) : s[i] = e
               PROVE  RemoveAt(s, SelectInSeq(s, LAMBDA v : v = e)) \in Seq(S)
      BY DEF RemoveFirst
  <1> DEFINE I == {i \in 1 .. Len(s) : s[i] = e}
             k == SelectInSeq(s, LAMBDA v : v = e)
  <1>1. Len(s) \in Nat /\ \A i \in 1 .. Len(s) : s[i] \in S
      BY LenProperties, ElementOfSeq
  <1>2. k = Min(I)
      BY DEF SelectInSeq
  <1> HIDE DEF k
  <1>3. k \in 1 .. Len(s)
    <2>1. I \in SUBSET Nat /\ I # {} /\ I \subseteq 1 .. Len(s)
        BY <1>1
    <2> HIDE DEF I
    <2> QED BY <1>2, <2>1, LeastOf
  <1>4. /\ SubSeq(s, 1, k - 1) \in Seq(S)
        /\ SubSeq(s, k + 1, Len(s)) \in Seq(S)
    <2>1. /\ 1 \in Int /\ k - 1 \in Int /\ k + 1 \in Int /\ Len(s) \in Int
          /\ \A i \in 1 .. k - 1 : s[i] \in S
          /\ \A i \in k + 1 .. Len(s) : s[i] \in S
        BY <1>1, <1>3
    <2> QED BY <2>1, SubSeqProperties
  <1>5. RemoveAt(s, k) \in Seq(S)
      BY <1>4, ConcatProperties DEF RemoveAt
  <1> QED BY <1>5 DEF k

LEMMA RangeOfAppend ==
  ASSUME NEW S, NEW s \in Seq(S), NEW e \in S
  PROVE  Range(Append(s, e)) = Range(s) \cup {e}
  <1>1. /\ DOMAIN s = 1 .. Len(s) /\ Len(s) \in Nat
        /\ DOMAIN Append(s, e) = 1 .. Len(s) + 1
        /\ \A i \in 1 .. Len(s) : Append(s, e)[i] = s[i]
        /\ Append(s, e)[Len(s) + 1] = e
    <2>1. Append(s, e) \in Seq(S) /\ Len(Append(s, e)) = Len(s) + 1
        BY AppendProperties
    <2> QED BY <2>1, AppendProperties, LenProperties
  <1>2. Range(Append(s, e)) \subseteq Range(s) \cup {e}
      BY <1>1 DEF Range
  <1>3. Range(s) \subseteq Range(Append(s, e))
      BY <1>1 DEF Range
  <1>4. e \in Range(Append(s, e))
      BY <1>1 DEF Range
  <1> QED BY <1>2, <1>3, <1>4

LEMMA RangeOfTail ==
  ASSUME NEW S, NEW s \in Seq(S), s # <<>>
  PROVE  Range(s) = {Head(s)} \cup Range(Tail(s))
  <1>1. /\ DOMAIN s = 1 .. Len(s) /\ Len(s) \in Nat \ {0}
        /\ DOMAIN Tail(s) = 1 .. Len(s) - 1
        /\ \A i \in 1 .. Len(s) - 1 : Tail(s)[i] = s[i + 1]
        /\ Head(s) = s[1]
    <2>1. Tail(s) \in Seq(S) /\ Len(Tail(s)) = Len(s) - 1
        BY HeadTailProperties
    <2> QED BY <2>1, HeadTailProperties, LenProperties, EmptySeq
  <1>2. Range(Tail(s)) \subseteq Range(s)
      BY <1>1 DEF Range
  <1>3. Head(s) \in Range(s)
      BY <1>1 DEF Range
  <1>4. ASSUME NEW i \in 1 .. Len(s)
        PROVE  s[i] \in {Head(s)} \cup Range(Tail(s))
    <2>1. CASE i = 1
        BY <1>1, <2>1
    <2>2. CASE i # 1
      <3>1. i - 1 \in 1 .. Len(s) - 1 /\ Tail(s)[i - 1] = s[i]
          BY <1>1, <2>2
      <3> QED BY <1>1, <3>1 DEF Range
    <2> QED BY <2>1, <2>2
  <1> QED BY <1>1, <1>2, <1>3, <1>4 DEF Range

LEMMA IdsOfRange == ASSUME NEW s PROVE Ids(s) = {e.id : e \in Range(s)}
  BY DEF Ids, Range

-----------------------------------------------------------------------------
(* Types.                                                                  *)
Pcs == {"idle", "insert", "commit", "publish", "put", "file"}
EventType ==
    [id : Nat, direction : Directions \cup {"none"}, eventId : Nat, created : Nat]
LogType ==
    [earlier : SUBSET Nat, offered : SUBSET Streams, dropped : SUBSET Streams,
     skipped : SUBSET Streams, unwritable : BOOLEAN, answered : BOOLEAN]

WriterTypes ==
    /\ pc \in [Writers -> Pcs]
    /\ event \in [Writers -> EventType]
    /\ snapshot \in [Writers -> Seq(Streams)]
    /\ at \in [Writers -> Nat]
StreamTypes ==
    /\ subscribers \in Seq(Streams)
    /\ spc \in [Streams -> {"new", "top", "get", "closed"}]
    /\ worker \in [Streams -> {"none", "waiting", "took", "empty"}]
    /\ queue \in [Streams -> Seq(EventType)]
    /\ held \in [Streams -> EventType]
    /\ sent \in [Streams -> Seq(EventType)]
TableTypes ==
    /\ clock \in Nat /\ lastId \in Nat
    /\ table \subseteq EventType /\ file \subseteq Nat
LogTypes ==
    /\ begun \in Nat
    /\ log \in Seq(LogType) /\ Len(log) = begun
TypeOK == WriterTypes /\ StreamTypes /\ TableTypes /\ LogTypes

(* A decision that is not answered is at one writer.                       *)
CallsInv ==
    /\ \A w \in Writers : pc[w] # "idle" =>
           event[w].id \in DOMAIN log /\ ~log[event[w].id].answered
    /\ \A v, w \in Writers :
           pc[v] # "idle" /\ pc[w] # "idle" /\ event[v].id = event[w].id => v = w
    /\ \A w \in Writers : pc[w] = "put" => at[w] >= 1

LEMMA EventTyped ==
  ASSUME NEW i \in Nat, NEW d \in Directions
  PROVE  Event(i, d) \in EventType
  BY DEF Event, EventType

LEMMA RowTyped ==
  ASSUME NEW e \in EventType, NEW i \in Nat, NEW t \in Nat
  PROVE  [e EXCEPT !.eventId = i, !.created = t] \in EventType
  BY DEF EventType

LEMMA LogDomain == LogTypes => DOMAIN log = 1 .. begun
  BY LenProperties DEF LogTypes

(* What an update of one entry leaves.                                     *)
LEMMA EntryChanged ==
  ASSUME LogTypes, NEW i \in DOMAIN log, NEW r \in LogType,
         log' = [log EXCEPT ![i] = r], begun' = begun
  PROVE  /\ LogTypes'
         /\ DOMAIN log' = DOMAIN log
         /\ log'[i] = r
         /\ \A j \in DOMAIN log : j # i => log'[j] = log[j]
  <1>1. /\ log \in Seq(LogType) /\ DOMAIN log = 1 .. Len(log)
        /\ i \in 1 .. Len(log)
      BY LenProperties DEF LogTypes
  <1>2. log' \in Seq(LogType) /\ Len(log') = Len(log)
      BY <1>1, ExceptSeq
  <1> QED BY <1>1, <1>2 DEF LogTypes

(* What a step may do to the log: entries gain streams and are answered.   *)
Kept(old, new) ==
    /\ new.earlier = old.earlier
    /\ old.dropped \subseteq new.dropped
    /\ old.skipped \subseteq new.skipped
    /\ old.answered => new.answered
    /\ old.unwritable => new.unwritable
LogKept ==
    /\ DOMAIN log' = DOMAIN log
    /\ \A j \in DOMAIN log : Kept(log[j], log'[j])

LEMMA Unchanged == UNCHANGED log => LogKept
  BY DEF LogKept, Kept

LEMMA EntryTyped ==
  ASSUME LogTypes, NEW i \in DOMAIN log
  PROVE  log[i] \in LogType
  BY LenProperties, ElementOfSeq DEF LogTypes

LEMMA AnsweredEntry ==
  ASSUME LogTypes, NEW i \in DOMAIN log, begun' = begun,
         log' = [log EXCEPT ![i].answered = TRUE]
  PROVE  /\ LogTypes' /\ LogKept
         /\ \A j \in DOMAIN log : log'[j].offered = log[j].offered
         /\ log'[i].answered
         /\ \A j \in DOMAIN log : j # i => log'[j] = log[j]
  <1> DEFINE r == [log[i] EXCEPT !.answered = TRUE]
  <1>1. /\ r \in LogType /\ r.answered /\ Kept(log[i], r)
        /\ r.offered = log[i].offered
      BY EntryTyped DEF LogType, Kept
  <1>2. log' = [log EXCEPT ![i] = r]
      OBVIOUS
  <1> HIDE DEF r
  <1>3. /\ LogTypes' /\ DOMAIN log' = DOMAIN log /\ log'[i] = r
        /\ \A j \in DOMAIN log : j # i => log'[j] = log[j]
      BY <1>1, <1>2, EntryChanged
  <1> QED BY <1>1, <1>3 DEF LogKept, Kept

LEMMA UnwritableEntry ==
  ASSUME LogTypes, NEW i \in DOMAIN log, begun' = begun,
         log' = [[log EXCEPT ![i].answered = TRUE] EXCEPT ![i].unwritable = TRUE]
  PROVE  /\ LogTypes' /\ LogKept
         /\ \A j \in DOMAIN log : log'[j].offered = log[j].offered
         /\ log'[i].answered /\ log'[i].unwritable
         /\ \A j \in DOMAIN log : j # i => log'[j] = log[j]
  <1> DEFINE r == [log[i] EXCEPT !.answered = TRUE, !.unwritable = TRUE]
  <1>1. /\ r \in LogType /\ r.answered /\ r.unwritable /\ Kept(log[i], r)
        /\ r.offered = log[i].offered
      BY EntryTyped DEF LogType, Kept
  <1>2. log' = [log EXCEPT ![i] = r]
      OBVIOUS
  <1> HIDE DEF r
  <1>3. /\ LogTypes' /\ DOMAIN log' = DOMAIN log /\ log'[i] = r
        /\ \A j \in DOMAIN log : j # i => log'[j] = log[j]
      BY <1>1, <1>2, EntryChanged
  <1> QED BY <1>1, <1>3 DEF LogKept, Kept

LEMMA OfferedEntry ==
  ASSUME LogTypes, NEW i \in DOMAIN log, begun' = begun, NEW S \in SUBSET Streams,
         log' = [log EXCEPT ![i].offered = S]
  PROVE  /\ LogTypes' /\ LogKept
         /\ log'[i].offered = S /\ (log'[i].answered <=> log[i].answered)
         /\ \A j \in DOMAIN log : j # i => log'[j] = log[j]
  <1> DEFINE r == [log[i] EXCEPT !.offered = S]
  <1>1. /\ r \in LogType /\ (r.answered <=> log[i].answered) /\ Kept(log[i], r)
        /\ r.offered = S
      BY EntryTyped DEF LogType, Kept
  <1>2. log' = [log EXCEPT ![i] = r]
      OBVIOUS
  <1> HIDE DEF r
  <1>3. /\ LogTypes' /\ DOMAIN log' = DOMAIN log /\ log'[i] = r
        /\ \A j \in DOMAIN log : j # i => log'[j] = log[j]
      BY <1>1, <1>2, EntryChanged
  <1> QED BY <1>1, <1>3 DEF LogKept, Kept

LEMMA DroppedEntry ==
  ASSUME LogTypes, NEW i \in DOMAIN log, begun' = begun, NEW s \in Streams,
         \/ log' = [log EXCEPT ![i].dropped = @ \cup {s}]
         \/ log' = [log EXCEPT ![i].skipped = @ \cup {s}]
  PROVE  /\ LogTypes' /\ LogKept
         /\ \A j \in DOMAIN log : log'[j].offered = log[j].offered
         /\ s \in log'[i].dropped \cup log'[i].skipped
         /\ \A j \in DOMAIN log : log'[j].answered <=> log[j].answered
  <1> DEFINE r == [log[i] EXCEPT !.dropped = @ \cup {s}]
             q == [log[i] EXCEPT !.skipped = @ \cup {s}]
  <1>1. /\ r \in LogType /\ Kept(log[i], r) /\ r.offered = log[i].offered
        /\ s \in r.dropped /\ (r.answered <=> log[i].answered)
      BY EntryTyped DEF LogType, Kept
  <1>2. /\ q \in LogType /\ Kept(log[i], q) /\ q.offered = log[i].offered
        /\ s \in q.skipped /\ (q.answered <=> log[i].answered)
      BY EntryTyped DEF LogType, Kept
  <1>3. \/ log' = [log EXCEPT ![i] = r]
        \/ log' = [log EXCEPT ![i] = q]
      OBVIOUS
  <1> HIDE DEF r, q
  <1>4. /\ LogTypes' /\ DOMAIN log' = DOMAIN log
        /\ log'[i] = r \/ log'[i] = q
        /\ \A j \in DOMAIN log : j # i => log'[j] = log[j]
      BY <1>1, <1>2, <1>3, EntryChanged
  <1> QED BY <1>1, <1>2, <1>4 DEF LogKept, Kept

-----------------------------------------------------------------------------
(* The rows, and what the streams hold of them.                            *)
RowsInv ==
    /\ \A e \in table : /\ e.id \in DOMAIN log
                        /\ e.eventId <= lastId /\ e.created <= clock
    /\ \A w \in Writers : pc[w] = "commit" =>
           event[w].eventId <= lastId /\ event[w].created <= clock
    /\ \A w \in Writers : pc[w] \in {"publish", "put"} => event[w] \in table
QueuesInv ==
    \A s \in Streams : /\ Range(queue[s]) \subseteq table
                       /\ Range(sent[s]) \subseteq FetchEvents(Wanted[s])
                       /\ worker[s] = "took" => held[s] \in table

(* A worker that has taken nothing holds nothing, and a stream that does   *)
(* not wait has no worker.                                                 *)
WorkersInv ==
    \A s \in Streams : /\ worker[s] # "took" => held[s] = NoEvent
                       /\ spc[s] \in {"new", "top"} => worker[s] = "none"
CoreInv == TypeOK /\ CallsInv /\ RowsInv /\ QueuesInv /\ WorkersInv

LEMMA BeginLog ==
  ASSUME LogTypes, begun' = begun + 1, log' = Append(log, LogEntry(Answers))
  PROVE  /\ LogTypes'
         /\ DOMAIN log = 1 .. begun /\ DOMAIN log' = 1 .. begun + 1
         /\ \A j \in DOMAIN log : log'[j] = log[j]
         /\ log'[begun + 1] = LogEntry(Answers)
  <1>1. DOMAIN log = 1 .. begun /\ begun \in Nat
      BY LogDomain DEF LogTypes
  <1>2. LogEntry(Answers) \in LogType
      BY <1>1 DEF LogEntry, LogType, Answers
  <1> DEFINE r == LogEntry(Answers)
  <1> HIDE DEF r
  <1>3. log \in Seq(LogType) /\ Len(log) = begun /\ r \in LogType
        /\ log' = Append(log, r)
      BY <1>2 DEF LogTypes, r
  <1>4. log' \in Seq(LogType) /\ Len(log') = begun + 1
      BY <1>3, AppendProperties
  <1>5. DOMAIN log' = 1 .. begun + 1
      BY <1>4, LenProperties
  <1>6. /\ \A j \in 1 .. begun : log'[j] = log[j]
        /\ log'[begun + 1] = r
      BY <1>3, AppendProperties
  <1> QED BY <1>1, <1>4, <1>5, <1>6 DEF LogTypes, r

LEMMA HeadOfQueue ==
  ASSUME TypeOK, RowsInv, QueuesInv, NEW s \in Streams, queue[s] # <<>>
  PROVE  /\ Head(queue[s]) \in table /\ Head(queue[s]) \in EventType
         /\ Head(queue[s]).id \in DOMAIN log
         /\ Range(queue[s]) = {Head(queue[s])} \cup Range(Tail(queue[s]))
         /\ Tail(queue[s]) \in Seq(EventType)
  <1>1. queue[s] \in Seq(EventType)
      BY DEF TypeOK, StreamTypes
  <1>2. /\ Range(queue[s]) = {Head(queue[s])} \cup Range(Tail(queue[s]))
        /\ Tail(queue[s]) \in Seq(EventType)
      BY <1>1, RangeOfTail, HeadTailProperties
  <1>3. Head(queue[s]) \in table
      BY <1>2 DEF QueuesInv
  <1> QED BY <1>2, <1>3 DEF RowsInv, TypeOK, TableTypes

LEMMA HeldTyped ==
  ASSUME TypeOK, RowsInv, QueuesInv, NEW s \in Streams, worker[s] = "took"
  PROVE  /\ held[s] \in table /\ held[s] \in EventType
         /\ held[s].id \in DOMAIN log
  BY DEF QueuesInv, RowsInv, TypeOK, StreamTypes

(* The stream a writer is at.                                              *)
LEMMA TargetTyped ==
  ASSUME TypeOK, CallsInv, NEW w \in Writers, Put(w)
  PROVE  /\ snapshot[w][at[w]] \in Streams /\ at[w] \in DOMAIN snapshot[w]
         /\ event[w] \in EventType /\ event[w].id \in DOMAIN log
  <1>1. snapshot[w] \in Seq(Streams) /\ at[w] \in Nat /\ event[w] \in EventType
      BY DEF TypeOK, WriterTypes
  <1>2. /\ at[w] >= 1 /\ at[w] <= Len(snapshot[w]) /\ event[w].id \in DOMAIN log
      BY DEF Put, Targets, CallsInv
  <1>3. at[w] \in 1 .. Len(snapshot[w])
      BY <1>1, <1>2, LenProperties
  <1> QED BY <1>1, <1>2, <1>3, LenProperties, ElementOfSeq

(* What each action does to the log: most leave what the answers and the   *)
(* deliveries are judged by, and so does a decision's first step for the   *)
(* others; publish and the last step change the entry of their decision.   *)
OthersKept(i) == \A j \in DOMAIN log : j # i => log'[j] = log[j]
LogQuiet ==
    /\ LogKept /\ begun' = begun
    /\ \A j \in DOMAIN log : log'[j].offered = log[j].offered
    /\ \A j \in DOMAIN log : log'[j].answered <=> log[j].answered
Offers(w) ==
    /\ Publish(w) /\ LogKept /\ begun' = begun /\ OthersKept(event[w].id)
    /\ log'[event[w].id].offered = Range(subscribers)
    /\ ~log'[event[w].id].answered
Returns(w) ==
    /\ Published(w) \/ WriteFile(w)
    /\ pc[w] # "idle" /\ pc' = [pc EXCEPT ![w] = "idle"] /\ event' = event
    /\ LogKept /\ begun' = begun /\ OthersKept(event[w].id)
    /\ log'[event[w].id].answered
    /\ log'[event[w].id].offered = log[event[w].id].offered
    /\ pc[w] = "file" => event[w].id \in file' \/ log'[event[w].id].unwritable

LEMMA NextLog ==
  ASSUME CoreInv, [Next]_vars
  PROVE  /\ LogTypes'
         /\ \/ LogQuiet
            \/ \E w \in Writers : Offers(w)
            \/ \E w \in Writers : Returns(w)
            \/ \E w \in Writers, d \in Directions : Begin(w, d)
  <1> USE DEF CoreInv
  <1>0. LogTypes
      BY DEF TypeOK
  <1>1. CASE UNCHANGED <<log, begun>>
      BY <1>0, <1>1, Unchanged DEF LogTypes, LogQuiet
  <1>2. CASE \E w \in Writers, d \in Directions : Begin(w, d)
      BY <1>0, <1>2, BeginLog DEF Begin
  <1>3. ASSUME NEW w \in Writers, Publish(w)
        PROVE  LogTypes' /\ Offers(w)
    <2>1. event[w].id \in DOMAIN log /\ ~log[event[w].id].answered
        BY <1>3 DEF Publish, CallsInv
    <2>2. Range(subscribers) \in SUBSET Streams
        BY ElementOfSeq, LenProperties DEF TypeOK, StreamTypes, Range
    <2> DEFINE i == event[w].id  S == Range(subscribers)
    <2>3. log' = [log EXCEPT ![i].offered = S] /\ begun' = begun
        BY <1>3 DEF Publish
    <2>4. LogTypes' /\ LogKept
      <3> HIDE DEF i, S
      <3> QED BY <1>0, <2>1, <2>2, <2>3, OfferedEntry DEF i, S
    <2>5. /\ log'[i].offered = S
          /\ log'[i].answered <=> log[i].answered
          /\ OthersKept(i)
      <3> HIDE DEF i, S
      <3> QED BY <1>0, <2>1, <2>2, <2>3, OfferedEntry DEF i, S, OthersKept
    <2> QED BY <1>3, <2>1, <2>3, <2>4, <2>5 DEF Offers
  <1>4. ASSUME NEW w \in Writers, Put(w)
        PROVE  LogTypes' /\ LogQuiet
    <2>1. /\ snapshot[w][at[w]] \in Streams /\ event[w].id \in DOMAIN log
          /\ begun' = begun
        BY <1>4, TargetTyped DEF Put
    <2>2. CASE UNCHANGED log
        BY <1>0, <2>1, <2>2, Unchanged DEF LogTypes, LogQuiet
    <2>3. CASE log' = [log EXCEPT ![event[w].id].dropped = @ \cup {snapshot[w][at[w]]}]
        BY <1>0, <2>1, <2>3, DroppedEntry DEF LogQuiet
    <2> QED BY <1>4, <2>2, <2>3 DEF Put, Targets
  <1>5. ASSUME NEW w \in Writers, WriteFile(w) \/ Published(w)
        PROVE  LogTypes' /\ (Returns(w) \/ LogQuiet)
    <2>1. /\ event[w].id \in DOMAIN log /\ begun' = begun /\ pc[w] # "idle"
          /\ event' = event
        BY <1>5 DEF Published, WriteFile, CallsInv
    <2>2. CASE UNCHANGED log /\ Published(w)
        BY <1>0, <2>1, <2>2, Unchanged DEF LogTypes, LogQuiet
    <2>3. CASE /\ log' = [log EXCEPT ![event[w].id].answered = TRUE]
               /\ pc' = [pc EXCEPT ![w] = "idle"]
               /\ pc[w] = "file" => event[w].id \in file'
      <3>1. /\ LogTypes' /\ LogKept
            /\ \A j \in DOMAIN log : log'[j].offered = log[j].offered
            /\ log'[event[w].id].answered
            /\ \A j \in DOMAIN log : j # event[w].id => log'[j] = log[j]
          BY <1>0, <2>1, <2>3, AnsweredEntry
      <3> QED BY <1>5, <2>1, <2>3, <3>1 DEF Returns, OthersKept
    <2>4. CASE /\ log' = [[log EXCEPT ![event[w].id].answered = TRUE]
                            EXCEPT ![event[w].id].unwritable = TRUE]
               /\ pc' = [pc EXCEPT ![w] = "idle"]
      <3>1. /\ LogTypes' /\ LogKept
            /\ \A j \in DOMAIN log : log'[j].offered = log[j].offered
            /\ log'[event[w].id].answered /\ log'[event[w].id].unwritable
            /\ \A j \in DOMAIN log : j # event[w].id => log'[j] = log[j]
          BY <1>0, <2>1, <2>4, UnwritableEntry
      <3> QED BY <1>5, <2>1, <2>4, <3>1 DEF Returns, OthersKept
    <2> QED BY <1>5, <2>1, <2>2, <2>3, <2>4 DEF Published, WriteFile, Answered
  <1>6. ASSUME NEW s \in Streams, Get(s)
        PROVE  LogTypes' /\ LogQuiet
    <2>1. held[s].id \in DOMAIN log
        BY <1>6, HeldTyped DEF Get
    <2>2. begun' = begun
        BY <1>6 DEF Get, StreamOnly
    <2>3. CASE UNCHANGED log
        BY <1>0, <2>2, <2>3, Unchanged DEF LogTypes, LogQuiet
    <2>4. CASE log' = [log EXCEPT ![held[s].id].skipped = @ \cup {s}]
        BY <1>0, <2>1, <2>2, <2>4, DroppedEntry DEF LogQuiet
    <2> QED BY <1>6, <2>3, <2>4 DEF Get
  <1>7. ASSUME NEW w \in Writers, Insert(w) \/ Commit(w) \/ InsertFails(w)
        PROVE  UNCHANGED <<log, begun>>
      BY <1>7 DEF Insert, Commit, InsertFails
  <1>8. ASSUME NEW s \in Streams, \/ Leave(s) \/ Stay(s) \/ Heartbeat(s)
                                  \/ Take(s) \/ TimesOut(s)
                                  \/ Connect(s) \/ Disconnect(s) \/ Cancel(s)
        PROVE  UNCHANGED <<log, begun>>
      BY <1>8 DEF Leave, Stay, Heartbeat, Connect, Disconnect, Cancel, Unsubscribe,
                  Take, TimesOut, StreamOnly
  <1>9. ASSUME Tick \/ StatsSection
        PROVE  UNCHANGED <<log, begun>>
      BY <1>9 DEF Tick, StatsSection, QueriesOnly
  <1>10. CASE UNCHANGED vars
      BY <1>1, <1>10 DEF vars
  <1> QED BY <1>1, <1>2, <1>3, <1>4, <1>5, <1>6, <1>7, <1>8, <1>9, <1>10
          DEF Next, WriterStep, StreamStep

LEMMA InitCore == Init => CoreInv
  <1> SUFFICES ASSUME Init PROVE CoreInv
      OBVIOUS
  <1>1. NoEvent \in EventType
      BY DEF NoEvent, Event, EventType
  <1>2. TypeOK
    <2>1. WriterTypes
        BY <1>1, EmptySeq DEF Init, WriterTypes, Pcs
    <2>2. StreamTypes
        BY <1>1, EmptySeq DEF Init, StreamTypes
    <2>3. TableTypes
        BY DEF Init, TableTypes
    <2>4. LogTypes
        BY EmptySeq DEF Init, LogTypes
    <2> QED BY <2>1, <2>2, <2>3, <2>4 DEF TypeOK
  <1>3. CallsInv
      BY DEF Init, CallsInv
  <1>4. RowsInv
      BY DEF Init, RowsInv
  <1>5. QueuesInv
      BY DEF Init, QueuesInv, Range
  <1>6. WorkersInv
      BY DEF Init, WorkersInv
  <1> QED BY <1>2, <1>3, <1>4, <1>5, <1>6 DEF CoreInv

LEMMA NextWriterTypes == CoreInv /\ [Next]_vars => WriterTypes'
  <1> SUFFICES ASSUME CoreInv, [Next]_vars PROVE WriterTypes'
      OBVIOUS
  <1> USE DEF WriterTypes, Pcs
  <1>0. WriterTypes /\ clock \in Nat /\ lastId \in Nat /\ begun \in Nat
      BY DEF CoreInv, TypeOK, TableTypes, LogTypes
  <1>1. CASE UNCHANGED writerVars
      BY <1>0, <1>1 DEF writerVars
  <1>2. ASSUME NEW w \in Writers, NEW d \in Directions, Begin(w, d)
        PROVE  WriterTypes'
    <2>1. Event(begun + 1, d) \in EventType
        BY <1>0, EventTyped
    <2> QED BY <1>0, <1>2, <2>1 DEF Begin
  <1>3. ASSUME NEW w \in Writers, Insert(w)
        PROVE  WriterTypes'
    <2>1. [event[w] EXCEPT !.eventId = lastId + 1, !.created = clock] \in EventType
      <3>1. event[w] \in EventType /\ lastId + 1 \in Nat /\ clock \in Nat
          BY <1>0
      <3> QED BY <3>1, RowTyped
    <2>2. event' = [event EXCEPT ![w] =
                      [event[w] EXCEPT !.eventId = lastId + 1, !.created = clock]]
        BY <1>3 DEF Insert
    <2> DEFINE e == [event[w] EXCEPT !.eventId = lastId + 1, !.created = clock]
    <2> HIDE DEF e
    <2>3. e \in EventType /\ event' = [event EXCEPT ![w] = e]
        BY <2>1, <2>2 DEF e
    <2>4. event' \in [Writers -> EventType]
        BY <1>0, <2>3
    <2>5. pc' = [pc EXCEPT ![w] = "commit"] /\ UNCHANGED <<snapshot, at>>
        BY <1>3 DEF Insert
    <2>6. pc' \in [Writers -> Pcs]
        BY <1>0, <2>5
    <2> QED BY <1>0, <2>4, <2>5, <2>6
  <1>4. ASSUME NEW w \in Writers, Commit(w) \/ InsertFails(w)
        PROVE  WriterTypes'
      BY <1>0, <1>4 DEF Commit, InsertFails
  <1>5. ASSUME NEW w \in Writers, Publish(w)
        PROVE  WriterTypes'
      BY <1>0, <1>5 DEF Publish, CoreInv, TypeOK, StreamTypes
  <1>6. ASSUME NEW w \in Writers, Put(w)
        PROVE  WriterTypes'
    <2>1. UNCHANGED <<event, snapshot>> /\ at' = [at EXCEPT ![w] = @ + 1]
        BY <1>6 DEF Put
    <2>2. at' \in [Writers -> Nat]
        BY <1>0, <2>1
    <2>3. pc' \in [Writers -> Pcs]
        BY <1>0, <1>6 DEF Put
    <2> QED BY <1>0, <2>1, <2>2, <2>3
  <1>7. ASSUME NEW w \in Writers, Published(w) \/ WriteFile(w)
        PROVE  WriterTypes'
    <2> DEFINE none == <<>>
    <2>1. none \in Seq(Streams)
        BY EmptySeq
    <2>2. /\ pc' = [pc EXCEPT ![w] = "file"] \/ pc' = [pc EXCEPT ![w] = "idle"]
          /\ UNCHANGED snapshot \/ snapshot' = [snapshot EXCEPT ![w] = none]
          /\ UNCHANGED at \/ at' = [at EXCEPT ![w] = 0]
          /\ UNCHANGED event
        BY <1>7 DEF Published, WriteFile
    <2> HIDE DEF none
    <2>3. snapshot' \in [Writers -> Seq(Streams)]
        BY <1>0, <2>1, <2>2
    <2>4. pc' \in [Writers -> Pcs]
        BY <1>0, <2>2
    <2>5. at' \in [Writers -> Nat]
        BY <1>0, <2>2
    <2> QED BY <1>0, <2>2, <2>3, <2>4, <2>5
  <1>8. ASSUME NEW s \in Streams, \/ Leave(s) \/ Stay(s) \/ Heartbeat(s) \/ Get(s)
                                  \/ Take(s) \/ TimesOut(s)
                                  \/ Connect(s) \/ Disconnect(s) \/ Cancel(s)
        PROVE  UNCHANGED writerVars
      BY <1>8 DEF Leave, Stay, Heartbeat, Connect, Disconnect, Cancel, Unsubscribe,
                  Take, TimesOut, Get, StreamOnly
  <1>9. ASSUME Tick \/ StatsSection
        PROVE  UNCHANGED writerVars
      BY <1>9 DEF Tick, StatsSection, QueriesOnly
  <1>10. CASE UNCHANGED vars
      BY <1>1, <1>10 DEF vars
  <1> QED BY <1>1, <1>2, <1>3, <1>4, <1>5, <1>6, <1>7, <1>8, <1>9, <1>10
          DEF Next, WriterStep, StreamStep

LEMMA NextStreamTypes == CoreInv /\ [Next]_vars => StreamTypes'
  <1> SUFFICES ASSUME CoreInv, [Next]_vars PROVE StreamTypes'
      OBVIOUS
  <1> USE DEF StreamTypes
  <1>0. StreamTypes
      BY DEF CoreInv, TypeOK
  <1>1. CASE UNCHANGED <<subscribers, queue, sent, spc, worker, held>>
      BY <1>0, <1>1
  <1>2. ASSUME NEW s \in Streams, Connect(s)
        PROVE  StreamTypes'
      BY <1>0, <1>2, AppendProperties DEF Connect, workerVars
  <1>3. ASSUME NEW s \in Streams, Unsubscribe(s),
               \/ UNCHANGED worker
               \/ worker' = [worker EXCEPT ![s] = "none"]
        PROVE  StreamTypes'
    <2>1. RemoveFirst(subscribers, s) \in Seq(Streams)
        BY <1>0, RemoveFirstTyped
    <2> QED BY <1>0, <1>3, <2>1 DEF Unsubscribe
  <1>4. ASSUME NEW s \in Streams, Get(s)
        PROVE  StreamTypes'
    <2>1. held[s] \in EventType /\ NoEvent \in EventType
        BY <1>0 DEF NoEvent, Event, EventType
    <2> DEFINE e == held[s]
    <2> HIDE DEF e
    <2>2. /\ e \in EventType
          /\ \/ sent' = [sent EXCEPT ![s] = Append(@, e)]
             \/ UNCHANGED sent
          /\ held' = [held EXCEPT ![s] = NoEvent]
          /\ worker' = [worker EXCEPT ![s] = "none"]
          /\ spc' = [spc EXCEPT ![s] = "top"]
          /\ UNCHANGED <<subscribers, queue>>
        BY <1>4, <2>1 DEF Get, e
    <2>3. sent[s] \in Seq(EventType)
        BY <1>0
    <2>4. Append(sent[s], e) \in Seq(EventType)
        BY <2>2, <2>3, AppendProperties
    <2> QED BY <1>0, <2>1, <2>2, <2>4
  <1>5. ASSUME NEW s \in Streams, Take(s)
        PROVE  StreamTypes'
    <2>1. Head(queue[s]) \in EventType /\ Tail(queue[s]) \in Seq(EventType)
        BY <1>5, HeadOfQueue DEF Take, CoreInv
    <2> DEFINE e == Head(queue[s])  q == Tail(queue[s])
    <2> HIDE DEF e, q
    <2>2. /\ e \in EventType /\ q \in Seq(EventType)
          /\ queue' = [queue EXCEPT ![s] = q]
          /\ held' = [held EXCEPT ![s] = e]
          /\ worker' = [worker EXCEPT ![s] = "took"]
          /\ UNCHANGED <<subscribers, spc, sent>>
        BY <1>5, <2>1 DEF Take, e, q
    <2> QED BY <1>0, <2>2
  <1>6. ASSUME NEW w \in Writers, Put(w)
        PROVE  StreamTypes'
    <2> DEFINE s == snapshot[w][at[w]]
    <2>1. s \in Streams /\ event[w] \in EventType
        BY <1>6, TargetTyped DEF CoreInv
    <2>2. \/ queue' = [queue EXCEPT ![s] = Append(@, event[w])]
          \/ UNCHANGED queue
        BY <1>6 DEF Put, Targets
    <2>3. UNCHANGED <<subscribers, sent, spc, worker, held>>
        BY <1>6 DEF Put, workerVars
    <2> HIDE DEF s
    <2>4. Append(queue[s], event[w]) \in Seq(EventType)
      <3>1. queue[s] \in Seq(EventType)
          BY <1>0, <2>1
      <3> QED BY <2>1, <3>1, AppendProperties
    <2> QED BY <1>0, <2>2, <2>3, <2>4
  <1>7. ASSUME NEW w \in Writers, \/ Insert(w) \/ Commit(w) \/ InsertFails(w)
                                  \/ Publish(w) \/ Published(w) \/ WriteFile(w)
        PROVE  UNCHANGED <<subscribers, queue, sent, spc, worker, held>>
      BY <1>7 DEF Insert, Commit, InsertFails, Publish, Published, WriteFile,
                  streamVars, workerVars
  <1>8. ASSUME NEW w \in Writers, NEW d \in Directions, Begin(w, d)
        PROVE  UNCHANGED <<subscribers, queue, sent, spc, worker, held>>
      BY <1>8 DEF Begin, streamVars, workerVars
  <1>9. ASSUME NEW s \in Streams,
               Stay(s) \/ Heartbeat(s) \/ TimesOut(s) \/ Disconnect(s)
        PROVE  StreamTypes'
      BY <1>0, <1>9 DEF Stay, Heartbeat, TimesOut, Disconnect, workerVars
  <1>10. ASSUME Tick \/ StatsSection
        PROVE  UNCHANGED <<subscribers, queue, sent, spc, worker, held>>
      BY <1>10 DEF Tick, StatsSection, QueriesOnly, streamVars, workerVars
  <1>11. CASE UNCHANGED vars
      BY <1>1, <1>11 DEF vars, streamVars, workerVars
  <1>12. ASSUME NEW s \in Streams, Leave(s) \/ Cancel(s)
         PROVE  StreamTypes'
      BY <1>3, <1>12 DEF Leave, Cancel
  <1> QED BY <1>1, <1>2, <1>4, <1>5, <1>6, <1>7, <1>8, <1>9, <1>10, <1>11,
             <1>12 DEF Next, WriterStep, StreamStep

LEMMA NextTableTypes == CoreInv /\ [Next]_vars => TableTypes'
  <1> SUFFICES ASSUME CoreInv, [Next]_vars PROVE TableTypes'
      OBVIOUS
  <1> USE DEF TableTypes
  <1>0. TableTypes
      BY DEF CoreInv, TypeOK
  <1>1. CASE UNCHANGED <<clock, lastId, table, file>>
      BY <1>0, <1>1
  <1>2. ASSUME NEW w \in Writers,
               Insert(w) \/ Commit(w) \/ InsertFails(w) \/ WriteFile(w)
        PROVE  TableTypes'
    <2>1. event[w] \in EventType /\ event[w].id \in Nat
        BY DEF CoreInv, TypeOK, WriterTypes, EventType
    <2> QED BY <1>0, <1>2, <2>1
            DEF Insert, Commit, InsertFails, WriteFile, timeVars, tableVars
  <1>3. CASE Tick
      BY <1>0, <1>3 DEF Tick, QueriesOnly, tableVars
  <1>4. ASSUME NEW w \in Writers, Publish(w) \/ Put(w) \/ Published(w)
        PROVE  UNCHANGED <<clock, lastId, table, file>>
      BY <1>4 DEF Publish, Put, Published, timeVars, tableVars
  <1>5. ASSUME NEW w \in Writers, NEW d \in Directions, Begin(w, d)
        PROVE  UNCHANGED <<clock, lastId, table, file>>
      BY <1>5 DEF Begin, timeVars, tableVars
  <1>6. ASSUME NEW s \in Streams, \/ Leave(s) \/ Stay(s) \/ Heartbeat(s) \/ Get(s)
                                  \/ Take(s) \/ TimesOut(s)
                                  \/ Connect(s) \/ Disconnect(s) \/ Cancel(s)
        PROVE  UNCHANGED <<clock, lastId, table, file>>
      BY <1>6 DEF Leave, Stay, Heartbeat, Connect, Disconnect, Cancel, Unsubscribe,
                  Take, TimesOut, Get, StreamOnly, timeVars, tableVars
  <1>7. ASSUME StatsSection
        PROVE  UNCHANGED <<clock, lastId, table, file>>
      BY <1>7 DEF StatsSection, QueriesOnly, tableVars
  <1>8. CASE UNCHANGED vars
      BY <1>1, <1>8 DEF vars, timeVars, tableVars
  <1> QED BY <1>1, <1>2, <1>3, <1>4, <1>5, <1>6, <1>7, <1>8
          DEF Next, WriterStep, StreamStep

(* A step is one writer's, or leaves the writers alone.                    *)
Proceeds(w) ==
    /\ pc[w] # "idle" /\ pc'[w] # "idle" /\ event'[w].id = event[w].id
    /\ pc'[w] = "put" => at'[w] >= 1
OthersStay(w) ==
    \A v \in Writers \ {w} :
        /\ pc'[v] = pc[v] /\ event'[v] = event[v]
        /\ at'[v] = at[v] /\ snapshot'[v] = snapshot[v]

LEMMA NextWriters ==
  ASSUME CoreInv, [Next]_vars
  PROVE  \/ UNCHANGED writerVars /\ LogQuiet
         \/ \E w \in Writers : OthersStay(w) /\ Proceeds(w) /\ (LogQuiet \/ Offers(w))
         \/ \E w \in Writers : OthersStay(w) /\ Returns(w)
         \/ \E w \in Writers, d \in Directions : OthersStay(w) /\ Begin(w, d)
  <1>0. /\ pc \in [Writers -> Pcs] /\ event \in [Writers -> EventType]
        /\ at \in [Writers -> Nat] /\ snapshot \in [Writers -> Seq(Streams)]
        /\ \A w \in Writers : pc[w] = "put" => at[w] >= 1
      BY DEF CoreInv, TypeOK, WriterTypes, CallsInv
  <1>1. LogQuiet \/ (\E w \in Writers : Offers(w)) \/ (\E w \in Writers : Returns(w))
        \/ \E w \in Writers, d \in Directions : Begin(w, d)
      BY NextLog
  <1>2. ASSUME NEW w \in Writers, NEW d \in Directions, Begin(w, d)
        PROVE  OthersStay(w)
      BY <1>0, <1>2 DEF Begin, OthersStay
  <1>3. ASSUME NEW w \in Writers, Returns(w)
        PROVE  OthersStay(w)
      BY <1>0, <1>3 DEF Returns, Published, WriteFile, OthersStay
  <1>4. ASSUME NEW w \in Writers, Offers(w)
        PROVE  OthersStay(w) /\ Proceeds(w)
      BY <1>0, <1>4 DEF Offers, Publish, OthersStay, Proceeds
  <1>5. ASSUME LogQuiet, NEW w \in Writers, WriterStep(w)
        PROVE  \/ OthersStay(w) /\ Proceeds(w)
               \/ OthersStay(w) /\ Returns(w)
    <2>1. CASE Insert(w) \/ Commit(w) \/ InsertFails(w) \/ Publish(w) \/ Put(w)
      <3>1. CASE Insert(w)
        <4>1. event[w] \in EventType
            BY <1>0
        <4> QED BY <1>0, <3>1, <4>1 DEF Insert, OthersStay, Proceeds, EventType
      <3>2. CASE Commit(w) \/ InsertFails(w)
          BY <1>0, <3>2 DEF Commit, InsertFails, OthersStay, Proceeds
      <3>3. CASE Publish(w)
          BY <1>0, <3>3 DEF Publish, OthersStay, Proceeds
      <3>4. CASE Put(w)
        <4>1. at[w] \in Nat /\ at[w] >= 1 /\ pc[w] = "put"
            BY <1>0, <3>4 DEF Put
        <4>2. /\ at' = [at EXCEPT ![w] = @ + 1]
              /\ UNCHANGED <<pc, event, snapshot>>
            BY <3>4 DEF Put
        <4> QED BY <1>0, <4>1, <4>2 DEF OthersStay, Proceeds
      <3> QED BY <2>1, <3>1, <3>2, <3>3, <3>4
    <2>2. CASE Published(w) /\ pc'[w] # "idle"
        BY <1>0, <2>2 DEF Published, OthersStay, Proceeds
    <2>3. CASE (Published(w) \/ WriteFile(w)) /\ pc'[w] = "idle"
      <3>1. ~ LogQuiet
        <4>1. event[w].id \in DOMAIN log /\ ~log[event[w].id].answered
            BY <2>3 DEF CoreInv, CallsInv, Published, WriteFile
        <4>2. CASE log' = [log EXCEPT ![event[w].id].answered = TRUE]
            BY <4>1, <4>2, AnsweredEntry DEF CoreInv, TypeOK, LogQuiet
        <4>3. CASE log' = [[log EXCEPT ![event[w].id].answered = TRUE]
                             EXCEPT ![event[w].id].unwritable = TRUE]
            BY <4>1, <4>3, UnwritableEntry DEF CoreInv, TypeOK, LogQuiet
        <4> QED BY <1>0, <2>3, <4>2, <4>3 DEF Published, WriteFile, Answered
      <3> QED BY <1>5, <3>1
    <2>4. WriteFile(w) => pc'[w] = "idle"
        BY <1>0 DEF WriteFile
    <2> QED BY <1>5, <2>1, <2>2, <2>3, <2>4 DEF WriterStep
  <1>6. ASSUME NEW s \in Streams, \/ Leave(s) \/ Stay(s) \/ Heartbeat(s) \/ Get(s)
                                  \/ Take(s) \/ TimesOut(s)
                                  \/ Connect(s) \/ Disconnect(s) \/ Cancel(s)
        PROVE  UNCHANGED writerVars
      BY <1>6 DEF Leave, Stay, Heartbeat, Connect, Disconnect, Cancel, Unsubscribe,
                  Take, TimesOut, Get, StreamOnly
  <1>7. ASSUME Tick \/ StatsSection
        PROVE  UNCHANGED writerVars
      BY <1>7 DEF Tick, StatsSection, QueriesOnly
  <1>8. CASE UNCHANGED vars
    <2>1. UNCHANGED writerVars /\ UNCHANGED <<log, begun>>
        BY <1>8 DEF vars
    <2> QED BY <2>1, Unchanged DEF LogQuiet
  <1>9. CASE LogQuiet
      BY <1>2, <1>5, <1>6, <1>7, <1>8, <1>9 DEF Next, StreamStep
  <1> QED BY <1>1, <1>2, <1>3, <1>4, <1>9

LEMMA NextCalls == CoreInv /\ [Next]_vars => CallsInv'
  <1> SUFFICES ASSUME CoreInv, [Next]_vars PROVE CallsInv'
      OBVIOUS
  <1>0. /\ pc \in [Writers -> Pcs] /\ event \in [Writers -> EventType]
        /\ CallsInv /\ LogTypes
      BY DEF CoreInv, TypeOK, WriterTypes
  <1>1. CASE UNCHANGED writerVars /\ LogQuiet
      BY <1>0, <1>1 DEF writerVars, CallsInv, LogQuiet, LogKept
  <1>2. ASSUME NEW w \in Writers, OthersStay(w), Proceeds(w), LogQuiet
        PROVE  CallsInv'
      BY <1>0, <1>2 DEF OthersStay, Proceeds, CallsInv, LogQuiet, LogKept
  <1>3. ASSUME NEW w \in Writers, OthersStay(w), Proceeds(w), Offers(w)
        PROVE  CallsInv'
    <2>1. DOMAIN log' = DOMAIN log
        BY <1>3 DEF Offers, LogKept
    <2>2. \A j \in DOMAIN log : j # event[w].id => log'[j] = log[j]
        BY <1>3 DEF Offers, OthersKept
    <2>3. ~log'[event[w].id].answered
        BY <1>3 DEF Offers
    <2> QED BY <1>0, <1>3, <2>1, <2>2, <2>3 DEF OthersStay, Proceeds, CallsInv
  <1>4. ASSUME NEW w \in Writers, OthersStay(w), Returns(w)
        PROVE  CallsInv'
    <2>1. DOMAIN log' = DOMAIN log /\ pc[w] # "idle"
        BY <1>4 DEF Returns, LogKept
    <2>2. \A j \in DOMAIN log : j # event[w].id => log'[j] = log[j]
        BY <1>4 DEF Returns, OthersKept
    <2>3. pc'[w] = "idle"
        BY <1>0, <1>4 DEF Returns
    <2> QED BY <1>0, <1>4, <2>1, <2>2, <2>3 DEF OthersStay, CallsInv
  <1>5. ASSUME NEW w \in Writers, NEW d \in Directions, OthersStay(w), Begin(w, d)
        PROVE  CallsInv'
    <2>1. /\ event'[w].id = begun + 1 /\ begun \in Nat
          /\ pc'[w] # "put"
        BY <1>0, <1>5 DEF Begin, Event, LogTypes
    <2>2. /\ DOMAIN log = 1 .. begun /\ DOMAIN log' = 1 .. begun + 1
          /\ \A j \in DOMAIN log : log'[j] = log[j]
          /\ log'[begun + 1] = LogEntry(Answers)
        BY <1>0, <1>5, BeginLog DEF Begin
    <2>3. ~log'[begun + 1].answered
        BY <2>2 DEF LogEntry
    <2>4. begun + 1 \in DOMAIN log' /\ begun + 1 \notin DOMAIN log
          /\ \A j \in DOMAIN log : j \in DOMAIN log'
        BY <2>1, <2>2
    <2> QED BY <1>0, <1>5, <2>1, <2>2, <2>3, <2>4 DEF OthersStay, CallsInv
  <1> QED BY <1>1, <1>2, <1>3, <1>4, <1>5, NextWriters

(* Rows are only added, and only by the writer that commits its event.     *)
Commits(w) == pc[w] = "commit" /\ table' = table \cup {event[w]}

LEMMA TableGrows ==
  ASSUME CoreInv, [Next]_vars
  PROVE  /\ lastId <= lastId' /\ clock <= clock' /\ file \subseteq file'
         /\ DOMAIN log \subseteq DOMAIN log'
         /\ table' = table \/ \E w \in Writers : Commits(w)
         /\ table \subseteq table'
  <1>0. /\ lastId \in Nat /\ clock \in Nat /\ LogTypes
      BY DEF CoreInv, TypeOK, TableTypes
  <1>1. DOMAIN log \subseteq DOMAIN log'
    <2>1. ASSUME NEW w \in Writers, NEW d \in Directions, Begin(w, d)
          PROVE  DOMAIN log \subseteq DOMAIN log'
      <3>1. begun \in Nat /\ DOMAIN log = 1 .. begun /\ DOMAIN log' = 1 .. begun + 1
          BY <1>0, <2>1, BeginLog DEF Begin, LogTypes
      <3> QED BY <3>1
    <2> QED BY <2>1, NextLog DEF LogQuiet, Offers, Returns, LogKept
  <1> DEFINE Same == UNCHANGED <<lastId, clock, file, table>>
             Goal == /\ lastId <= lastId' /\ clock <= clock' /\ file \subseteq file'
                     /\ table' = table \/ \E w \in Writers : Commits(w)
                     /\ table \subseteq table'
  <1>2. Same => Goal
      BY <1>0
  <1>3. ASSUME NEW w \in Writers,
               Insert(w) \/ Commit(w) \/ InsertFails(w) \/ WriteFile(w)
        PROVE  Goal
    <2>1. CASE Insert(w)
        BY <1>0, <2>1 DEF Insert, timeVars
    <2>2. CASE Commit(w)
        BY <1>0, <2>2 DEF Commit, timeVars, Commits
    <2>3. CASE InsertFails(w)
        BY <1>0, <2>3 DEF InsertFails, timeVars, Commits
    <2>4. CASE WriteFile(w)
        BY <1>0, <2>4 DEF WriteFile, timeVars, tableVars
    <2> QED BY <1>3, <2>1, <2>2, <2>3, <2>4
  <1>4. ASSUME NEW w \in Writers, Publish(w) \/ Put(w) \/ Published(w)
        PROVE  Same
      BY <1>4 DEF Publish, Put, Published, timeVars, tableVars
  <1>5. ASSUME NEW w \in Writers, NEW d \in Directions, Begin(w, d)
        PROVE  Same
      BY <1>5 DEF Begin, timeVars, tableVars
  <1>6. ASSUME NEW s \in Streams, \/ Leave(s) \/ Stay(s) \/ Heartbeat(s) \/ Get(s)
                                  \/ Take(s) \/ TimesOut(s)
                                  \/ Connect(s) \/ Disconnect(s) \/ Cancel(s)
        PROVE  Same
      BY <1>6 DEF Leave, Stay, Heartbeat, Connect, Disconnect, Cancel, Unsubscribe,
                  Take, TimesOut, Get, StreamOnly, timeVars, tableVars
  <1>7. ASSUME Tick PROVE Goal
      BY <1>0, <1>7 DEF Tick, QueriesOnly, tableVars
  <1>8. ASSUME StatsSection PROVE Same
      BY <1>8 DEF StatsSection, QueriesOnly, tableVars
  <1>9. ASSUME UNCHANGED vars PROVE Same
      BY <1>9 DEF vars, timeVars, tableVars
  <1>10. Goal
    <2> HIDE DEF Goal, Same
    <2>1. CASE \E w \in Writers, d \in Directions : Begin(w, d)
        BY <1>2, <1>5, <2>1
    <2>2. CASE \E w \in Writers : WriterStep(w)
        BY <1>2, <1>3, <1>4, <2>2 DEF WriterStep
    <2>3. CASE \E s \in Streams : \/ StreamStep(s) \/ Connect(s)
                                  \/ Disconnect(s) \/ Cancel(s)
        BY <1>2, <1>6, <2>3 DEF StreamStep
    <2> QED BY <1>2, <1>7, <1>8, <1>9, <2>1, <2>2, <2>3 DEF Next
  <1> QED BY <1>1, <1>10

(* Where a writer that holds a row's columns, or a row, has come from.     *)
LEMMA WriterCameFrom ==
  ASSUME CoreInv, [Next]_vars, NEW w \in Writers
  PROVE  /\ pc'[w] = "commit" => \/ pc[w] = "commit" /\ event'[w] = event[w]
                                 \/ Insert(w)
         /\ pc'[w] \in {"publish", "put"} =>
                \/ pc[w] \in {"publish", "put"} /\ event'[w] = event[w]
                \/ Commit(w) /\ event'[w] = event[w]
         /\ pc'[w] = "put" => pc[w] = "put" \/ Publish(w)
  <1>0. pc \in [Writers -> Pcs] /\ event \in [Writers -> EventType]
      BY DEF CoreInv, TypeOK, WriterTypes
  <1>1. ASSUME NEW v \in Writers, v # w, OthersStay(v)
        PROVE  pc'[w] = pc[w] /\ event'[w] = event[w]
      BY <1>1 DEF OthersStay
  <1>2. CASE UNCHANGED writerVars
      BY <1>2 DEF writerVars
  <1>3. CASE Insert(w) \/ Commit(w) \/ InsertFails(w) \/ Publish(w) \/ Put(w)
             \/ Published(w) \/ WriteFile(w)
      BY <1>0, <1>3 DEF Insert, Commit, InsertFails, Publish, Put, Published,
                        WriteFile
  <1>4. ASSUME NEW d \in Directions, Begin(w, d)
        PROVE  pc'[w] \notin {"commit", "publish", "put"}
      BY <1>0, <1>4 DEF Begin
  <1>5. ASSUME NEW v \in Writers, v # w, WriterStep(v)
        PROVE  pc'[w] = pc[w] /\ event'[w] = event[w]
      BY <1>0, <1>5 DEF WriterStep, Insert, Commit, InsertFails, Publish, Put,
                        Published, WriteFile
  <1>6. ASSUME NEW v \in Writers, v # w, NEW d \in Directions, Begin(v, d)
        PROVE  pc'[w] = pc[w] /\ event'[w] = event[w]
      BY <1>0, <1>6 DEF Begin
  <1>7. ASSUME NEW s \in Streams, \/ Leave(s) \/ Stay(s) \/ Heartbeat(s) \/ Get(s)
                                  \/ Take(s) \/ TimesOut(s)
                                  \/ Connect(s) \/ Disconnect(s) \/ Cancel(s)
        PROVE  UNCHANGED writerVars
      BY <1>7 DEF Leave, Stay, Heartbeat, Connect, Disconnect, Cancel, Unsubscribe,
                  Take, TimesOut, Get, StreamOnly
  <1>8. ASSUME Tick \/ StatsSection
        PROVE  UNCHANGED writerVars
      BY <1>8 DEF Tick, StatsSection, QueriesOnly
  <1>9. CASE \E v \in Writers, d \in Directions : Begin(v, d)
      BY <1>4, <1>6, <1>9
  <1>10. CASE \E v \in Writers : WriterStep(v)
      BY <1>3, <1>5, <1>10 DEF WriterStep
  <1>11. CASE UNCHANGED vars
      BY <1>2, <1>11 DEF vars
  <1> QED BY <1>2, <1>7, <1>8, <1>9, <1>10, <1>11 DEF Next, StreamStep

LEMMA NextRows == CoreInv /\ [Next]_vars => RowsInv'
  <1> SUFFICES ASSUME CoreInv, [Next]_vars PROVE RowsInv'
      OBVIOUS
  <1>0. /\ lastId \in Nat /\ clock \in Nat /\ lastId' \in Nat /\ clock' \in Nat
        /\ \A w \in Writers : event[w] \in EventType
        /\ table \subseteq EventType
        /\ \A e \in EventType : e.eventId \in Nat /\ e.created \in Nat
      BY NextTableTypes DEF CoreInv, TypeOK, TableTypes, WriterTypes, EventType
  <1>1. /\ lastId <= lastId' /\ clock <= clock' /\ DOMAIN log \subseteq DOMAIN log'
        /\ table' = table \/ \E w \in Writers : Commits(w)
        /\ table \subseteq table'
      BY TableGrows
  <1>2. \A e \in table' : e \in table \/ \E w \in Writers : pc[w] = "commit" /\ e = event[w]
      BY <1>1 DEF Commits
  <1>3. ASSUME NEW e \in table'
        PROVE  e.id \in DOMAIN log' /\ e.eventId <= lastId' /\ e.created <= clock'
      BY <1>0, <1>1, <1>2 DEF CoreInv, RowsInv, CallsInv
  <1>4. ASSUME NEW w \in Writers, pc'[w] = "commit"
        PROVE  event'[w].eventId <= lastId' /\ event'[w].created <= clock'
    <2>1. CASE pc[w] = "commit" /\ event'[w] = event[w]
        BY <1>0, <1>1, <2>1 DEF CoreInv, RowsInv
    <2>2. CASE Insert(w)
      <3>1. event'[w] = [event[w] EXCEPT !.eventId = lastId', !.created = clock]
          BY <2>2 DEF Insert, CoreInv, TypeOK, WriterTypes
      <3>2. event[w] \in EventType
          BY <1>0
      <3> QED BY <1>0, <1>1, <3>1, <3>2 DEF EventType
    <2> QED BY <1>4, <2>1, <2>2, WriterCameFrom
  <1>5. ASSUME NEW w \in Writers, pc'[w] \in {"publish", "put"}
        PROVE  event'[w] \in table'
    <2>1. CASE pc[w] \in {"publish", "put"} /\ event'[w] = event[w]
        BY <1>1, <2>1 DEF CoreInv, RowsInv
    <2>2. CASE Commit(w) /\ event'[w] = event[w]
        BY <2>2 DEF Commit
    <2> QED BY <1>5, <2>1, <2>2, WriterCameFrom
  <1> QED BY <1>3, <1>4, <1>5 DEF RowsInv

LEMMA NextQueues == CoreInv /\ [Next]_vars => QueuesInv'
  <1> SUFFICES ASSUME CoreInv, [Next]_vars PROVE QueuesInv'
      OBVIOUS
  <1>0. /\ queue \in [Streams -> Seq(EventType)]
        /\ sent \in [Streams -> Seq(EventType)]
        /\ held \in [Streams -> EventType]
        /\ worker \in [Streams -> {"none", "waiting", "took", "empty"}]
        /\ QueuesInv
      BY DEF CoreInv, TypeOK, StreamTypes
  <1>1. table \subseteq table'
      BY TableGrows
  <1>2. CASE UNCHANGED <<queue, sent, worker, held>>
      BY <1>0, <1>1, <1>2 DEF QueuesInv, FetchEvents
  <1> DEFINE Fine(t) == /\ Range(queue'[t]) \subseteq table'
                        /\ Range(sent'[t]) \subseteq FetchEvents(Wanted[t])'
                        /\ worker'[t] = "took" => held'[t] \in table'
  <1>a. ASSUME NEW t \in Streams, queue'[t] = queue[t], sent'[t] = sent[t],
               worker'[t] = "took" => worker[t] = "took" /\ held'[t] = held[t]
        PROVE  Fine(t)
      BY <1>0, <1>1, <1>a DEF QueuesInv, FetchEvents
  <1>3. ASSUME NEW w \in Writers, Put(w)
        PROVE  QueuesInv'
    <2>1. PICK s \in Streams : s = snapshot[w][at[w]] /\ event[w] \in EventType
        BY <1>3, TargetTyped DEF CoreInv
    <2>2. event[w] \in table
        BY <1>3 DEF Put, CoreInv, RowsInv
    <2>3. /\ \/ queue' = [queue EXCEPT ![s] = Append(@, event[w])]
             \/ UNCHANGED queue
          /\ UNCHANGED <<sent, worker, held>>
        BY <1>3, <2>1 DEF Put, Targets, workerVars
    <2>4. Range(Append(queue[s], event[w])) = Range(queue[s]) \cup {event[w]}
      <3>1. queue[s] \in Seq(EventType)
          BY <1>0, <2>1
      <3> QED BY <2>1, <3>1, RangeOfAppend
    <2>5. Range(queue'[s]) \subseteq table'
      <3>1. Range(queue[s]) \subseteq table' /\ event[w] \in table'
          BY <1>0, <1>1, <2>1, <2>2 DEF QueuesInv
      <3>2. queue'[s] = Append(queue[s], event[w]) \/ queue'[s] = queue[s]
          BY <1>0, <2>1, <2>3
      <3> QED BY <2>4, <3>1, <3>2
    <2>6. /\ Range(sent'[s]) \subseteq FetchEvents(Wanted[s])'
          /\ worker'[s] = "took" => held'[s] \in table'
      <3>1. /\ Range(sent[s]) \subseteq FetchEvents(Wanted[s])'
            /\ worker[s] = "took" => held[s] \in table'
          BY <1>0, <1>1, <2>1 DEF QueuesInv, FetchEvents
      <3> QED BY <2>3, <3>1
    <2>7. ASSUME NEW t \in Streams, t # s PROVE Fine(t)
        BY <1>0, <1>a, <2>3, <2>7
    <2>8. \A t \in Streams : Fine(t)
        BY <2>5, <2>6, <2>7
    <2> QED BY <2>8 DEF QueuesInv
  <1>4. ASSUME NEW s \in Streams, Take(s)
        PROVE  QueuesInv'
    <2>0. PICK e, q : e = Head(queue[s]) /\ q = Tail(queue[s])
        OBVIOUS
    <2>1. /\ e \in EventType /\ e \in table
          /\ Range(queue[s]) = {e} \cup Range(q)
        BY <1>4, <2>0, HeadOfQueue DEF Take, CoreInv
    <2>2. /\ queue' = [queue EXCEPT ![s] = q]
          /\ held' = [held EXCEPT ![s] = e]
          /\ worker' = [worker EXCEPT ![s] = "took"]
          /\ UNCHANGED sent
        BY <1>4, <2>0 DEF Take
    <2>3. Range(queue'[s]) \subseteq table' /\ held'[s] \in table'
        BY <1>0, <1>1, <2>1, <2>2 DEF QueuesInv
    <2>4. Range(sent'[s]) \subseteq FetchEvents(Wanted[s])'
        BY <1>0, <1>1, <2>2 DEF QueuesInv, FetchEvents
    <2>5. ASSUME NEW t \in Streams, t # s PROVE Fine(t)
        BY <1>0, <1>a, <2>2, <2>5
    <2>6. \A t \in Streams : Fine(t)
        BY <2>3, <2>4, <2>5
    <2> QED BY <2>6 DEF QueuesInv
  <1>5. ASSUME NEW s \in Streams, Get(s)
        PROVE  QueuesInv'
    <2>0. PICK e : e = held[s]
        OBVIOUS
    <2>1. e \in EventType /\ e \in table
        BY <1>5, <2>0, HeldTyped DEF Get, CoreInv
    <2>2. /\ queue' = queue
          /\ \/ e.direction \in Wanted[s] /\ sent' = [sent EXCEPT ![s] = Append(@, e)]
             \/ UNCHANGED sent
          /\ worker' = [worker EXCEPT ![s] = "none"]
          /\ held' = [held EXCEPT ![s] = NoEvent]
        BY <1>5, <2>0 DEF Get
    <2>3. Range(Append(sent[s], e)) = Range(sent[s]) \cup {e}
      <3>1. sent[s] \in Seq(EventType)
          BY <1>0
      <3> QED BY <2>1, <3>1, RangeOfAppend
    <2>4. Range(queue'[s]) \subseteq table' /\ worker'[s] # "took"
        BY <1>0, <1>1, <2>2 DEF QueuesInv
    <2>5. Range(sent'[s]) \subseteq FetchEvents(Wanted[s])'
      <3>1. Range(sent[s]) \subseteq FetchEvents(Wanted[s])'
          BY <1>0, <1>1 DEF QueuesInv, FetchEvents
      <3>2. e.direction \in Wanted[s] => e \in FetchEvents(Wanted[s])'
          BY <1>1, <2>1 DEF FetchEvents
      <3> QED BY <1>0, <2>2, <2>3, <3>1, <3>2
    <2>6. ASSUME NEW t \in Streams, t # s PROVE Fine(t)
        BY <1>0, <1>a, <2>2, <2>6
    <2>7. \A t \in Streams : Fine(t)
        BY <2>4, <2>5, <2>6
    <2> QED BY <2>7 DEF QueuesInv
  <1>6. ASSUME NEW w \in Writers, \/ Insert(w) \/ Commit(w) \/ InsertFails(w)
                                  \/ Publish(w) \/ Published(w) \/ WriteFile(w)
        PROVE  UNCHANGED <<queue, sent, worker, held>>
      BY <1>6 DEF Insert, Commit, InsertFails, Publish, Published, WriteFile,
                  streamVars, workerVars
  <1>7. ASSUME NEW w \in Writers, NEW d \in Directions, Begin(w, d)
        PROVE  UNCHANGED <<queue, sent, worker, held>>
      BY <1>7 DEF Begin, streamVars, workerVars
  <1>8. ASSUME NEW s \in Streams, \/ Leave(s) \/ Stay(s) \/ Heartbeat(s)
                                  \/ TimesOut(s)
                                  \/ Connect(s) \/ Disconnect(s) \/ Cancel(s)
        PROVE  QueuesInv'
    <2>1. UNCHANGED <<queue, sent, held>>
        BY <1>8 DEF Leave, Stay, Heartbeat, TimesOut, Connect, Disconnect,
                    Cancel, Unsubscribe, workerVars
    <2>2. \A t \in Streams : worker'[t] = "took" => worker[t] = "took"
        BY <1>0, <1>8 DEF Leave, Stay, Heartbeat, TimesOut, Connect,
                          Disconnect, Cancel, workerVars
    <2>3. \A t \in Streams : Fine(t)
        BY <1>a, <2>1, <2>2
    <2> QED BY <2>3 DEF QueuesInv
  <1>9. ASSUME Tick \/ StatsSection
        PROVE  UNCHANGED <<queue, sent, worker, held>>
      BY <1>9 DEF Tick, StatsSection, QueriesOnly, streamVars, workerVars
  <1>10. CASE UNCHANGED vars
      BY <1>2, <1>10 DEF vars, streamVars, workerVars
  <1> QED BY <1>2, <1>3, <1>4, <1>5, <1>6, <1>7, <1>8, <1>9, <1>10
          DEF Next, WriterStep, StreamStep

LEMMA NextWorkers == CoreInv /\ [Next]_vars => WorkersInv'
  <1> SUFFICES ASSUME CoreInv, [Next]_vars PROVE WorkersInv'
      OBVIOUS
  <1>0. /\ held \in [Streams -> EventType] /\ WorkersInv
        /\ worker \in [Streams -> {"none", "waiting", "took", "empty"}]
        /\ spc \in [Streams -> {"new", "top", "get", "closed"}]
      BY DEF CoreInv, TypeOK, StreamTypes
  <1>1. CASE UNCHANGED <<spc, worker, held>>
      BY <1>1, <1>0 DEF WorkersInv
  <1>2. ASSUME NEW s \in Streams, Connect(s) \/ Disconnect(s)
        PROVE  WorkersInv'
      BY <1>0, <1>2 DEF Connect, Disconnect, workerVars, WorkersInv
  <1>3. ASSUME NEW s \in Streams, Stay(s) \/ Heartbeat(s) \/ TimesOut(s)
        PROVE  WorkersInv'
      BY <1>0, <1>3 DEF Stay, Heartbeat, TimesOut, WorkersInv
  <1>4. ASSUME NEW s \in Streams, Leave(s) \/ Cancel(s)
        PROVE  WorkersInv'
      BY <1>0, <1>4 DEF Leave, Cancel, Unsubscribe, WorkersInv
  <1>5. ASSUME NEW s \in Streams, Take(s)
        PROVE  WorkersInv'
    <2>1. PICK e : e = Head(queue[s])
        OBVIOUS
    <2>2. /\ held' = [held EXCEPT ![s] = e] /\ spc' = spc
          /\ worker[s] = "waiting" /\ worker' = [worker EXCEPT ![s] = "took"]
        BY <1>5, <2>1 DEF Take
    <2> QED BY <1>0, <2>2 DEF WorkersInv
  <1>6. ASSUME NEW s \in Streams, Get(s)
        PROVE  WorkersInv'
    <2>1. /\ held' = [held EXCEPT ![s] = NoEvent]
          /\ worker' = [worker EXCEPT ![s] = "none"]
          /\ spc' = [spc EXCEPT ![s] = "top"]
        BY <1>6 DEF Get
    <2> QED BY <1>0, <2>1 DEF WorkersInv
  <1>7. ASSUME NEW w \in Writers, WriterStep(w)
        PROVE  UNCHANGED <<spc, worker, held>>
      BY <1>7 DEF WriterStep, Insert, Commit, InsertFails, Publish, Put,
                  Published, WriteFile, streamVars, workerVars
  <1>8. ASSUME NEW w \in Writers, NEW d \in Directions, Begin(w, d)
        PROVE  UNCHANGED <<spc, worker, held>>
      BY <1>8 DEF Begin, streamVars, workerVars
  <1>9. ASSUME Tick \/ StatsSection \/ UNCHANGED vars
        PROVE  UNCHANGED <<spc, worker, held>>
      BY <1>9 DEF Tick, StatsSection, QueriesOnly, vars, streamVars, workerVars
  <1> QED BY <1>1, <1>2, <1>3, <1>4, <1>5, <1>6, <1>7, <1>8, <1>9
          DEF Next, StreamStep

LEMMA NextCore == CoreInv /\ [Next]_vars => CoreInv'
  <1> SUFFICES ASSUME CoreInv, [Next]_vars PROVE CoreInv'
      OBVIOUS
  <1>1. LogTypes'
      BY NextLog
  <1> QED BY <1>1, NextWriterTypes, NextStreamTypes, NextTableTypes, NextCalls,
             NextRows, NextQueues, NextWorkers DEF CoreInv, TypeOK

(* What a dashboard is shown is what a query with its filter would find.   *)
THEOREM SentIsFound == Spec => []SentIsLogged
  <1>1. CoreInv => SentIsLogged
      BY DEF CoreInv, QueuesInv, SentIsLogged
  <1> QED BY <1>1, InitCore, NextCore, PTL DEF Spec

-----------------------------------------------------------------------------
(* Answers.                                                                *)

(* What is answered stays so, and is what a last step has made it.         *)
LEMMA NextAnswers ==
  ASSUME CoreInv, [Next]_vars
  PROVE  /\ \A j \in DOMAIN log : j \in DOMAIN log' /\ Kept(log[j], log'[j])
         /\ \A j \in DOMAIN log' \ DOMAIN log : log'[j] = LogEntry(Answers)
         /\ \A j \in Answers' :
                \/ j \in Answers
                \/ \E w \in Writers : j = event[w].id /\ Returns(w)
  <1>1. CASE LogQuiet
      BY <1>1 DEF LogQuiet, LogKept, Answers
  <1>2. CASE \E w \in Writers : Offers(w)
      BY <1>2 DEF Offers, LogKept, OthersKept, Answers
  <1>3. CASE \E w \in Writers : Returns(w)
      BY <1>3 DEF Returns, LogKept, OthersKept, Answers
  <1>4. CASE \E w \in Writers, d \in Directions : Begin(w, d)
    <2>1. /\ DOMAIN log = 1 .. begun /\ DOMAIN log' = 1 .. begun + 1
          /\ \A j \in DOMAIN log : log'[j] = log[j]
          /\ log'[begun + 1] = LogEntry(Answers) /\ begun \in Nat
        BY <1>4, BeginLog DEF Begin, CoreInv, TypeOK, LogTypes
    <2>2. \A j \in DOMAIN log' : j \in DOMAIN log \/ j = begun + 1
        BY <2>1
    <2>3. ~LogEntry(Answers).answered
        BY DEF LogEntry
    <2>4. \A j \in DOMAIN log : j \in DOMAIN log' /\ Kept(log[j], log'[j])
        BY <2>1 DEF Kept
    <2>5. \A j \in DOMAIN log' \ DOMAIN log : log'[j] = LogEntry(Answers)
        BY <2>1, <2>2
    <2>6. \A j \in Answers' : j \in Answers
      <3> DEFINE r == LogEntry(Answers)
      <3> HIDE DEF r
      <3>1. /\ \A j \in DOMAIN log' : j \in DOMAIN log \/ log'[j] = r
            /\ ~r.answered
            /\ \A j \in DOMAIN log : log'[j] = log[j]
          BY <2>1, <2>3, <2>5 DEF r
      <3> QED BY <3>1 DEF Answers
    <2> QED BY <2>4, <2>5, <2>6
  <1> QED BY <1>1, <1>2, <1>3, <1>4, NextLog

LEMMA NextRecorded ==
  CoreInv /\ AnsweredIsRecorded /\ [Next]_vars => AnsweredIsRecorded'
  <1> SUFFICES ASSUME CoreInv, AnsweredIsRecorded, [Next]_vars,
                      NEW i \in Answers'
               PROVE  i \in Recorded' \/ log'[i].unwritable
      BY DEF AnsweredIsRecorded
  <1>1. table \subseteq table' /\ file \subseteq file'
      BY TableGrows
  <1>2. Recorded \subseteq Recorded'
      BY <1>1 DEF Recorded
  <1>3. CASE i \in Answers
    <2>1. i \in DOMAIN log /\ Kept(log[i], log'[i])
        BY <1>3, NextAnswers DEF Answers
    <2> QED BY <1>2, <1>3, <2>1 DEF AnsweredIsRecorded, Kept
  <1>4. ASSUME NEW w \in Writers, i = event[w].id, Returns(w)
        PROVE  i \in Recorded' \/ log'[i].unwritable
    <2>1. CASE pc[w] = "file"
        BY <1>4, <2>1 DEF Returns, Recorded
    <2>2. CASE pc[w] # "file"
      <3>1. pc[w] = "put"
          BY <1>4, <2>2 DEF Returns, Published, WriteFile
      <3>2. event[w] \in table'
          BY <1>1, <3>1 DEF CoreInv, RowsInv
      <3> QED BY <1>4, <3>2 DEF Recorded
    <2> QED BY <2>1, <2>2
  <1> QED BY <1>3, <1>4, NextAnswers

(* An answered decision is in the table or in the file, unless the file    *)
(* could not be written.                                                   *)
THEOREM AnswersAreRecorded == Spec => []AnsweredIsRecorded
  <1>1. Init => AnsweredIsRecorded
      BY DEF Init, AnsweredIsRecorded, Answers
  <1> QED BY <1>1, InitCore, NextCore, NextRecorded, PTL DEF Spec

-----------------------------------------------------------------------------
(* The order of a timeline.                                                *)

(* Who is in a decision's past was answered before it, and a row that is   *)
(* still to be committed comes after every row of its decision's past.     *)
OrderInv ==
    /\ \A i \in DOMAIN log : log[i].earlier \subseteq Answers
    /\ TimelineInOrder
    /\ \A w \in Writers : pc[w] = "commit" =>
           \A d \in table : d.id \in log[event[w].id].earlier => Precedes(d, event[w])

LEMMA NextOrder == CoreInv /\ OrderInv /\ [Next]_vars => OrderInv'
  <1> SUFFICES ASSUME CoreInv, OrderInv, [Next]_vars PROVE OrderInv'
      OBVIOUS
  <1>1. /\ \A j \in DOMAIN log : j \in DOMAIN log' /\ Kept(log[j], log'[j])
        /\ \A j \in DOMAIN log' \ DOMAIN log : log'[j] = LogEntry(Answers)
      BY NextAnswers
  <1>2. Answers \subseteq Answers'
      BY <1>1 DEF Answers, Kept
  <1>3. \A j \in DOMAIN log : log'[j].earlier = log[j].earlier
      BY <1>1 DEF Kept
  <1>4. \A i \in DOMAIN log' : log'[i].earlier \subseteq Answers'
    <2>1. LogEntry(Answers).earlier = Answers
        BY DEF LogEntry
    <2> QED BY <1>1, <1>2, <1>3, <2>1 DEF OrderInv
  <1>5. /\ \A e \in table : e.id \in DOMAIN log
        /\ \A w \in Writers : pc[w] # "idle" => event[w].id \in DOMAIN log
      BY DEF CoreInv, RowsInv, CallsInv
  <1>6. table' = table \/ \E w \in Writers : Commits(w)
      BY TableGrows
  <1>7. ASSUME NEW w \in Writers, pc[w] = "commit", NEW i \in DOMAIN log
        PROVE  event[w].id \notin log[i].earlier
      BY <1>7 DEF CoreInv, CallsInv, OrderInv, Answers
  <1>8. ASSUME NEW d \in table', NEW e \in table', d.id \in log'[e.id].earlier
        PROVE  Precedes(d, e)
    <2>1. CASE d \in table /\ e \in table
        BY <1>3, <1>5, <1>8, <2>1 DEF OrderInv, TimelineInOrder
    <2>2. ASSUME NEW w \in Writers, pc[w] = "commit", e = event[w], d \in table
          PROVE  Precedes(d, e)
        BY <1>3, <1>5, <1>8, <2>2 DEF OrderInv
    <2>3. ASSUME NEW w \in Writers, pc[w] = "commit", d = event[w]
          PROVE  FALSE
      <3>1. e.id \in DOMAIN log
          BY <1>5, <1>6 DEF Commits
      <3> QED BY <1>3, <1>7, <1>8, <2>3, <3>1
    <2> QED BY <1>6, <2>1, <2>2, <2>3 DEF Commits
  <1>9. ASSUME NEW w \in Writers, pc'[w] = "commit", NEW d \in table',
               d.id \in log'[event'[w].id].earlier
        PROVE  Precedes(d, event'[w])
    <2>0. d \in table \/ \E v \in Writers : pc[v] = "commit" /\ d = event[v]
        BY <1>6 DEF Commits
    <2>1. CASE pc[w] = "commit" /\ event'[w] = event[w]
      <3>1. event[w].id \in DOMAIN log
          BY <1>5, <2>1
      <3>2. d \in table
          BY <1>3, <1>7, <1>9, <2>0, <2>1, <3>1
      <3> QED BY <1>3, <1>9, <2>1, <3>1, <3>2 DEF OrderInv
    <2>2. CASE Insert(w)
      <3>1. event[w] \in EventType /\ lastId \in Nat /\ clock \in Nat
            /\ table \subseteq EventType
          BY DEF CoreInv, TypeOK, WriterTypes, TableTypes
      <3>2. event'[w] = [event[w] EXCEPT !.eventId = lastId + 1, !.created = clock]
          BY <2>2 DEF Insert, CoreInv, TypeOK, WriterTypes
      <3>3. event'[w].eventId = lastId + 1 /\ event'[w].created = clock
          BY <3>1, <3>2 DEF EventType
      <3>4. d \in table
          BY <2>2 DEF Insert
      <3>5. d.eventId <= lastId /\ d.created <= clock
          BY <3>4 DEF CoreInv, RowsInv
      <3>6. d.eventId \in Nat /\ d.created \in Nat
          BY <3>1, <3>4 DEF EventType
      <3> QED BY <3>1, <3>3, <3>5, <3>6 DEF Precedes
    <2> QED BY <1>9, <2>1, <2>2, WriterCameFrom
  <1> QED BY <1>4, <1>8, <1>9 DEF OrderInv, TimelineInOrder

(* A timeline shows what was answered first first.                         *)
THEOREM TimelinesAreInOrder == Spec => []TimelineInOrder
  <1>1. Init => OrderInv
      BY DEF Init, OrderInv, TimelineInOrder
  <1>2. OrderInv => TimelineInOrder
      BY DEF OrderInv
  <1> QED BY <1>1, <1>2, InitCore, NextCore, NextOrder, PTL DEF Spec

-----------------------------------------------------------------------------
(* The sections of GET /stats.                                             *)

StatsInv ==
    /\ stats.since \in Int /\ stats.seen \in Seq(SUBSET EventType)
    /\ stats = [since |-> stats.since, seen |-> stats.seen]
    /\ \A i \in DOMAIN stats.seen :
           stats.seen[i] \subseteq {e \in table : e.created >= stats.since}
    /\ StatsSectionsGrow

LEMMA NextStats == CoreInv /\ StatsInv /\ [Next]_vars => StatsInv'
  <1> SUFFICES ASSUME CoreInv, StatsInv, [Next]_vars PROVE StatsInv'
      OBVIOUS
  <1>0. /\ stats.since \in Int /\ stats.seen \in Seq(SUBSET EventType)
        /\ \A i \in DOMAIN stats.seen :
               stats.seen[i] \subseteq {e \in table : e.created >= stats.since}
        /\ \A i, j \in DOMAIN stats.seen : i < j => stats.seen[i] \subseteq stats.seen[j]
      BY DEF StatsInv, StatsSectionsGrow
  <1>1. table \subseteq table'
      BY TableGrows
  <1>2. CASE UNCHANGED stats
      BY <1>1, <1>2 DEF StatsInv, StatsSectionsGrow
  <1>3. CASE StatsSection
    <2>0. PICK since, seen, new :
              /\ since = Since(clock) /\ seen = stats.seen
              /\ new = {e \in table : e.created >= since}
        OBVIOUS
    <2>1. stats' = [since |-> since, seen |-> Append(seen, new)] /\ table' = table
        BY <1>3, <2>0 DEF StatsSection, QueriesOnly, tableVars
    <2>2. since \in Int /\ new \in SUBSET EventType /\ seen \in Seq(SUBSET EventType)
        BY <1>0, <2>0, EventLogAssumption DEF Since, CoreInv, TypeOK, TableTypes
    <2>3. seen = <<>> \/ since = stats.since
        BY <2>0 DEF Since
    <2>4. /\ Len(seen) \in Nat /\ DOMAIN seen = 1 .. Len(seen)
          /\ seen = <<>> => Len(seen) = 0
        BY <2>2, LenProperties
    <2>5. PICK all : all = Append(seen, new)
        OBVIOUS
    <2>6. all \in Seq(SUBSET EventType) /\ Len(all) = Len(seen) + 1
        BY <2>2, <2>5, AppendProperties
    <2>7. /\ \A i \in 1 .. Len(seen) : all[i] = seen[i]
          /\ all[Len(seen) + 1] = new
        BY <2>2, <2>5, AppendProperties
    <2>8. DOMAIN all = 1 .. Len(seen) + 1
        BY <2>6, LenProperties
    <2>9. \A i \in 1 .. Len(seen) : seen[i] \subseteq new
        BY <1>0, <2>0, <2>3, <2>4
    <2>10. \A i \in DOMAIN all : i \in 1 .. Len(seen) \/ i = Len(seen) + 1
        BY <2>4, <2>8
    <2>11. \A i \in DOMAIN all : all[i] \subseteq new
        BY <2>7, <2>9, <2>10
    <2>12. ASSUME NEW i \in DOMAIN all, NEW j \in DOMAIN all, i < j
           PROVE  all[i] \subseteq all[j]
      <3>1. i \in 1 .. Len(seen)
          BY <2>4, <2>8, <2>12
      <3> QED BY <1>0, <2>0, <2>4, <2>7, <2>9, <2>10, <2>12, <3>1
    <2>13. stats'.since = since /\ stats'.seen = all
        BY <2>1, <2>5
    <2>14. new = {e \in table' : e.created >= stats'.since}
        BY <2>0, <2>1, <2>13
    <2> QED BY <2>1, <2>2, <2>5, <2>6, <2>11, <2>12, <2>13, <2>14
            DEF StatsInv, StatsSectionsGrow
  <1>4. ASSUME NEW w \in Writers, WriterStep(w)
        PROVE  UNCHANGED stats
      BY <1>4 DEF WriterStep, Insert, Commit, InsertFails, Publish, Put, Published,
                  WriteFile, timeVars
  <1>5. ASSUME NEW w \in Writers, NEW d \in Directions, Begin(w, d)
        PROVE  UNCHANGED stats
      BY <1>5 DEF Begin, timeVars
  <1>6. ASSUME NEW s \in Streams, \/ Leave(s) \/ Stay(s) \/ Heartbeat(s) \/ Get(s)
                                  \/ Take(s) \/ TimesOut(s)
                                  \/ Connect(s) \/ Disconnect(s) \/ Cancel(s)
        PROVE  UNCHANGED stats
      BY <1>6 DEF Leave, Stay, Heartbeat, Connect, Disconnect, Cancel, Unsubscribe,
                  Take, TimesOut, Get, StreamOnly, timeVars
  <1>7. Tick => UNCHANGED stats
      BY DEF Tick
  <1>8. UNCHANGED vars => UNCHANGED stats
      BY DEF vars, timeVars
  <1> QED BY <1>2, <1>3, <1>4, <1>5, <1>6, <1>7, <1>8 DEF Next, StreamStep

(* A later section of an answer counts every row an earlier one counted.   *)
THEOREM StatsOnlyGrow == Spec => []StatsSectionsGrow
  <1>1. Init => StatsInv
      BY EmptySeq DEF Init, StatsInv, StatsSectionsGrow
  <1>2. StatsInv => StatsSectionsGrow
      BY DEF StatsInv
  <1> QED BY <1>1, <1>2, InitCore, NextCore, NextStats, PTL DEF Spec

-----------------------------------------------------------------------------
(* Publishing.                                                             *)

(* A stream that was offered a decision has had it, or is still to come in *)
(* the copy of the writer that publishes it.                               *)
Had(i, s) ==
    \/ i \in Ids(queue[s]) \cup Ids(sent[s]) \cup {held[s].id}
    \/ s \in log[i].dropped \cup log[i].skipped
ComesFor(w, s) ==
    pc[w] = "put" /\ \E k \in DOMAIN snapshot[w] : at[w] <= k /\ snapshot[w][k] = s
StillToCome(i, s) == \E w \in Writers : event[w].id = i /\ ComesFor(w, s)
DeliveryInv ==
    \A i \in DOMAIN log : \A s \in log[i].offered : Had(i, s) \/ StillToCome(i, s)

LEMMA HadIsKept ==
  ASSUME CoreInv, [Next]_vars, NEW i \in DOMAIN log, NEW t \in Streams, Had(i, t)
  PROVE  Had(i, t)'
  <1>0. /\ queue \in [Streams -> Seq(EventType)]
        /\ sent \in [Streams -> Seq(EventType)]
        /\ held \in [Streams -> EventType]
      BY DEF CoreInv, TypeOK, StreamTypes
  <1>1. Kept(log[i], log'[i])
      BY NextAnswers
  <1>2. CASE t \in log[i].dropped \cup log[i].skipped
      BY <1>1, <1>2 DEF Had, Kept
  <1>3. CASE queue'[t] = queue[t] /\ sent'[t] = sent[t] /\ held'[t] = held[t]
      BY <1>1, <1>3 DEF Had, Kept, Ids
  <1>4. ASSUME NEW w \in Writers, Put(w)
        PROVE  Had(i, t)'
    <2>1. PICK s \in Streams : s = snapshot[w][at[w]] /\ event[w] \in EventType
        BY <1>4, TargetTyped DEF CoreInv
    <2>2. /\ \/ queue' = [queue EXCEPT ![s] = Append(@, event[w])]
             \/ UNCHANGED queue
          /\ UNCHANGED <<sent, held>>
        BY <1>4, <2>1 DEF Put, Targets, workerVars
    <2>3. CASE t # s
        BY <1>0, <1>3, <2>2, <2>3
    <2>4. CASE t = s
      <3>1. queue'[t] = Append(queue[t], event[w]) \/ queue'[t] = queue[t]
          BY <1>0, <2>2, <2>4
      <3>2. Range(Append(queue[t], event[w])) = Range(queue[t]) \cup {event[w]}
        <4>1. queue[t] \in Seq(EventType)
            BY <1>0
        <4> QED BY <2>1, <4>1, RangeOfAppend
      <3>3. Ids(queue[t]) \subseteq Ids(queue'[t])
          BY <3>1, <3>2, IdsOfRange
      <3> QED BY <1>1, <2>2, <3>3 DEF Had, Kept
    <2> QED BY <2>3, <2>4
  <1>5. ASSUME NEW s \in Streams, Take(s)
        PROVE  Had(i, t)'
    <2>0. PICK e, q : e = Head(queue[s]) /\ q = Tail(queue[s])
        OBVIOUS
    <2>1. Range(queue[s]) = {e} \cup Range(q)
        BY <1>5, <2>0, HeadOfQueue DEF Take, CoreInv
    <2>2. /\ queue' = [queue EXCEPT ![s] = q]
          /\ held' = [held EXCEPT ![s] = e]
          /\ worker[s] = "waiting" /\ UNCHANGED sent
        BY <1>5, <2>0 DEF Take
    <2>3. CASE t # s
        BY <1>0, <1>3, <2>2, <2>3
    <2>4. CASE t = s
      <3>1. held[t] = NoEvent
          BY <2>2, <2>4 DEF CoreInv, WorkersInv
      <3>2. held[t].id = 0
          BY <3>1 DEF NoEvent, Event
      <3>3. i # 0
          BY LogDomain DEF CoreInv, TypeOK, LogTypes
      <3>4. queue'[t] = q /\ held'[t] = e
          BY <1>0, <2>2, <2>4
      <3>5. Ids(queue[t]) = {e.id} \cup Ids(queue'[t])
          BY <2>1, <2>4, <3>4, IdsOfRange
      <3> QED BY <1>1, <2>2, <3>2, <3>3, <3>4, <3>5 DEF Had, Kept
    <2> QED BY <2>3, <2>4
  <1>6. ASSUME NEW s \in Streams, Get(s)
        PROVE  Had(i, t)'
    <2>0. PICK e : e = held[s]
        OBVIOUS
    <2>1. e \in EventType /\ e.id \in DOMAIN log
        BY <1>6, <2>0, HeldTyped DEF Get, CoreInv
    <2>2. /\ UNCHANGED queue
          /\ held' = [held EXCEPT ![s] = NoEvent]
          /\ \/ sent' = [sent EXCEPT ![s] = Append(@, e)]
             \/ log' = [log EXCEPT ![e.id].skipped = @ \cup {s}] /\ UNCHANGED sent
        BY <1>6, <2>0 DEF Get
    <2>3. CASE t # s
        BY <1>0, <1>3, <2>2, <2>3
    <2>4. CASE t = s /\ sent' = [sent EXCEPT ![s] = Append(@, e)]
      <3>1. sent'[t] = Append(sent[t], e)
          BY <1>0, <2>4
      <3>2. Range(Append(sent[t], e)) = Range(sent[t]) \cup {e}
        <4>1. sent[t] \in Seq(EventType)
            BY <1>0
        <4> QED BY <2>1, <4>1, RangeOfAppend
      <3>3. Ids(sent'[t]) = Ids(sent[t]) \cup {held[t].id}
          BY <2>0, <2>4, <3>1, <3>2, IdsOfRange
      <3> QED BY <1>1, <2>2, <3>3 DEF Had, Kept
    <2>5. CASE /\ t = s
               /\ log' = [log EXCEPT ![e.id].skipped = @ \cup {s}] /\ UNCHANGED sent
      <3>1. s \in log'[e.id].skipped
        <4>1. log[e.id] \in LogType
            BY <2>1, EntryTyped DEF CoreInv, TypeOK
        <4> QED BY <2>1, <2>5, <4>1 DEF LogType
      <3> QED BY <1>1, <2>0, <2>2, <2>5, <3>1 DEF Had, Kept
    <2> QED BY <2>2, <2>3, <2>4, <2>5
  <1>7. ASSUME NEW w \in Writers, \/ Insert(w) \/ Commit(w) \/ InsertFails(w)
                                  \/ Publish(w) \/ Published(w) \/ WriteFile(w)
        PROVE  UNCHANGED <<queue, sent, held>>
      BY <1>7 DEF Insert, Commit, InsertFails, Publish, Published, WriteFile,
                  streamVars, workerVars
  <1>8. ASSUME NEW w \in Writers, NEW d \in Directions, Begin(w, d)
        PROVE  UNCHANGED <<queue, sent, held>>
      BY <1>8 DEF Begin, streamVars, workerVars
  <1>9. ASSUME NEW s \in Streams, \/ Leave(s) \/ Stay(s) \/ Heartbeat(s)
                                  \/ TimesOut(s)
                                  \/ Connect(s) \/ Disconnect(s) \/ Cancel(s)
        PROVE  UNCHANGED <<queue, sent, held>>
      BY <1>9 DEF Leave, Stay, Heartbeat, TimesOut, Connect, Disconnect,
                  Cancel, Unsubscribe, workerVars
  <1>10. ASSUME Tick \/ StatsSection \/ UNCHANGED vars
        PROVE  UNCHANGED <<queue, sent, held>>
      BY <1>10 DEF Tick, StatsSection, QueriesOnly, streamVars, workerVars, vars
  <1> QED BY <1>3, <1>4, <1>5, <1>6, <1>7, <1>8, <1>9, <1>10
          DEF Next, WriterStep, StreamStep

(* A writer that puts an event in the queues stays there, goes on, or is   *)
(* through with its copy.                                                  *)
LEMMA WhilePutting ==
  ASSUME CoreInv, [Next]_vars, NEW w \in Writers, pc[w] = "put"
  PROVE  \/ /\ pc'[w] = pc[w] /\ event'[w] = event[w]
            /\ at'[w] = at[w] /\ snapshot'[w] = snapshot[w]
         \/ Put(w) \/ Published(w)
  <1>0. /\ pc \in [Writers -> Pcs] /\ event \in [Writers -> EventType]
        /\ at \in [Writers -> Nat] /\ snapshot \in [Writers -> Seq(Streams)]
      BY DEF CoreInv, TypeOK, WriterTypes
  <1>1. CASE UNCHANGED writerVars
      BY <1>1 DEF writerVars
  <1>2. ASSUME NEW v \in Writers, OthersStay(v), v # w
        PROVE  /\ pc'[w] = pc[w] /\ event'[w] = event[w]
               /\ at'[w] = at[w] /\ snapshot'[w] = snapshot[w]
      BY <1>2 DEF OthersStay
  <1>3. ASSUME NEW v \in Writers, WriterStep(v) \/ \E d \in Directions : Begin(v, d)
        PROVE  OthersStay(v)
      BY <1>0, <1>3 DEF WriterStep, Insert, Commit, InsertFails, Publish, Put,
                        Published, WriteFile, Begin, OthersStay
  <1>4. ASSUME WriterStep(w) \/ \E d \in Directions : Begin(w, d)
        PROVE  Put(w) \/ Published(w)
      BY <1>4 DEF WriterStep, Insert, Commit, InsertFails, Publish, WriteFile, Begin
  <1>5. ASSUME NEW s \in Streams, \/ Leave(s) \/ Stay(s) \/ Heartbeat(s) \/ Get(s)
                                  \/ Take(s) \/ TimesOut(s)
                                  \/ Connect(s) \/ Disconnect(s) \/ Cancel(s)
        PROVE  UNCHANGED writerVars
      BY <1>5 DEF Leave, Stay, Heartbeat, Connect, Disconnect, Cancel, Unsubscribe,
                  Take, TimesOut, Get, StreamOnly
  <1>6. ASSUME Tick \/ StatsSection \/ UNCHANGED vars
        PROVE  UNCHANGED writerVars
      BY <1>6 DEF Tick, StatsSection, QueriesOnly, vars
  <1> QED BY <1>1, <1>2, <1>3, <1>4, <1>5, <1>6 DEF Next, StreamStep

(* Who comes next has the event in its queue, or has lost it.              *)
LEMMA PutReaches ==
  ASSUME CoreInv, [Next]_vars, NEW w \in Writers, Put(w),
         NEW s \in Streams, s = snapshot[w][at[w]],
         NEW i, i = event[w].id
  PROVE  Had(i, s)'
  <1>1. /\ event[w] \in EventType /\ i \in DOMAIN log
        /\ queue \in [Streams -> Seq(EventType)]
      BY TargetTyped DEF CoreInv, TypeOK, StreamTypes
  <1>2. CASE queue' = [queue EXCEPT ![s] = Append(@, event[w])]
    <2>1. PICK q : q = queue[s]
        OBVIOUS
    <2>2. q \in Seq(EventType) /\ queue'[s] = Append(q, event[w])
        BY <1>1, <1>2, <2>1
    <2>3. Range(Append(q, event[w])) = Range(q) \cup {event[w]}
        BY <1>1, <2>2, RangeOfAppend
    <2>4. event[w] \in Range(queue'[s])
        BY <2>2, <2>3
    <2>5. i \in Ids(queue'[s])
        BY <2>4, IdsOfRange
    <2> QED BY <2>5 DEF Had
  <1>3. CASE log' = [log EXCEPT ![i].dropped = @ \cup {s}]
    <2>1. log[i] \in LogType
        BY <1>1, EntryTyped DEF CoreInv, TypeOK
    <2>2. s \in log'[i].dropped
        BY <1>1, <1>3, <2>1 DEF LogType
    <2> QED BY <2>2 DEF Had
  <1> QED BY <1>2, <1>3 DEF Put, Targets

LEMMA StillComing ==
  ASSUME CoreInv, [Next]_vars, NEW i, NEW s \in Streams, StillToCome(i, s)
  PROVE  Had(i, s)' \/ StillToCome(i, s)'
  <1>1. PICK w \in Writers : event[w].id = i /\ ComesFor(w, s)
      BY DEF StillToCome
  <1>2. PICK k \in DOMAIN snapshot[w] : at[w] <= k /\ snapshot[w][k] = s
      BY <1>1 DEF ComesFor
  <1>3. /\ pc[w] = "put" /\ snapshot[w] \in Seq(Streams) /\ at[w] \in Nat
        /\ k \in 1 .. Len(snapshot[w]) /\ Len(snapshot[w]) \in Nat
    <2>1. pc[w] = "put" /\ snapshot[w] \in Seq(Streams) /\ at[w] \in Nat
        BY <1>1 DEF ComesFor, CoreInv, TypeOK, WriterTypes
    <2> QED BY <1>2, <2>1, LenProperties
  <1>4. CASE /\ pc'[w] = pc[w] /\ event'[w] = event[w]
             /\ at'[w] = at[w] /\ snapshot'[w] = snapshot[w]
      BY <1>1, <1>2, <1>3, <1>4 DEF StillToCome, ComesFor
  <1>5. CASE Published(w)
      BY <1>2, <1>3, <1>5 DEF Published, Targets
  <1>6. CASE Put(w) /\ at[w] = k
      BY <1>1, <1>2, <1>6, PutReaches
  <1>7. CASE Put(w) /\ at[w] # k
    <2>1. at'[w] = at[w] + 1 /\ UNCHANGED <<pc, event, snapshot>>
        BY <1>7 DEF Put, CoreInv, TypeOK, WriterTypes
    <2>2. at'[w] <= k
        BY <1>2, <1>3, <1>7, <2>1
    <2> QED BY <1>1, <1>2, <1>3, <2>1, <2>2 DEF StillToCome, ComesFor
  <1> QED BY <1>3, <1>4, <1>5, <1>6, <1>7, WhilePutting

LEMMA NextDelivery == CoreInv /\ DeliveryInv /\ [Next]_vars => DeliveryInv'
  <1> SUFFICES ASSUME CoreInv, DeliveryInv, [Next]_vars,
                      NEW i \in DOMAIN log', NEW s \in log'[i].offered
               PROVE  Had(i, s)' \/ StillToCome(i, s)'
      BY DEF DeliveryInv
  <1>1. s \in Streams
    <2>1. log' \in Seq(LogType)
        BY NextLog DEF LogTypes
    <2>2. DOMAIN log' = 1 .. Len(log')
        BY <2>1, LenProperties
    <2>3. log'[i] \in LogType
        BY <2>1, <2>2, ElementOfSeq
    <2> QED BY <2>3 DEF LogType
  <1>2. CASE i \in DOMAIN log /\ s \in log[i].offered
      BY <1>1, <1>2, HadIsKept, StillComing DEF DeliveryInv
  <1>3. CASE LogQuiet
      BY <1>2, <1>3 DEF LogQuiet, LogKept
  <1>4. ASSUME NEW w \in Writers, Returns(w)
        PROVE  i \in DOMAIN log /\ s \in log[i].offered
      BY <1>4 DEF Returns, LogKept, OthersKept
  <1>5. ASSUME NEW w \in Writers, Offers(w)
        PROVE  Had(i, s)' \/ StillToCome(i, s)'
    <2>1. CASE i # event[w].id
        BY <1>2, <1>5, <2>1 DEF Offers, LogKept, OthersKept
    <2>2. CASE i = event[w].id
      <3>1. s \in Range(subscribers)
          BY <1>5, <2>2 DEF Offers
      <3>2. PICK k \in DOMAIN subscribers : subscribers[k] = s
          BY <3>1 DEF Range
      <3>3. k \in Nat /\ k >= 1
          BY <3>2, LenProperties DEF CoreInv, TypeOK, StreamTypes
      <3>4. /\ pc'[w] = "put" /\ at'[w] = 1 /\ snapshot'[w] = subscribers
            /\ event' = event
          BY <1>5 DEF Offers, Publish, CoreInv, TypeOK, WriterTypes
      <3> QED BY <2>2, <3>2, <3>3, <3>4 DEF StillToCome, ComesFor
    <2> QED BY <2>1, <2>2
  <1>6. ASSUME NEW w \in Writers, NEW d \in Directions, Begin(w, d)
        PROVE  i \in DOMAIN log /\ s \in log[i].offered
    <2>1. /\ DOMAIN log = 1 .. begun /\ DOMAIN log' = 1 .. begun + 1
          /\ \A j \in DOMAIN log : log'[j] = log[j]
          /\ log'[begun + 1] = LogEntry(Answers) /\ begun \in Nat
        BY <1>6, BeginLog DEF Begin, CoreInv, TypeOK, LogTypes
    <2>2. LogEntry(Answers).offered = {}
        BY DEF LogEntry
    <2>3. i # begun + 1
        BY <2>1, <2>2
    <2>4. i \in DOMAIN log
        BY <2>1, <2>3
    <2> QED BY <2>1, <2>4
  <1> QED BY <1>2, <1>3, <1>4, <1>5, <1>6, NextLog

(* publish forgets no subscriber, whoever leaves or comes meanwhile: when  *)
(* a decision is answered, no stream is still to come in a copy.  What is  *)
(* in a stream's queue stays there until its worker takes it, and what the *)
(* worker holds is sent or passed over, or lost with a stream that leaves. *)
THEOREM EverySubscriberIsServed == Spec => []DeliveredOrDropped
  <1>1. Init => DeliveryInv
      BY DEF Init, DeliveryInv
  <1>2. CoreInv /\ DeliveryInv => DeliveredOrDropped
    <2> SUFFICES ASSUME CoreInv, DeliveryInv,
                        NEW i \in Answers, NEW s \in log[i].offered
                 PROVE  Had(i, s)
        BY DEF DeliveredOrDropped, Had
    <2>1. i \in DOMAIN log /\ log[i].answered
        BY DEF Answers
    <2>2. ~StillToCome(i, s)
        BY <2>1 DEF StillToCome, ComesFor, CoreInv, CallsInv
    <2> QED BY <2>1, <2>2 DEF DeliveryInv
  <1> QED BY <1>1, <1>2, InitCore, NextCore, NextDelivery, PTL DEF Spec

=============================================================================
