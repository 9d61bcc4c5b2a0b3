---------------------- MODULE MultiturnSession_proofs ----------------------
(***************************************************************************)
(* Proofs about MultiturnSession, for any threads, sessions, turns, times  *)
(* and bounds: while the input calls of a session come one after the       *)
(* other, its turns are counted, its purpose is kept and each turn is      *)
(* judged by its own score, whatever output calls and expiries come        *)
(* between; while its calls do, an expiry revokes the tokens of what has   *)
(* expired and nothing else; and no overlap loses an entity, though it may *)
(* lose one of its mentions.                                               *)
(***************************************************************************)
EXTENDS MultiturnSession, FiniteSetTheorems, SequenceTheorems, TLAPS

-----------------------------------------------------------------------------
(* Sequences of anything.                                                  *)
IsSeq(h) == \E S : h \in Seq(S)

LEMMA EmptyIsSeq == IsSeq(<<>>) /\ DOMAIN <<>> = {}
  BY EmptySeq DEF IsSeq

LEMMA SeqDomain ==
  ASSUME NEW h, IsSeq(h)
  PROVE  Len(h) \in Nat /\ DOMAIN h = 1 .. Len(h)
  BY LenProperties DEF IsSeq

LEMMA SeqAppended ==
  ASSUME NEW h, IsSeq(h), NEW e, NEW g, g = Append(h, e)
  PROVE  /\ IsSeq(g) /\ Len(g) = Len(h) + 1
         /\ DOMAIN g = DOMAIN h \cup {Len(h) + 1} /\ Len(h) + 1 \notin DOMAIN h
         /\ \A i \in DOMAIN h : g[i] = h[i]
         /\ g[Len(h) + 1] = e
  <1>1. PICK S : h \in Seq(S)
      BY DEF IsSeq
  <1> DEFINE T == S \cup {e}
  <1>2. h \in Seq(T) /\ e \in T
      BY <1>1, SeqMonotonic
  <1> HIDE DEF T
  <1>3. g \in Seq(T) /\ Len(g) = Len(h) + 1
      BY <1>2, AppendProperties
  <1>4. /\ \A i \in 1 .. Len(h) : g[i] = h[i]
        /\ g[Len(h) + 1] = e
      BY <1>2, AppendProperties
  <1>5. DOMAIN g = 1 .. Len(g) /\ DOMAIN h = 1 .. Len(h) /\ Len(h) \in Nat
      BY <1>2, <1>3, LenProperties
  <1>6. DOMAIN g = DOMAIN h \cup {Len(h) + 1} /\ Len(h) + 1 \notin DOMAIN h
      BY <1>3, <1>5
  <1> QED BY <1>3, <1>4, <1>5, <1>6 DEF IsSeq

LEMMA SeqOfDomain ==
  ASSUME NEW h, IsSeq(h), NEW g, DOMAIN g = DOMAIN h, g = [i \in DOMAIN g |-> g[i]]
  PROVE  IsSeq(g) /\ Len(g) = Len(h)
  <1> DEFINE S == {g[i] : i \in DOMAIN g}
  <1>1. DOMAIN h = 1 .. Len(h) /\ Len(h) \in Nat
      BY SeqDomain
  <1>2. g \in [1 .. Len(h) -> S]
      BY <1>1
  <1> HIDE DEF S
  <1>3. g \in Seq(S)
      BY <1>1, <1>2, SeqDef
  <1>4. DOMAIN g = 1 .. Len(g) /\ Len(g) \in Nat
      BY <1>3, LenProperties
  <1>5. Len(g) = Len(h)
      BY <1>1, <1>4
  <1> QED BY <1>3, <1>5 DEF IsSeq

LEMMA SeqEdited ==
  ASSUME NEW h, IsSeq(h), NEW i \in DOMAIN h, NEW e, NEW g, g = [h EXCEPT ![i] = e]
  PROVE  /\ IsSeq(g) /\ DOMAIN g = DOMAIN h /\ Len(g) = Len(h)
         /\ g[i] = e /\ \A j \in DOMAIN h : j # i => g[j] = h[j]
  <1>1. PICK S : h \in Seq(S)
      BY DEF IsSeq
  <1> DEFINE T == S \cup {e}
  <1>2. h \in Seq(T) /\ e \in T
      BY <1>1, SeqMonotonic
  <1> HIDE DEF T
  <1>3. DOMAIN h = 1 .. Len(h)
      BY <1>2, LenProperties
  <1>4. g \in Seq(T) /\ Len(g) = Len(h)
      BY <1>2, <1>3, ExceptSeq
  <1>5. DOMAIN g = DOMAIN h
      BY <1>3, <1>4, LenProperties
  <1> QED BY <1>4, <1>5 DEF IsSeq

-----------------------------------------------------------------------------
(* Types: the objects, the store and the threads.                          *)
StateFields ==
    {"sid", "expires", "turn_count", "entities", "stamps", "risk_score", "purpose"}
StateOK(h) ==
    /\ DOMAIN h = StateFields
    /\ h.sid \in Sids /\ h.expires \in Nat /\ h.turn_count \in Nat
HeapInv ==
    /\ IsSeq(heap)
    /\ \A o \in DOMAIN heap : StateOK(heap[o])
    /\ DOMAIN states = Sids
    /\ \A s \in Sids : states[s] # None =>
           states[s] \in DOMAIN heap /\ heap[states[s]].sid = s
    /\ now \in Nat /\ setting \in Settings
    /\ turns \in [Sids -> Nat] /\ DOMAIN purpose = Sids

LocFields ==
    {"stage", "sid", "spans", "purpose", "obj", "turn", "at", "rec", "read", "active",
     "score", "risk", "expiring", "call"}
TurnPcs == {"max", "count", "stamp", "register", "last", "read", "add", "insert",
            "scan", "score", "write"}
Pcs == TurnPcs \cup
       {"idle", "load", "expire", "loaded", "save", "risk", "policy", "transform"}
Stages == {"none", "turn", "purpose", "answer"}

(* A thread at a step holds the object of its session.                     *)
Held(l) == l.obj \in DOMAIN heap /\ heap[l.obj].sid = l.sid
LocalOK(step, l) ==
    /\ step \in Pcs /\ DOMAIN l = LocFields /\ l.stage \in Stages
    /\ step = "idle" <=> l.stage = "none"
    /\ step = "idle" => l.sid = None
    /\ step # "idle" => l.sid \in Sids
    /\ step \in TurnPcs \cup {"risk", "policy"} => l.stage = "turn"
    /\ step = "save" => l.stage \in {"turn", "purpose"}
    /\ step = "transform" => l.stage = "purpose"
    /\ step \in TurnPcs \cup {"save", "risk", "policy", "transform"} => Held(l)
    /\ step = "loaded" /\ l.obj # None => Held(l)
    /\ step = "max" => l.turn \in Nat
    /\ step = "count" => l.read \in Nat
ThreadsInv ==
    /\ DOMAIN pc = Threads /\ DOMAIN loc = Threads
    /\ \A p \in Threads : LocalOK(pc[p], loc[p])
TypeInv == HeapInv /\ ThreadsInv

(* No object is ever lost, nor changes its session or its expiry.          *)
HeapKept ==
    /\ DOMAIN heap \subseteq DOMAIN heap'
    /\ \A o \in DOMAIN heap :
           heap'[o].sid = heap[o].sid /\ heap'[o].expires = heap[o].expires
OthersStay(p) ==
    \A q \in Threads \ {p} : pc'[q] = pc[q] /\ loc'[q] = loc[q]

LEMMA IdleFields ==
  /\ DOMAIN Idle = LocFields /\ Idle.stage = "none" /\ Idle.sid = None
  BY DEF Idle, LocFields

LEMMA InitTypes == Init => TypeInv
  <1> SUFFICES ASSUME Init PROVE TypeInv
      OBVIOUS
  <1>1. HeapInv
      BY EmptyIsSeq DEF Init, HeapInv
  <1>2. ThreadsInv
      BY IdleFields DEF Init, ThreadsInv, LocalOK, Pcs, Stages, TurnPcs
  <1> QED BY <1>1, <1>2 DEF TypeInv

LEMMA OtherLocals ==
  ASSUME HeapKept, NEW step, NEW l, LocalOK(step, l)
  PROVE  LocalOK(step, l)'
  BY DEF HeapKept, LocalOK, Held

-----------------------------------------------------------------------------
(* What a step does to the heap: nothing, an edit of the object its thread *)
(* holds, or a new object.                                                 *)
Edited(o, h) ==
    /\ heap' = [heap EXCEPT ![o] = h]
    /\ StateOK(h) /\ h.sid = heap[o].sid /\ h.expires = heap[o].expires
Added(s, h) ==
    /\ heap' = Append(heap, h)
    /\ StateOK(h) /\ h.sid = s
HeapOK == IsSeq(heap) /\ \A o \in DOMAIN heap : StateOK(heap[o])

LEMMA HeapEdited ==
  ASSUME HeapInv, NEW o \in DOMAIN heap, NEW h, Edited(o, h)
  PROVE  /\ HeapKept /\ HeapOK' /\ DOMAIN heap' = DOMAIN heap
         /\ heap'[o] = h /\ \A j \in DOMAIN heap : j # o => heap'[j] = heap[j]
  <1>1. /\ IsSeq(heap') /\ DOMAIN heap' = DOMAIN heap
        /\ heap'[o] = h /\ \A j \in DOMAIN heap : j # o => heap'[j] = heap[j]
      BY SeqEdited DEF HeapInv, Edited
  <1> QED BY <1>1 DEF HeapKept, HeapOK, HeapInv, Edited

LEMMA HeapAdded ==
  ASSUME HeapInv, NEW s, NEW h, Added(s, h)
  PROVE  /\ HeapKept /\ HeapOK'
         /\ DOMAIN heap' = DOMAIN heap \cup {Len(heap) + 1}
         /\ Len(heap) + 1 \notin DOMAIN heap
         /\ heap'[Len(heap) + 1] = h /\ \A j \in DOMAIN heap : heap'[j] = heap[j]
  <1>1. /\ IsSeq(heap') /\ DOMAIN heap' = DOMAIN heap \cup {Len(heap) + 1}
        /\ Len(heap) + 1 \notin DOMAIN heap
        /\ heap'[Len(heap) + 1] = h /\ \A j \in DOMAIN heap : heap'[j] = heap[j]
    <2>1. IsSeq(heap) /\ heap' = Append(heap, h)
        BY DEF HeapInv, Added
    <2>2. PICK g : g = Append(heap, h)
        OBVIOUS
    <2>3. /\ IsSeq(g) /\ DOMAIN g = DOMAIN heap \cup {Len(heap) + 1}
          /\ Len(heap) + 1 \notin DOMAIN heap
          /\ g[Len(heap) + 1] = h
        BY <2>1, <2>2, SeqAppended, Zenon
    <2>4. \A j \in DOMAIN heap : g[j] = heap[j]
        BY <2>1, <2>2, SeqAppended
    <2>5. heap' = g
        BY <2>1, <2>2
    <2> QED BY <2>3, <2>4, <2>5
  <1> QED BY <1>1 DEF HeapKept, HeapOK, HeapInv, Added

LEMMA HeapSame == HeapInv /\ heap' = heap => HeapKept /\ HeapOK'
  BY DEF HeapInv, HeapKept, HeapOK

LEMMA ObjectsAreNumbers ==
  ASSUME HeapInv, NEW o \in DOMAIN heap
  PROVE  o \in Nat /\ o # None
  BY SeqDomain, StoreAssumption DEF HeapInv

(* What the steps of a thread do to the store.                             *)
Stored(p) ==
    \/ UNCHANGED states
    \/ /\ pc[p] = "save" /\ states' = [states EXCEPT ![heap[Obj(p)].sid] = Obj(p)]
    \/ /\ pc[p] = "load" /\ states' = [states EXCEPT ![Sid(p)] = None]
Counted(p) ==
    /\ \/ UNCHANGED turns
       \/ turns' = [turns EXCEPT ![Sid(p)] = @ + 1]
       \/ turns' = [turns EXCEPT ![Sid(p)] = 0]
    /\ \/ UNCHANGED purpose
       \/ \E x : purpose' = [purpose EXCEPT ![Sid(p)] = x]

LEMMA StoreKept ==
  ASSUME TypeInv, NEW p \in Threads, pc[p] # "idle",
         HeapKept, HeapOK', Stored(p), Counted(p), UNCHANGED <<now, setting>>
  PROVE  HeapInv'
  <1>1. LocalOK(pc[p], loc[p]) /\ HeapInv
      BY DEF TypeInv, ThreadsInv
  <1>2. Sid(p) \in Sids
      BY <1>1 DEF LocalOK, Sid
  <1>3. pc[p] = "save" => Obj(p) \in DOMAIN heap /\ heap[Obj(p)].sid = Sid(p)
      BY <1>1 DEF LocalOK, Held, Obj, Sid
  <1>4. DOMAIN states' = Sids
      BY <1>1 DEF Stored, HeapInv
  <1>5. ASSUME NEW s \in Sids, states'[s] # None
        PROVE  states'[s] \in DOMAIN heap' /\ heap'[states'[s]].sid = s
      BY <1>1, <1>2, <1>3, <1>5 DEF Stored, HeapInv, HeapKept
  <1>6. turns' \in [Sids -> Nat] /\ DOMAIN purpose' = Sids
    <2>1. turns[Sid(p)] + 1 \in Nat
        BY <1>1, <1>2 DEF HeapInv
    <2> QED BY <1>1, <1>2, <2>1 DEF Counted, HeapInv
  <1> QED BY <1>1, <1>4, <1>5, <1>6 DEF HeapInv, HeapOK

(* The threads' steps, one kind after the other: those that read...        *)
Tame(p) == /\ OthersStay(p) /\ HeapKept /\ HeapOK' /\ Stored(p) /\ Counted(p)
           /\ UNCHANGED <<now, setting>>

LEMMA ReadSteps ==
  ASSUME TypeInv, NEW p \in Threads,
         \/ LoadNone(p) \/ LoadLive(p) \/ ExpireHook(p) \/ ExpireHookFails(p)
         \/ ReadTurnCount(p) \/ Get(p) \/ Miss(p) \/ ReadCount(p)
         \/ StartScan(p) \/ Scan(p) \/ Score(p)
         \/ ReadRisk(p) \/ PolicyPasses(p)
  PROVE  Tame(p) /\ LocalOK(pc[p], loc[p])'
  <1> DEFINE l == loc[p]
  <1>0. /\ pc[p] \in Pcs /\ LocalOK(pc[p], l) /\ HeapInv
        /\ DOMAIN pc = Threads /\ DOMAIN loc = Threads
      BY DEF TypeInv, ThreadsInv, LocalOK
  <1>1. UNCHANGED <<heap, states, turns, purpose, now, setting>>
      BY DEF LoadNone, LoadLive, ExpireHook, ExpireHookFails, ReadTurnCount, Get,
             Miss, ReadCount, StartScan, Scan, Score, ReadRisk, PolicyPasses, history
  <1>2. HeapKept /\ HeapOK'
      BY <1>0, <1>1, HeapSame
  <1>3. Stored(p) /\ Counted(p)
      BY <1>1 DEF Stored, Counted
  <1>4. OthersStay(p)
      BY <1>0 DEF LoadNone, LoadLive, ExpireHook, ExpireHookFails, ReadTurnCount, Get,
             Miss, ReadCount, StartScan, Scan, Score, ReadRisk, PolicyPasses, Goto,
             OthersStay
  <1>5. LocalOK(pc[p], loc[p])'
    <2> USE <1>0, <1>1 DEF LocalOK, LocFields, Pcs, TurnPcs, Stages, Held, Goto, Sid,
           Obj
    <2>1. CASE LoadNone(p)
        BY <2>1 DEF LoadNone
    <2>2. CASE LoadLive(p)
        BY <2>2 DEF LoadLive, HeapInv
    <2>3. CASE ExpireHook(p) \/ ExpireHookFails(p)
        BY <2>3 DEF ExpireHook, ExpireHookFails
    <2>4. CASE ReadTurnCount(p)
      <3>1. Max({heap[l.obj].turn_count, l.turn}) \in Nat
        <4>1. heap[l.obj].turn_count \in Nat /\ l.turn \in Nat
            BY <2>4 DEF ReadTurnCount, HeapInv, StateOK
        <4> QED BY <4>1 DEF Max
      <3> QED BY <2>4, <3>1 DEF ReadTurnCount
    <2>5. CASE Get(p)
        BY <2>5 DEF Get
    <2>11. CASE Miss(p)
        BY <2>11 DEF Miss
    <2>12. CASE ReadCount(p)
        BY <2>12 DEF ReadCount
    <2>6. CASE StartScan(p)
        BY <2>6 DEF StartScan
    <2>7. CASE Scan(p)
        BY <2>7 DEF Scan
    <2>8. CASE Score(p)
        BY <2>8 DEF Score
    <2>9. CASE ReadRisk(p)
        BY <2>9 DEF ReadRisk
    <2>10. CASE PolicyPasses(p)
        BY <2>10, IdleFields DEF PolicyPasses
    <2> QED BY <2>1, <2>2, <2>3, <2>4, <2>5, <2>6, <2>7, <2>8, <2>9, <2>10, <2>11,
               <2>12
  <1> QED BY <1>1, <1>2, <1>3, <1>4, <1>5 DEF Tame

(* ...those that end a call...                                             *)
LEMMA LastSteps ==
  ASSUME TypeInv, NEW p \in Threads,
         ScanRaises(p) \/ PolicyBlocks(p) \/ Transform(p) \/ Answer(p)
  PROVE  Tame(p) /\ LocalOK(pc[p], loc[p])' /\ pc'[p] = "idle" /\ loc'[p] = Idle
  <1>0. HeapInv /\ DOMAIN pc = Threads /\ DOMAIN loc = Threads
      BY DEF TypeInv, ThreadsInv
  <1>1. /\ UNCHANGED <<heap, states, turns, purpose, now, setting>> /\ Finish(p)
      BY DEF ScanRaises, PolicyBlocks, Transform, Answer, history
  <1>2. HeapKept /\ HeapOK'
      BY <1>0, <1>1, HeapSame
  <1>3. pc'[p] = "idle" /\ loc'[p] = Idle /\ OthersStay(p)
      BY <1>0, <1>1 DEF Finish, Goto, OthersStay
  <1>4. LocalOK(pc[p], loc[p])'
      BY <1>3, IdleFields DEF LocalOK, LocFields, Pcs, TurnPcs, Stages
  <1> QED BY <1>1, <1>2, <1>3, <1>4 DEF Tame, Stored, Counted

(* ...those that write one field of the object the thread holds...         *)
Wrote(o, f, v) ==
    /\ DOMAIN heap' = DOMAIN heap
    /\ \A j \in DOMAIN heap : j # o => heap'[j] = heap[j]
    /\ DOMAIN heap'[o] = StateFields
    /\ \A g \in StateFields \ {f} : heap'[o][g] = heap[o][g]
    /\ heap'[o][f] = v

LEMMA FieldWritten ==
  ASSUME HeapInv, NEW o \in DOMAIN heap, NEW f \in StateFields \ {"sid", "expires"},
         NEW v, f = "turn_count" => v \in Nat,
         heap' = [heap EXCEPT ![o] = [heap[o] EXCEPT ![f] = v]]
  PROVE  HeapKept /\ HeapOK' /\ Wrote(o, f, v)
  <1>1. PICK h : h = [heap[o] EXCEPT ![f] = v]
      OBVIOUS
  <1>2. StateOK(heap[o])
      BY DEF HeapInv
  <1>3. /\ DOMAIN h = StateFields /\ h[f] = v
        /\ \A g \in StateFields \ {f} : h[g] = heap[o][g]
      BY <1>1, <1>2 DEF StateOK
  <1>4. Edited(o, h)
      BY <1>1, <1>2, <1>3 DEF Edited, StateOK, StateFields
  <1> QED BY <1>3, <1>4, HeapEdited DEF Wrote

DatedAt(es, i, turn) == [es EXCEPT !.records[i].last = turn]
CountedAs(es, i, n) == [es EXCEPT !.records[i].count = n]
Writes(p, f, v) ==
    \/ StoreTurnCount(p) /\ f = "turn_count" /\ v = loc[p].read
    \/ Stamp(p) /\ f = "stamps" /\ v = Append(heap[Obj(p)].stamps, loc[p].at)
    \/ /\ WriteLast(p) /\ f = "entities"
       /\ v = DatedAt(heap[Obj(p)].entities, loc[p].rec, loc[p].turn)
    \/ /\ WriteCount(p) /\ f = "entities"
       /\ v = CountedAs(heap[Obj(p)].entities, loc[p].rec, loc[p].read + 1)
    \/ /\ Insert(p) /\ f = "entities"
       /\ v = Inserted(heap[Obj(p)].entities, Key(p), loc[p].turn)
    \/ WriteScore(p) /\ f = "risk_score" /\ v = loc[p].score
    \/ RememberPurpose(p) /\ Obj(p) # None /\ f = "purpose" /\ v = loc[p].purpose

LEMMA WriteSteps ==
  ASSUME TypeInv, NEW p \in Threads,
         NEW f \in StateFields \ {"sid", "expires"}, NEW v, Writes(p, f, v)
  PROVE  /\ Tame(p) /\ LocalOK(pc[p], loc[p])'
         /\ Obj(p) \in DOMAIN heap /\ Wrote(Obj(p), f, v)
  <1> DEFINE l == loc[p]  o == Obj(p)
  <1>0. /\ pc[p] \in Pcs /\ LocalOK(pc[p], l) /\ HeapInv
        /\ DOMAIN pc = Threads /\ DOMAIN loc = Threads
      BY Zenon DEF TypeInv, ThreadsInv, LocalOK
  <1>1. o \in DOMAIN heap
      BY <1>0 DEF Writes, StoreTurnCount, Stamp, WriteLast, WriteCount, Insert,
             Mentioned, WriteScore, RememberPurpose, LocalOK, Held, TurnPcs, Obj
  <1>2. f = "turn_count" => v \in Nat
      BY <1>0 DEF Writes, StoreTurnCount, LocalOK
  <1>3. heap' = [heap EXCEPT ![o] = [heap[o] EXCEPT ![f] = v]]
    <2>1. CASE StoreTurnCount(p) /\ f = "turn_count" /\ v = loc[p].read
        BY <2>1 DEF StoreTurnCount
    <2>2. CASE Stamp(p) /\ f = "stamps" /\ v = Append(heap[o].stamps, loc[p].at)
        BY <2>2, Zenon DEF Stamp
    <2>3. CASE /\ WriteLast(p) /\ f = "entities"
               /\ v = DatedAt(heap[o].entities, loc[p].rec, loc[p].turn)
        BY <2>3 DEF WriteLast, DatedAt
    <2>4. CASE /\ WriteCount(p) /\ f = "entities"
               /\ v = CountedAs(heap[o].entities, loc[p].rec, loc[p].read + 1)
        BY <2>4 DEF WriteCount, CountedAs
    <2>7. CASE /\ Insert(p) /\ f = "entities"
               /\ v = Inserted(heap[o].entities, Key(p), loc[p].turn)
        BY <2>7 DEF Insert
    <2>5. CASE WriteScore(p) /\ f = "risk_score" /\ v = loc[p].score
        BY <2>5 DEF WriteScore
    <2>6. CASE /\ RememberPurpose(p) /\ Obj(p) # None /\ f = "purpose"
               /\ v = loc[p].purpose
        BY <2>6 DEF RememberPurpose
    <2> QED BY <2>1, <2>2, <2>3, <2>4, <2>5, <2>6, <2>7 DEF Writes
  <1>4. HeapKept /\ HeapOK' /\ Wrote(o, f, v)
    <2> HIDE DEF o
    <2> QED BY <1>0, <1>1, <1>2, <1>3, FieldWritten
  <1>5. /\ Stored(p) /\ Counted(p) /\ UNCHANGED <<now, setting>>
        /\ OthersStay(p)
      BY <1>0 DEF Writes, StoreTurnCount, Stamp, WriteLast, WriteCount, Insert,
             Mentioned, WriteScore, RememberPurpose, history, Goto, Stored, Counted,
             OthersStay
  <1>6. LocalOK(pc[p], loc[p])'
    <2> USE <1>0, <1>4 DEF LocalOK, LocFields, Pcs, TurnPcs, Stages, Held, Goto, Obj,
           HeapKept
    <2>1. CASE StoreTurnCount(p)
        BY <2>1 DEF StoreTurnCount
    <2>2. CASE Stamp(p)
        BY <2>2 DEF Stamp
    <2>3. CASE WriteLast(p)
        BY <2>3 DEF WriteLast
    <2>4. CASE WriteCount(p)
        BY <2>4 DEF WriteCount, Mentioned
    <2>7. CASE Insert(p)
        BY <2>7 DEF Insert, Mentioned
    <2>5. CASE WriteScore(p)
        BY <2>5 DEF WriteScore
    <2>6. CASE RememberPurpose(p) /\ Obj(p) # None
        BY <2>6 DEF RememberPurpose
    <2> QED BY <2>1, <2>2, <2>3, <2>4, <2>5, <2>6, <2>7 DEF Writes
  <1> QED BY <1>1, <1>4, <1>5, <1>6 DEF Tame

(* ...those that make an object...                                         *)
LEMMA NewObjects ==
  ASSUME TypeInv, NEW p \in Threads, Obj(p) = None,
         TakeTurn(p) \/ RememberPurpose(p)
  PROVE  /\ Tame(p) /\ LocalOK(pc[p], loc[p])'
         /\ DOMAIN heap' = DOMAIN heap \cup {Len(heap) + 1}
         /\ Len(heap) + 1 \notin DOMAIN heap
         /\ \A j \in DOMAIN heap : heap'[j] = heap[j]
         /\ heap'[Len(heap) + 1] =
                IF TakeTurn(p) THEN NewState(Sid(p))
                ELSE [NewState(Sid(p)) EXCEPT !.purpose = loc[p].purpose]
  <1> DEFINE l == loc[p]
  <1>0. /\ pc[p] = "loaded" /\ LocalOK(pc[p], l) /\ HeapInv
        /\ DOMAIN pc = Threads /\ DOMAIN loc = Threads
      BY DEF TypeInv, ThreadsInv, TakeTurn, RememberPurpose
  <1>1. PICK h : h = IF TakeTurn(p) THEN NewState(Sid(p))
                     ELSE [NewState(Sid(p)) EXCEPT !.purpose = loc[p].purpose]
      OBVIOUS
  <1>2. /\ now + Ttl \in Nat /\ Sid(p) \in Sids
      BY <1>0, StoreAssumption DEF HeapInv, LocalOK, Sid
  <1>3. StateOK(h) /\ h.sid = Sid(p)
      BY <1>1, <1>2 DEF StateOK, StateFields, NewState
  <1>4. Added(Sid(p), h)
    <2>1. heap' = Append(heap, h)
        BY <1>1 DEF TakeTurn, RememberPurpose
    <2> QED BY <1>3, <2>1 DEF Added
  <1>5. /\ HeapKept /\ HeapOK'
        /\ DOMAIN heap' = DOMAIN heap \cup {Len(heap) + 1}
        /\ Len(heap) + 1 \notin DOMAIN heap
        /\ heap'[Len(heap) + 1] = h /\ \A j \in DOMAIN heap : heap'[j] = heap[j]
    <2>1. PICK s : s = Sid(p)
        OBVIOUS
    <2> QED BY <1>0, <1>4, <2>1, HeapAdded
  <1>6. /\ Stored(p) /\ Counted(p) /\ UNCHANGED <<now, setting>>
        /\ OthersStay(p)
      BY <1>0 DEF TakeTurn, RememberPurpose, Goto, Stored, Counted, OthersStay
  <1>7. LocalOK(pc[p], loc[p])'
    <2>1. /\ loc'[p].obj = Len(heap) + 1 /\ loc'[p].sid = l.sid
          /\ loc'[p].stage = l.stage /\ DOMAIN loc'[p] = LocFields
          /\ \/ pc'[p] = "max" /\ loc'[p].turn = 1 /\ l.stage = "turn"
             \/ pc'[p] = "save" /\ l.stage = "purpose"
        BY <1>0 DEF TakeTurn, RememberPurpose, Goto, LocalOK, LocFields
    <2> QED BY <1>0, <1>3, <1>5, <2>1
            DEF LocalOK, Held, Sid, Pcs, TurnPcs, Stages
  <1> QED BY <1>1, <1>5, <1>6, <1>7 DEF Tame

(* ...a turn of a session that has a state, and what enters and leaves the *)
(* store.                                                                  *)
LEMMA StoreSteps ==
  ASSUME TypeInv, NEW p \in Threads,
         \/ TakeTurn(p) /\ Obj(p) # None
         \/ LoadExpired(p) \/ SaveTurn(p) \/ SavePurpose(p)
  PROVE  Tame(p) /\ LocalOK(pc[p], loc[p])' /\ heap' = heap
  <1> DEFINE l == loc[p]
  <1>0. /\ pc[p] \in Pcs /\ LocalOK(pc[p], l) /\ HeapInv
        /\ DOMAIN pc = Threads /\ DOMAIN loc = Threads
      BY DEF TypeInv, ThreadsInv, LocalOK
  <1>1. heap' = heap
      BY DEF TakeTurn, LoadExpired, SaveTurn, SavePurpose
  <1>2. HeapKept /\ HeapOK'
      BY <1>0, <1>1, HeapSame
  <1>3. Stored(p) /\ Counted(p) /\ OthersStay(p) /\ UNCHANGED <<now, setting>>
      BY <1>0 DEF TakeTurn, LoadExpired, SaveTurn, SavePurpose, Goto, Stored, Counted,
                  OthersStay, history
  <1>4. LocalOK(pc[p], loc[p])'
    <2> USE <1>0, <1>1 DEF LocalOK, LocFields, Pcs, TurnPcs, Stages, Held, Goto, Sid,
           Obj
    <2>1. CASE TakeTurn(p) /\ Obj(p) # None
      <3>1. heap[l.obj].turn_count + 1 \in Nat
          BY <2>1 DEF TakeTurn, HeapInv, StateOK
      <3> QED BY <2>1, <3>1 DEF TakeTurn
    <2>2. CASE LoadExpired(p)
        BY <2>2 DEF LoadExpired
    <2>3. CASE SaveTurn(p)
        BY <2>3 DEF SaveTurn
    <2>4. CASE SavePurpose(p)
        BY <2>4 DEF SavePurpose
    <2> QED BY <2>1, <2>2, <2>3, <2>4
  <1> QED BY <1>1, <1>2, <1>3, <1>4 DEF Tame

LEMMA BeginSteps ==
  ASSUME TypeInv, NEW p \in Threads, Input(p) \/ Output(p)
  PROVE  /\ OthersStay(p) /\ LocalOK(pc[p], loc[p])'
         /\ UNCHANGED <<heap, states, turns, purpose, now, setting>>
  <1>0. DOMAIN pc = Threads /\ DOMAIN loc = Threads
      BY DEF TypeInv, ThreadsInv
  <1>1. PICK s, stage, spans, what :
            /\ s \in Sids /\ stage \in {"turn", "answer"}
            /\ Begin(p, s, stage, spans, what)
      BY DEF Input, Output
  <1>2. /\ pc'[p] = "load" /\ OthersStay(p)
        /\ UNCHANGED <<heap, states, turns, purpose, now, setting>>
      BY <1>0, <1>1 DEF Begin, Goto, OthersStay, history
  <1>3. /\ loc'[p].stage = stage /\ loc'[p].sid = s /\ DOMAIN loc'[p] = LocFields
      BY <1>0, <1>1, IdleFields DEF Begin, LocFields
  <1> QED BY <1>1, <1>2, <1>3 DEF LocalOK, Pcs, TurnPcs, Stages

(* A step is a thread's, the sweeper's or the clock's.                     *)
InnerStep(p) ==
    \/ LoadNone(p) \/ LoadLive(p) \/ ExpireHook(p) \/ ExpireHookFails(p)
    \/ ReadTurnCount(p) \/ Get(p) \/ Miss(p) \/ ReadCount(p) \/ StartScan(p)
    \/ Scan(p) \/ Score(p)
    \/ ReadRisk(p) \/ PolicyPasses(p)
WriteStep(p) ==
    \/ StoreTurnCount(p) \/ Stamp(p) \/ WriteLast(p) \/ WriteCount(p)
    \/ Insert(p) \/ WriteScore(p)
    \/ RememberPurpose(p) /\ Obj(p) # None
NewStep(p) == Obj(p) = None /\ (TakeTurn(p) \/ RememberPurpose(p))
StoreStep(p) ==
    \/ TakeTurn(p) /\ Obj(p) # None
    \/ LoadExpired(p) \/ SaveTurn(p) \/ SavePurpose(p)
LastStep(p) == ScanRaises(p) \/ PolicyBlocks(p) \/ Transform(p) \/ Answer(p)
CallStep(p) ==
    InnerStep(p) \/ WriteStep(p) \/ NewStep(p) \/ StoreStep(p) \/ LastStep(p)
HookStep == \E o \in swept : SweepHook(o) \/ SweepHookFails(o)

LEMMA NextSteps ==
  Next <=> \/ \E p \in Threads : Input(p) \/ Output(p) \/ CallStep(p)
           \/ SweepPop \/ HookStep \/ Tick
  BY DEF Next, Continue, CallStep, InnerStep, WriteStep, NewStep, StoreStep,
         LastStep, HookStep

LEMMA CallSteps ==
  ASSUME TypeInv, NEW p \in Threads, CallStep(p)
  PROVE  Tame(p) /\ LocalOK(pc[p], loc[p])' /\ pc[p] # "idle"
  <1>1. CASE InnerStep(p)
      BY <1>1, ReadSteps, Zenon
         DEF InnerStep, LoadNone, LoadLive, ExpireHook, ExpireHookFails,
             ReadTurnCount, Get, Miss, ReadCount, StartScan, Scan, Score, ReadRisk,
             PolicyPasses
  <1>2. CASE WriteStep(p)
    <2>1. pc[p] # "idle"
        BY <1>2 DEF WriteStep, StoreTurnCount, Stamp, WriteLast, WriteCount, Insert,
                    Mentioned, WriteScore, RememberPurpose
    <2>2. PICK f, v : f \in StateFields \ {"sid", "expires"} /\ Writes(p, f, v)
        BY <1>2 DEF WriteStep, Writes, StateFields
    <2> QED BY <2>1, <2>2, WriteSteps
  <1>3. CASE NewStep(p)
      BY <1>3, NewObjects DEF NewStep, TakeTurn, RememberPurpose
  <1>4. CASE StoreStep(p)
      BY <1>4, StoreSteps DEF StoreStep, TakeTurn, LoadExpired, SaveTurn, SavePurpose
  <1>5. CASE LastStep(p)
      BY <1>5, LastSteps DEF LastStep, ScanRaises, PolicyBlocks, Transform, Answer
  <1> QED BY <1>1, <1>2, <1>3, <1>4, <1>5, Zenon DEF CallStep

LEMMA NextTypes ==
  ASSUME TypeInv, [Next]_vars
  PROVE  TypeInv' /\ HeapKept /\ setting' = setting /\ now <= now'
  <1>0. HeapInv /\ ThreadsInv
      BY DEF TypeInv
  <1>1. ASSUME NEW p \in Threads, OthersStay(p), HeapKept, LocalOK(pc[p], loc[p])',
               DOMAIN pc' = Threads, DOMAIN loc' = Threads
        PROVE  ThreadsInv'
    <2> SUFFICES ASSUME NEW q \in Threads PROVE LocalOK(pc[q], loc[q])'
        BY <1>1 DEF ThreadsInv
    <2>1. CASE q = p
        BY <1>1, <2>1
    <2>2. CASE q # p
      <3>1. PICK step, l : step = pc[q] /\ l = loc[q]
          OBVIOUS
      <3>2. LocalOK(step, l)'
          BY <1>0, <1>1, <3>1, OtherLocals DEF ThreadsInv
      <3>3. pc'[q] = step /\ loc'[q] = l
          BY <1>1, <2>2, <3>1 DEF OthersStay
      <3> QED BY <3>2, <3>3
    <2> QED BY <2>1, <2>2
  <1>2. ASSUME NEW p \in Threads, CallStep(p)
        PROVE  TypeInv' /\ HeapKept /\ setting' = setting /\ now' = now
    <2>1. Tame(p) /\ LocalOK(pc[p], loc[p])' /\ pc[p] # "idle"
        BY <1>2, CallSteps
    <2>2. HeapInv'
        BY <2>1, StoreKept, Zenon DEF Tame
    <2>3. DOMAIN pc' = Threads /\ DOMAIN loc' = Threads
        BY <1>0, <1>2 DEF CallStep, InnerStep, WriteStep, NewStep, StoreStep,
               LastStep, LoadNone, LoadLive, ExpireHook, ExpireHookFails,
               ReadTurnCount, Get, Miss, ReadCount, StartScan, Scan, Score, ReadRisk,
               PolicyPasses, StoreTurnCount, Stamp, WriteLast, WriteCount, Insert,
               Mentioned, WriteScore, RememberPurpose, TakeTurn, LoadExpired,
               SaveTurn, SavePurpose, ScanRaises, PolicyBlocks, Transform, Answer,
               Finish, Goto, ThreadsInv
    <2> QED BY <1>1, <2>1, <2>2, <2>3 DEF TypeInv, Tame
  <1>3. ASSUME NEW p \in Threads, Input(p) \/ Output(p)
        PROVE  TypeInv' /\ HeapKept /\ setting' = setting /\ now' = now
    <2>1. /\ OthersStay(p) /\ LocalOK(pc[p], loc[p])'
          /\ UNCHANGED <<heap, states, turns, purpose, now, setting>>
        BY <1>3, BeginSteps
    <2>2. DOMAIN pc' = Threads /\ DOMAIN loc' = Threads
        BY <1>0, <1>3 DEF Input, Output, Begin, Goto, ThreadsInv
    <2>3. HeapKept /\ HeapInv'
        BY <1>0, <2>1, HeapSame DEF HeapInv
    <2> QED BY <1>1, <2>1, <2>2, <2>3 DEF TypeInv
  <1>4. CASE SweepPop
    <2>1. UNCHANGED <<setting, now, heap, pc, loc>>
        BY <1>4 DEF SweepPop
    <2>2. HeapInv'
      <3>1. /\ DOMAIN states' = Sids /\ DOMAIN purpose' = Sids
            /\ \A s \in Sids : states'[s] = None \/ states'[s] = states[s]
            /\ turns' \in [Sids -> Nat]
          BY <1>0, <1>4 DEF SweepPop, HeapInv
      <3> QED BY <1>0, <2>1, <3>1 DEF HeapInv
    <2>3. ThreadsInv'
        BY <1>0, <2>1 DEF ThreadsInv, LocalOK, Held
    <2> QED BY <1>0, <2>1, <2>2, <2>3, HeapSame DEF TypeInv, HeapInv
  <1>5. CASE HookStep \/ UNCHANGED vars
    <2>1. UNCHANGED <<setting, now, heap, states, pc, loc, turns, purpose>>
        BY <1>5 DEF HookStep, SweepHook, SweepHookFails, vars, history
    <2> QED BY <1>0, <2>1, HeapSame DEF TypeInv, HeapInv, ThreadsInv, LocalOK, Held
  <1>6. CASE Tick
    <2>1. /\ UNCHANGED <<setting, heap, states, pc, loc, turns, purpose>>
          /\ now' = now + 1 /\ now \in Nat
        BY <1>0, <1>6 DEF Tick, history, HeapInv
    <2> QED BY <1>0, <2>1, HeapSame DEF TypeInv, HeapInv, ThreadsInv, LocalOK, Held
  <1>7. now \in Nat
      BY <1>0 DEF HeapInv
  <1> QED BY <1>2, <1>3, <1>4, <1>5, <1>6, <1>7, NextSteps

-----------------------------------------------------------------------------
(* Input calls of one session that come one after the other.               *)
Turning(p) == loc[p].stage \in {"turn", "purpose"}
OneInput ==
    \A p, q \in Threads : Turning(p) /\ Turning(q) /\ Sid(p) = Sid(q) => p = q

(* What the thread of an input call may rely on, at each of its steps: the *)
(* session's state is the one it holds, unless that has expired...         *)
Holding(p) ==
    pc[p] \in TurnPcs \cup {"save"} \/ (pc[p] = "loaded" /\ Obj(p) # None)
StoreOK(p) ==
    /\ pc[p] = "expire" => states[Sid(p)] = None
    /\ pc[p] = "loaded" /\ Obj(p) = None => states[Sid(p)] = None
    /\ Holding(p) => states[Sid(p)] \in {None, Obj(p)}

(* ...while that lives, it has counted the turns of the session, and its   *)
(* entities are as many as the scan has seen...                            *)
CountOK(p) ==
    /\ Holding(p) /\ ~Expired(Obj(p)) => heap[Obj(p)].turn_count = turns[Sid(p)]
    /\ pc[p] = "max" /\ ~Expired(Obj(p)) => loc[p].turn = turns[Sid(p)] + 1
    /\ pc[p] = "count" /\ ~Expired(Obj(p)) => loc[p].read = turns[Sid(p)] + 1
    /\ pc[p] = "scan" => ~Grown(p)

(* ...holds the purpose saved last, or the one about to be saved...        *)
Naming(p) == pc[p] = "save" /\ loc[p].stage = "purpose"
PurposeOK(p) ==
    /\ Holding(p) /\ ~Naming(p) /\ ~Expired(Obj(p)) =>
           heap[Obj(p)].purpose = purpose[Sid(p)]
    /\ Naming(p) => heap[Obj(p)].purpose = loc[p].purpose

(* ...and the score that the call itself has computed.                     *)
ScoreOK(p) ==
    /\ \/ pc[p] = "save" /\ loc[p].stage = "turn"
       \/ pc[p] = "risk"
       => heap[Obj(p)].risk_score = loc[p].score
    /\ pc[p] = "policy" => loc[p].risk = loc[p].score
TurnOK(p) == StoreOK(p) /\ CountOK(p) /\ PurposeOK(p) /\ ScoreOK(p)

(* What holds of a session between its turns.                              *)
Saved(s, stage, steps) ==
    \A p \in Threads : ~(Sid(p) = s /\ pc[p] \in steps /\ loc[p].stage = stage)
SessionOK(s) ==
    /\ Saved(s, "turn", Unsaved) =>
           /\ states[s] = None => turns[s] = 0
           /\ LiveState(s) => heap[states[s]].turn_count = turns[s]
    /\ Saved(s, "purpose", {"save"}) =>
           /\ states[s] = None => purpose[s] = None
           /\ LiveState(s) => heap[states[s]].purpose = purpose[s]
InputsInv ==
    setting.calls # "any" =>
        /\ OneInput
        /\ \A p \in Threads : Turning(p) => TurnOK(p)
        /\ \A s \in Sids : SessionOK(s)

(* Calls of one session that come one after the other, and no sweeper.     *)
OneCall ==
    \A p, q \in Threads :
        loc[p].stage # "none" /\ loc[q].stage # "none" /\ Sid(p) = Sid(q) => p = q
TokenOK(t) ==
    /\ t.sid \in Sids /\ t.obj \in DOMAIN heap
    /\ ~Expired(t.obj) => states[t.sid] = t.obj
    /\ \/ t.obj \in missed
       \/ states[t.sid] = t.obj
       \/ \E p \in Threads :
              pc[p] = "expire" /\ Sid(p) = t.sid /\ loc[p].expiring = t.obj
TokensInv ==
    /\ ~setting.sweeping => swept = {}
    /\ setting.calls = "call" => OneCall
    /\ OneAtATime =>
           /\ \A p \in Threads :
                  /\ pc[p] = "expire" => states[Sid(p)] = None
                  /\ pc[p] = "transform" => states[Sid(p)] = Obj(p)
           /\ \A t \in tokens : TokenOK(t)

(* What others do to a session while a thread of it turns: nothing, or     *)
(* they remove its expired state.                                          *)
Aside(s) ==
    /\ HeapKept /\ now <= now'
    /\ \A o \in DOMAIN heap : heap[o].sid = s => heap'[o] = heap[o]
    /\ \/ states'[s] = states[s] /\ turns'[s] = turns[s] /\ purpose'[s] = purpose[s]
       \/ /\ states[s] # None /\ Expired(states[s])
          /\ states'[s] = None /\ turns'[s] = 0 /\ purpose'[s] = None
Untouched(q) == pc'[q] = pc[q] /\ loc'[q] = loc[q]

LEMMA StaysExpired ==
  ASSUME TypeInv, TypeInv', HeapKept, now <= now'
  PROVE  \A o \in DOMAIN heap : Expired(o) => now' >= heap'[o].expires
  <1> SUFFICES ASSUME NEW o \in DOMAIN heap, now >= heap[o].expires
               PROVE  now' >= heap'[o].expires
      BY DEF Expired
  <1>1. now \in Nat /\ now' \in Nat /\ heap[o].expires \in Nat
      BY DEF TypeInv, HeapInv, StateOK
  <1>2. heap'[o].expires = heap[o].expires
      BY DEF HeapKept
  <1> QED BY <1>1, <1>2

LEMMA TurnAside ==
  ASSUME TypeInv, TypeInv', NEW q \in Threads, Turning(q), TurnOK(q),
         Aside(Sid(q)), Untouched(q)
  PROVE  TurnOK(q)'
  <1> DEFINE s == Sid(q)  o == Obj(q)
  <1>1. /\ s \in Sids /\ loc[q].stage # "none"
        /\ Holding(q) \/ pc[q] = "risk" => o \in DOMAIN heap /\ heap[o].sid = s
      BY DEF TypeInv, ThreadsInv, LocalOK, Turning, Holding, Held, Sid, Obj, TurnPcs
  <1>2. /\ Holding(q)' <=> Holding(q)
        /\ Naming(q)' <=> Naming(q)
        /\ s' = s /\ o' = o
      BY DEF Untouched, Holding, Naming, Sid, Obj
  <1>3. \A j \in DOMAIN heap : Expired(j) => now' >= heap'[j].expires
      BY StaysExpired DEF Aside
  <1>4. Holding(q) \/ pc[q] = "risk" => heap'[o] = heap[o]
      BY <1>1 DEF Aside
  <1>5. StoreOK(q)'
      BY <1>2 DEF TurnOK, StoreOK, Aside, Untouched
  <1>6. ASSUME states'[s] = states[s], turns'[s] = turns[s], purpose'[s] = purpose[s]
        PROVE  CountOK(q)' /\ PurposeOK(q)'
    <2>1. CountOK(q)'
        BY <1>1, <1>2, <1>3, <1>4, <1>6
           DEF TurnOK, CountOK, Untouched, Expired, Grown, Sid, Obj, Holding, TurnPcs
    <2>2. PurposeOK(q)'
        BY <1>1, <1>2, <1>3, <1>4, <1>6
           DEF TurnOK, PurposeOK, Untouched, Expired, Sid, Obj, Holding, Naming
    <2> QED BY <2>1, <2>2
  <1>7. ASSUME states[s] # None, Expired(states[s])
        PROVE  CountOK(q)' /\ PurposeOK(q)'
    <2>1. Holding(q) => states[s] = o
        BY <1>7 DEF TurnOK, StoreOK
    <2>2. Holding(q) => now' >= heap'[o].expires
        BY <1>1, <1>3, <1>7, <2>1
    <2>3. CountOK(q)'
        BY <1>1, <1>2, <1>4, <2>2
           DEF TurnOK, CountOK, Untouched, Expired, Grown, Sid, Obj, Holding, TurnPcs
    <2>4. PurposeOK(q)'
        BY <1>1, <1>2, <1>4, <2>2
           DEF TurnOK, PurposeOK, Untouched, Expired, Sid, Obj, Holding, Naming
    <2> QED BY <2>3, <2>4
  <1>8. CountOK(q)' /\ PurposeOK(q)'
      BY <1>6, <1>7 DEF Aside
  <1>9. ScoreOK(q)'
      BY <1>1, <1>2, <1>4 DEF TurnOK, ScoreOK, Untouched, Holding, Obj
  <1> QED BY <1>5, <1>8, <1>9 DEF TurnOK

LEMMA SessionAside ==
  ASSUME TypeInv, TypeInv', NEW s \in Sids, SessionOK(s), Aside(s),
         \A q \in Threads : Turning(q) /\ Sid(q) = s => Untouched(q)
  PROVE  SessionOK(s)'
  <1>1. /\ Saved(s, "turn", Unsaved)' => Saved(s, "turn", Unsaved)
        /\ Saved(s, "purpose", {"save"})' => Saved(s, "purpose", {"save"})
      BY DEF Saved, Turning, Untouched, Sid
  <1>2. \A j \in DOMAIN heap : Expired(j) => now' >= heap'[j].expires
      BY StaysExpired DEF Aside
  <1>3. states[s] # None => states[s] \in DOMAIN heap /\ heap[states[s]].sid = s
      BY DEF TypeInv, HeapInv
  <1>4. CASE states'[s] = states[s] /\ turns'[s] = turns[s] /\ purpose'[s] = purpose[s]
    <2>1. states[s] # None => heap'[states[s]] = heap[states[s]]
        BY <1>3 DEF Aside
    <2>2. LiveState(s)' => LiveState(s)
        BY <1>2, <1>3, <1>4 DEF LiveState, Expired
    <2>3. LiveState(s) => states[s] # None
        BY DEF LiveState
    <2> QED BY <1>1, <1>4, <2>1, <2>2, <2>3 DEF SessionOK
  <1>5. CASE states'[s] = None /\ turns'[s] = 0 /\ purpose'[s] = None
      BY <1>5 DEF SessionOK, LiveState
  <1> QED BY <1>4, <1>5 DEF Aside

(* The same of a session one thread of which turns.                        *)
Between(s, p) ==
    /\ ~(pc[p] \in Unsaved /\ loc[p].stage = "turn") =>
           (states[s] = None => turns[s] = 0)
               /\ (LiveState(s) => heap[states[s]].turn_count = turns[s])
    /\ ~Naming(p) =>
           (states[s] = None => purpose[s] = None)
               /\ (LiveState(s) => heap[states[s]].purpose = purpose[s])

LEMMA SessionBetween ==
  ASSUME TypeInv, NEW p \in Threads, Turning(p), OneInput, SessionOK(Sid(p))
  PROVE  Between(Sid(p), p)
  <1>1. ASSUME NEW q \in Threads, q # p, Sid(q) = Sid(p)
        PROVE  ~Turning(q)
      BY <1>1 DEF OneInput
  <1>2. ~(pc[p] \in Unsaved /\ loc[p].stage = "turn") => Saved(Sid(p), "turn", Unsaved)
      BY <1>1 DEF Saved, Turning
  <1>3. ~Naming(p) => Saved(Sid(p), "purpose", {"save"})
      BY <1>1, Zenon DEF Saved, Turning, Naming
  <1> QED BY <1>2, <1>3 DEF SessionOK, Between

(* The steps of an input call that leave the objects and the store alone.  *)
LEMMA TurnReads ==
  ASSUME TypeInv, NEW p \in Threads, Turning(p), TurnOK(p),
         NEW s, s = Sid(p), Between(s, p), InnerStep(p)
  PROVE  TurnOK(p)' /\ Between(s, p)'
  <1> DEFINE o == Obj(p)
  <1>0. /\ LocalOK(pc[p], loc[p]) /\ HeapInv /\ s \in Sids
        /\ DOMAIN pc = Threads /\ DOMAIN loc = Threads
      BY DEF TypeInv, ThreadsInv, LocalOK, Turning, Sid
  <1>1. UNCHANGED <<heap, states, turns, purpose, now>>
      BY DEF InnerStep, LoadNone, LoadLive, ExpireHook, ExpireHookFails,
             ReadTurnCount, Get, Miss, ReadCount, StartScan, Scan, Score, ReadRisk,
             PolicyPasses, history
  <1> USE <1>0, <1>1 DEF TurnOK, StoreOK, CountOK, PurposeOK, ScoreOK, Between,
              Holding, Naming, Expired, LiveState, Grown, Sid, Obj, Turning, TurnPcs,
              Unsaved, Goto, LocalOK, LocFields
  <1>2. CASE LoadNone(p)
      BY <1>2 DEF LoadNone
  <1>3. CASE LoadLive(p)
      BY <1>3 DEF LoadLive
  <1>4. CASE ExpireHook(p) \/ ExpireHookFails(p)
    <2>1. CASE ExpireHook(p)
        BY <2>1 DEF ExpireHook
    <2>2. CASE ExpireHookFails(p)
        BY <2>2 DEF ExpireHookFails
    <2> QED BY <1>4, <2>1, <2>2
  <1>5. CASE ReadTurnCount(p)
    <2>1. PICK higher : higher = Max({heap[o].turn_count, loc[p].turn})
        OBVIOUS
    <2>2. ~Expired(o) => higher = turns[s] + 1
      <3>1. turns[s] \in Nat
          BY DEF HeapInv
      <3>2. Max({turns[s], turns[s] + 1}) = turns[s] + 1
          BY <3>1 DEF Max
      <3> QED BY <1>5, <2>1, <3>2 DEF ReadTurnCount
    <2>3. /\ pc'[p] = "count" /\ loc'[p].read = higher
          /\ loc'[p].obj = o /\ loc'[p].sid = s /\ loc'[p].stage = "turn"
          /\ pc[p] = "max" /\ loc[p].stage = "turn"
        BY <1>5, <2>1 DEF ReadTurnCount
    <2> QED BY <2>2, <2>3
  <1>6. CASE Get(p)
      BY <1>6 DEF Get
  <1>12. CASE Miss(p)
      BY <1>12, Zenon DEF Miss
  <1>13. CASE ReadCount(p)
      BY <1>13 DEF ReadCount
  <1>7. CASE StartScan(p)
      BY <1>7, Zenon DEF StartScan
  <1>8. CASE Scan(p)
      BY <1>8, Zenon DEF Scan
  <1>9. CASE Score(p)
      BY <1>9 DEF Score
  <1>10. CASE ReadRisk(p)
      BY <1>10 DEF ReadRisk
  <1>11. CASE PolicyPasses(p)
      BY <1>11, Zenon DEF PolicyPasses, Idle
  <1> QED BY <1>2, <1>3, <1>4, <1>5, <1>6, <1>7, <1>8, <1>9, <1>10, <1>11, <1>12, <1>13
          DEF InnerStep

(* Those that write to the object the thread holds.                        *)
LEMMA TurnWrites ==
  ASSUME TypeInv, NEW p \in Threads, Turning(p), TurnOK(p),
         NEW s, s = Sid(p), Between(s, p), WriteStep(p)
  PROVE  TurnOK(p)' /\ Between(s, p)'
  <1> DEFINE o == Obj(p)
  <1>0. /\ LocalOK(pc[p], loc[p]) /\ HeapInv /\ s \in Sids
        /\ DOMAIN pc = Threads /\ DOMAIN loc = Threads
      BY DEF TypeInv, ThreadsInv, LocalOK, Turning, Sid
  <1>1. PICK f, v : f \in StateFields \ {"sid", "expires"} /\ Writes(p, f, v)
      BY DEF WriteStep, Writes, StateFields
  <1>2. o \in DOMAIN heap /\ Wrote(o, f, v)
      BY <1>1, WriteSteps
  <1>3. UNCHANGED <<states, purpose, now>> /\ (f # "turn_count" => turns' = turns)
      BY <1>1 DEF Writes, StoreTurnCount, Stamp, WriteLast, WriteCount, Insert,
             Mentioned, WriteScore, RememberPurpose, history
  <1>4. /\ heap'[o].expires = heap[o].expires
        /\ f # "turn_count" => heap'[o].turn_count = heap[o].turn_count
        /\ f # "purpose" => heap'[o].purpose = heap[o].purpose
        /\ heap'[o][f] = v
      BY <1>1, <1>2 DEF Wrote, StateFields
  <1>5. Holding(p) /\ states[s] \in {None, o} /\ pc[p] \in TurnPcs \cup {"loaded"}
      BY <1>1, <1>2 DEF Writes, TurnOK, StoreOK, StoreTurnCount, Stamp, WriteLast,
             WriteCount, Insert, Mentioned, WriteScore, RememberPurpose, TurnPcs,
             Holding
  <1>6. o # None
      BY <1>0, <1>2, ObjectsAreNumbers
  <1> HIDE DEF o
  <1>7. o = Obj(p)
      BY DEF o
  <1> USE <1>0, <1>2, <1>3, <1>4, <1>5, <1>6, <1>7
          DEF TurnOK, StoreOK, CountOK, PurposeOK, ScoreOK, Between, Holding,
              Naming, Expired, LiveState, Grown, Sid, Obj, Turning, TurnPcs, Unsaved,
              Goto, LocalOK, LocFields
  <1>8. CASE StoreTurnCount(p) /\ f = "turn_count" /\ v = loc[p].read
    <2>1. turns'[s] = turns[s] + 1
        BY <1>8 DEF StoreTurnCount, HeapInv
    <2> QED BY <1>8, <2>1 DEF StoreTurnCount
  <1>9. CASE Stamp(p) /\ f = "stamps"
      BY <1>9 DEF Stamp
  <1>10. CASE WriteLast(p) /\ f = "entities"
    <2>1. /\ pc[p] = "last" /\ pc'[p] = "read"
          /\ \A q \in Threads \ {p} : pc'[q] = pc[q]
        BY <1>10 DEF WriteLast
    <2>2. loc' = loc
        BY <1>10 DEF WriteLast
    <2>3. TurnOK(p)'
        BY <1>10, <2>1, <2>2
    <2>4. Between(s, p)'
        BY <1>10, <2>1, <2>2
    <2> QED BY <2>3, <2>4
  <1>11. CASE WriteCount(p) /\ f = "entities"
    <2>1. /\ pc[p] = "add" /\ pc'[p] = "register"
          /\ \A q \in Threads \ {p} : pc'[q] = pc[q]
        BY <1>11 DEF WriteCount, Mentioned
    <2>2. loc' = [loc EXCEPT ![p].spans = Tail(@)]
        BY <1>11 DEF WriteCount, Mentioned
    <2>3. TurnOK(p)'
        BY <1>11, <2>1, <2>2
    <2>4. Between(s, p)'
        BY <1>11, <2>1, <2>2
    <2> QED BY <2>3, <2>4
  <1>14. CASE Insert(p) /\ f = "entities"
    <2>1. /\ pc[p] = "insert" /\ pc'[p] = "register"
          /\ \A q \in Threads \ {p} : pc'[q] = pc[q]
        BY <1>14 DEF Insert, Mentioned
    <2>2. loc' = [loc EXCEPT ![p].spans = Tail(@)]
        BY <1>14 DEF Insert, Mentioned
    <2>3. TurnOK(p)'
        BY <1>14, <2>1, <2>2
    <2>4. Between(s, p)'
        BY <1>14, <2>1, <2>2
    <2> QED BY <2>3, <2>4
  <1>12. CASE WriteScore(p) /\ f = "risk_score" /\ v = loc[p].score
      BY <1>12 DEF WriteScore
  <1>13. CASE RememberPurpose(p) /\ Obj(p) # None /\ f = "purpose"
                  /\ v = loc[p].purpose
      BY <1>13 DEF RememberPurpose
  <1> QED BY <1>1, <1>8, <1>9, <1>10, <1>11, <1>12, <1>13, <1>14 DEF Writes

(* Those that make an object.                                              *)
LEMMA TurnMakes ==
  ASSUME TypeInv, NEW p \in Threads, Turning(p), TurnOK(p),
         NEW s, s = Sid(p), Between(s, p), NewStep(p)
  PROVE  TurnOK(p)' /\ Between(s, p)'
  <1> DEFINE n == Len(heap) + 1
  <1>0. /\ LocalOK(pc[p], loc[p]) /\ HeapInv /\ s \in Sids
        /\ DOMAIN pc = Threads /\ DOMAIN loc = Threads
      BY DEF TypeInv, ThreadsInv, LocalOK, Turning, Sid
  <1>1. /\ pc[p] = "loaded" /\ Obj(p) = None /\ states[s] = None
        /\ turns[s] = 0 /\ purpose[s] = None
      BY DEF NewStep, TakeTurn, RememberPurpose, TurnOK, StoreOK, Between, Naming,
             Unsaved
  <1>2. UNCHANGED <<states, turns, purpose, now>>
      BY DEF NewStep, TakeTurn, RememberPurpose
  <1>3. heap'[n] = IF TakeTurn(p) THEN NewState(s)
                   ELSE [NewState(s) EXCEPT !.purpose = loc[p].purpose]
      BY NewObjects DEF NewStep
  <1>4. heap'[n].turn_count = 0
      BY <1>3 DEF NewState
  <1>5. CASE TakeTurn(p)
    <2>1. /\ pc'[p] = "max" /\ loc'[p].obj = n /\ loc'[p].turn = 1
          /\ loc'[p].sid = s /\ loc'[p].stage = "turn"
        BY <1>0, <1>1, <1>5 DEF TakeTurn, Goto, Sid, Obj, LocalOK, LocFields
    <2>2. heap'[n].purpose = None
        BY <1>3, <1>5 DEF NewState
    <2> HIDE DEF n
    <2> QED BY <1>1, <1>2, <1>4, <2>1, <2>2
            DEF TurnOK, StoreOK, CountOK, PurposeOK, ScoreOK, Between, Holding,
                Naming, Expired, LiveState, Sid, Obj, TurnPcs, Unsaved
  <1>6. CASE ~TakeTurn(p)
    <2>1. /\ pc'[p] = "save" /\ loc'[p].obj = n /\ loc'[p].stage = "purpose"
          /\ loc'[p].sid = s /\ loc'[p].purpose = loc[p].purpose
        BY <1>0, <1>1, <1>6
           DEF NewStep, RememberPurpose, Goto, Sid, Obj, LocalOK, LocFields
    <2>2. heap'[n].purpose = loc[p].purpose
        BY <1>3, <1>6 DEF NewState
    <2> HIDE DEF n
    <2> QED BY <1>1, <1>2, <1>4, <2>1, <2>2
            DEF TurnOK, StoreOK, CountOK, PurposeOK, ScoreOK, Between, Holding,
                Naming, Expired, LiveState, Sid, Obj, TurnPcs, Unsaved
  <1> QED BY <1>5, <1>6

(* Those that change the store, and the last ones.                         *)
LEMMA TurnStores ==
  ASSUME TypeInv, NEW p \in Threads, Turning(p), TurnOK(p),
         NEW s, s = Sid(p), Between(s, p),
         StoreStep(p) \/ LastStep(p)
  PROVE  TurnOK(p)' /\ Between(s, p)'
  <1> DEFINE o == Obj(p)
  <1>0. /\ LocalOK(pc[p], loc[p]) /\ HeapInv /\ s \in Sids
        /\ DOMAIN pc = Threads /\ DOMAIN loc = Threads
      BY DEF TypeInv, ThreadsInv, LocalOK, Turning, Sid
  <1>1. UNCHANGED <<heap, now>>
      BY DEF StoreStep, LastStep, TakeTurn, LoadExpired, SaveTurn, SavePurpose,
             ScanRaises, PolicyBlocks, Transform, Answer
  <1>7. SaveTurn(p) \/ SavePurpose(p) => states'[s] = o
    <2>1. SaveTurn(p) \/ SavePurpose(p) => heap[o].sid = s
        BY <1>0 DEF SaveTurn, SavePurpose, LocalOK, Held, Sid, Obj
    <2> QED BY <1>0, <2>1 DEF SaveTurn, SavePurpose, HeapInv
  <1>8. /\ SaveTurn(p) \/ LastStep(p) => turns' = turns /\ purpose' = purpose
        /\ SavePurpose(p) => turns' = turns /\ purpose'[s] = loc[p].purpose
      BY <1>0 DEF LastStep, SaveTurn, SavePurpose, ScanRaises, PolicyBlocks,
                  Transform, Answer, history, HeapInv
  <1>9. LastStep(p) => states' = states /\ pc'[p] = "idle" /\ loc'[p].stage = "none"
    <2>1. LastStep(p) => states' = states
        BY DEF LastStep, ScanRaises, PolicyBlocks, Transform, Answer
    <2>2. LastStep(p) => pc'[p] = "idle" /\ loc'[p] = Idle
        BY LastSteps DEF LastStep
    <2> QED BY <2>1, <2>2, IdleFields
  <1> USE <1>0, <1>1 DEF TurnOK, StoreOK, CountOK, PurposeOK, ScoreOK, Between,
              Holding, Naming, Expired, LiveState, Grown, Sid, Obj, Turning, TurnPcs,
              Unsaved, Goto, LocalOK, LocFields
  <1>2. CASE TakeTurn(p) /\ Obj(p) # None
    <2>1. UNCHANGED <<states, turns, purpose>>
        BY <1>2 DEF TakeTurn
    <2> QED BY <1>2, <2>1 DEF TakeTurn
  <1>3. CASE LoadExpired(p)
      BY <1>3 DEF LoadExpired, HeapInv
  <1>4. CASE SaveTurn(p)
    <2>1. /\ pc[p] = "save" /\ loc[p].stage = "turn" /\ pc'[p] = "risk" /\ loc' = loc
          /\ states'[s] = o /\ turns' = turns /\ purpose' = purpose
        BY <1>4, <1>7, <1>8 DEF SaveTurn
    <2>2. TurnOK(p)'
        BY <2>1
    <2>3. ~Expired(o) => heap[o].turn_count = turns[s] /\ heap[o].purpose = purpose[s]
        BY <2>1
    <2>4. o # None
        BY <2>1, ObjectsAreNumbers DEF Held
    <2> HIDE DEF o
    <2> QED BY <2>1, <2>2, <2>3, <2>4
  <1>5. CASE SavePurpose(p)
    <2>1. /\ pc[p] = "save" /\ loc[p].stage = "purpose" /\ pc'[p] = "transform"
          /\ loc' = loc
          /\ states'[s] = o /\ turns' = turns /\ purpose'[s] = loc[p].purpose
        BY <1>5, <1>7, <1>8 DEF SavePurpose
    <2>2. TurnOK(p)'
        BY <2>1
    <2>3. /\ ~Expired(o) => heap[o].turn_count = turns[s]
          /\ heap[o].purpose = loc[p].purpose
        BY <2>1
    <2>4. o # None
        BY <2>1, ObjectsAreNumbers DEF Held
    <2> HIDE DEF o
    <2> QED BY <2>1, <2>2, <2>3, <2>4
  <1>6. CASE LastStep(p)
      BY <1>6, <1>8, <1>9 DEF LastStep, ScanRaises, PolicyBlocks, Transform, Answer
  <1> QED BY <1>2, <1>3, <1>4, <1>5, <1>6 DEF StoreStep

LEMMA TurnSteps ==
  ASSUME TypeInv, NEW p \in Threads, Turning(p), TurnOK(p), OneInput,
         NEW s, s = Sid(p), SessionOK(s), CallStep(p)
  PROVE  TurnOK(p)' /\ Between(s, p)'
  <1>1. Between(s, p)
      BY SessionBetween
  <1> QED BY <1>1, TurnReads, TurnWrites, TurnMakes, TurnStores DEF CallStep

(* A call's step belongs to the call, and its stage stays an input's or an *)
(* output's.                                                               *)
LEMMA CallKept ==
  ASSUME TypeInv, NEW p \in Threads, CallStep(p)
  PROVE  \/ loc'[p].stage = "none"
         \/ /\ loc'[p].sid = loc[p].sid /\ loc[p].stage # "none"
            /\ Turning(p)' <=> Turning(p)
  <1>0. /\ LocalOK(pc[p], loc[p]) /\ DOMAIN loc = Threads /\ DOMAIN loc[p] = LocFields
      BY DEF TypeInv, ThreadsInv, LocalOK
  <1>1. CASE InnerStep(p)
    <2>1. CASE PolicyPasses(p)
        BY <1>0, <2>1 DEF PolicyPasses, Idle, Turning, LocalOK, Sid, TurnPcs
    <2>2. CASE ~PolicyPasses(p)
      <3>1. loc'[p].sid = loc[p].sid /\ loc'[p].stage = loc[p].stage
          BY <1>0, <1>1, <2>2
             DEF InnerStep, LoadNone, LoadLive, ExpireHook, ExpireHookFails,
                 LocFields, ReadTurnCount, Get, Miss, ReadCount, StartScan, Scan,
                 Score, ReadRisk, history
      <3>2. pc[p] # "idle"
          BY <1>1, CallSteps DEF CallStep
      <3> QED BY <1>0, <3>1, <3>2 DEF Turning, LocalOK
    <2> QED BY <2>1, <2>2
  <1>2. CASE WriteStep(p) \/ NewStep(p) \/ StoreStep(p)
    <2>1. loc'[p].sid = loc[p].sid /\ loc'[p].stage = loc[p].stage
        BY <1>0, <1>2
           DEF WriteStep, NewStep, StoreStep, StoreTurnCount, Stamp, WriteLast,
               WriteCount, Insert, Mentioned, WriteScore, RememberPurpose, TakeTurn,
               LoadExpired, SaveTurn, SavePurpose, LocFields, history
    <2>2. pc[p] # "idle"
        BY CallSteps
    <2> QED BY <1>0, <2>1, <2>2 DEF Turning, LocalOK
  <1>3. CASE LastStep(p)
      BY <1>3, LastSteps, IdleFields DEF LastStep
  <1> QED BY <1>1, <1>2, <1>3 DEF CallStep

(* A thread writes to objects of its own session only, and only an input   *)
(* call does.                                                              *)
LEMMA OwnObjects ==
  ASSUME TypeInv, NEW p \in Threads, CallStep(p),
         NEW o \in DOMAIN heap, heap'[o] # heap[o]
  PROVE  Turning(p) /\ heap[o].sid = Sid(p)
  <1>1. WriteStep(p)
    <2>1. NewStep(p) => heap'[o] = heap[o]
        BY NewObjects DEF NewStep
    <2>2. InnerStep(p) \/ StoreStep(p) \/ LastStep(p) => heap' = heap
        BY DEF InnerStep, StoreStep, LastStep, LoadNone, LoadLive, ExpireHook,
               ExpireHookFails, ReadTurnCount, Get, Miss, ReadCount, StartScan, Scan,
               Score, ReadRisk, PolicyPasses, TakeTurn, LoadExpired, SaveTurn,
               SavePurpose, ScanRaises, PolicyBlocks, Transform, Answer
    <2> QED BY <2>1, <2>2 DEF CallStep
  <1>2. PICK f, v : f \in StateFields \ {"sid", "expires"} /\ Writes(p, f, v)
      BY <1>1 DEF WriteStep, Writes, StateFields
  <1>3. Obj(p) \in DOMAIN heap /\ Wrote(Obj(p), f, v)
      BY <1>2, WriteSteps
  <1>4. o = Obj(p)
      BY <1>3 DEF Wrote
  <1>5. LocalOK(pc[p], loc[p])
      BY DEF TypeInv, ThreadsInv
  <1>6. pc[p] \in TurnPcs \/ (pc[p] = "loaded" /\ loc[p].stage = "purpose")
      BY <1>1 DEF WriteStep, StoreTurnCount, Stamp, WriteLast, WriteCount, Insert,
                  Mentioned, WriteScore, RememberPurpose, TurnPcs
  <1>7. Turning(p)
      BY <1>5, <1>6 DEF LocalOK, Turning
  <1>8. pc[p] = "loaded" => Obj(p) # None
      BY <1>3, ObjectsAreNumbers DEF TypeInv
  <1> QED BY <1>4, <1>5, <1>6, <1>7, <1>8 DEF LocalOK, Held, Sid, Obj, TurnPcs

(* What happens aside of a session's input call.                           *)
LEMMA Bystanders ==
  ASSUME TypeInv, [Next]_vars, NEW s \in Sids,
         \A p \in Threads : CallStep(p) => ~(Turning(p) /\ Sid(p) = s)
  PROVE  Aside(s) /\ \A q \in Threads : Turning(q) /\ Sid(q) = s => Untouched(q)
  <1>0. /\ HeapKept /\ now <= now' /\ DOMAIN states = Sids
        /\ turns \in [Sids -> Nat] /\ DOMAIN purpose = Sids
      BY NextTypes DEF TypeInv, HeapInv
  <1>1. ASSUME NEW p \in Threads, CallStep(p)
        PROVE  Aside(s) /\ \A q \in Threads : Turning(q) /\ Sid(q) = s => Untouched(q)
    <2>1. Tame(p) /\ LocalOK(pc[p], loc[p])
        BY <1>1, CallSteps DEF TypeInv, ThreadsInv
    <2>2. \A q \in Threads : Turning(q) /\ Sid(q) = s => Untouched(q)
        BY <1>1, <2>1 DEF Tame, OthersStay, Untouched
    <2>3. \A o \in DOMAIN heap : heap[o].sid = s => heap'[o] = heap[o]
        BY <1>1, OwnObjects
    <2>4. CASE Sid(p) # s
      <3>1. pc[p] = "save" => heap[Obj(p)].sid = Sid(p)
          BY <2>1 DEF LocalOK, Held, Sid, Obj
      <3>2. states'[s] = states[s]
          BY <1>0, <2>1, <2>4, <3>1 DEF Tame, Stored
      <3>3. turns'[s] = turns[s] /\ purpose'[s] = purpose[s]
          BY <1>0, <2>1, <2>4 DEF Tame, Counted
      <3> QED BY <1>0, <2>2, <2>3, <3>2, <3>3 DEF Aside
    <2>5. CASE Sid(p) = s
      <3>1. ~Turning(p)
          BY <1>1, <2>5, Zenon
      <3>2. \/ LoadExpired(p)
            \/ UNCHANGED <<states, turns, purpose>>
          BY <1>1, <2>1, <3>1
             DEF CallStep, InnerStep, WriteStep, NewStep, StoreStep, LastStep,
                 LoadNone, LoadLive, ExpireHook, ExpireHookFails, ReadTurnCount, Get,
                 Miss, ReadCount, StartScan, Scan, Score, ReadRisk, PolicyPasses,
                 StoreTurnCount, Stamp, WriteLast, WriteCount, Insert, Mentioned,
                 WriteScore, RememberPurpose, TakeTurn, SaveTurn, SavePurpose,
                 ScanRaises, PolicyBlocks, Transform, Answer, history, Turning,
                 LocalOK, TurnPcs
      <3>3. CASE LoadExpired(p)
        <4>1. /\ states[s] # None /\ Expired(states[s])
              /\ states'[s] = None /\ turns'[s] = 0 /\ purpose'[s] = None
            BY <1>0, <2>5, <3>3 DEF LoadExpired
        <4> QED BY <1>0, <2>2, <2>3, <4>1 DEF Aside
      <3>4. CASE UNCHANGED <<states, turns, purpose>>
          BY <1>0, <2>2, <2>3, <3>4 DEF Aside
      <3> QED BY <3>2, <3>3, <3>4
    <2> QED BY <2>4, <2>5
  <1>2. ASSUME NEW p \in Threads, Input(p) \/ Output(p)
        PROVE  Aside(s) /\ \A q \in Threads : Turning(q) /\ Sid(q) = s => Untouched(q)
    <2>1. OthersStay(p) /\ UNCHANGED <<heap, states, turns, purpose, now>>
        BY <1>2, BeginSteps
    <2>2. ~Turning(p)
        BY <1>2 DEF Input, Output, Begin, TypeInv, ThreadsInv, LocalOK, Turning
    <2> QED BY <1>0, <2>1, <2>2 DEF Aside, OthersStay, Untouched
  <1>3. CASE SweepPop
    <2>1. UNCHANGED <<heap, now, pc, loc>>
        BY <1>3 DEF SweepPop
    <2>2. \/ states'[s] = states[s] /\ turns'[s] = turns[s] /\ purpose'[s] = purpose[s]
          \/ /\ states[s] # None /\ Expired(states[s])
             /\ states'[s] = None /\ turns'[s] = 0 /\ purpose'[s] = None
        BY <1>3 DEF SweepPop
    <2> QED BY <1>0, <2>1, <2>2 DEF Aside, Untouched
  <1>4. CASE HookStep \/ Tick \/ UNCHANGED vars
    <2>1. UNCHANGED <<heap, states, turns, purpose, pc, loc>>
        BY <1>4 DEF HookStep, SweepHook, SweepHookFails, Tick, vars, history
    <2> QED BY <1>0, <2>1 DEF Aside, Untouched
  <1> QED BY <1>1, <1>2, <1>3, <1>4, NextSteps

(* Input calls that are admitted one after the other stay so.              *)
LEMMA OneInputKept ==
  ASSUME TypeInv, setting.calls # "any", OneInput, [Next]_vars
  PROVE  OneInput'
  <1>0. /\ setting.calls \in {"input", "call"}
        /\ \A p \in Threads : LocalOK(pc[p], loc[p])
        /\ DOMAIN loc = Threads
      BY StoreAssumption DEF TypeInv, ThreadsInv, HeapInv, Setting
  <1>1. ASSUME NEW p \in Threads, CallStep(p)
        PROVE  OneInput'
      BY <1>1, CallSteps, CallKept DEF OneInput, Tame, OthersStay, Turning, Sid
  <1>2. ASSUME NEW p \in Threads, Input(p)
        PROVE  OneInput'
    <2>1. PICK s, spans, what : s \in Sids /\ Begin(p, s, "turn", spans, what)
        BY <1>2 DEF Input
    <2>2. \A q \in Threads : Turning(q) => Sid(q) # s
        BY <1>0, <2>1 DEF Begin, Admitted, Busy, Turning
    <2>3. loc'[p].sid = s /\ OthersStay(p)
        BY <1>0, <1>2, <2>1, BeginSteps DEF Begin, Idle
    <2> QED BY <2>2, <2>3 DEF OneInput, OthersStay, Turning, Sid
  <1>3. ASSUME NEW p \in Threads, Output(p)
        PROVE  OneInput'
    <2>1. loc'[p].stage = "answer" /\ OthersStay(p)
        BY <1>0, <1>3, BeginSteps DEF Output, Begin, Idle
    <2> QED BY <2>1 DEF OneInput, OthersStay, Turning, Sid
  <1>4. CASE SweepPop \/ HookStep \/ Tick \/ UNCHANGED vars
    <2>1. loc' = loc
        BY <1>4 DEF SweepPop, HookStep, SweepHook, SweepHookFails, Tick, vars, history
    <2> QED BY <2>1 DEF OneInput, Turning, Sid
  <1> QED BY <1>1, <1>2, <1>3, <1>4, NextSteps

LEMMA NextInputs ==
  ASSUME TypeInv, InputsInv, [Next]_vars
  PROVE  InputsInv'
  <1>0. TypeInv' /\ setting' = setting /\ HeapKept /\ now <= now'
      BY NextTypes
  <1> SUFFICES ASSUME setting.calls # "any"
               PROVE  /\ OneInput'
                      /\ \A p \in Threads : Turning(p)' => TurnOK(p)'
                      /\ \A s \in Sids : SessionOK(s)'
      BY <1>0 DEF InputsInv
  <1>1. /\ OneInput /\ \A p \in Threads : Turning(p) => TurnOK(p)
        /\ \A s \in Sids : SessionOK(s)
      BY DEF InputsInv
  <1>2. ASSUME NEW p \in Threads, Turning(p)
        PROVE  Sid(p) \in Sids
      BY <1>2 DEF TypeInv, ThreadsInv, LocalOK, Turning, Sid
  <1>3. ASSUME NEW p \in Threads, Turning(p)'
        PROVE  TurnOK(p)'
    <2>1. CASE Turning(p) /\ CallStep(p)
      <3>1. PICK s \in Sids : s = Sid(p)
          BY <1>2, <2>1
      <3> QED BY <1>1, <2>1, <3>1, TurnSteps
    <2>2. CASE Turning(p) /\ ~CallStep(p)
      <3>1. \A q \in Threads : CallStep(q) => ~(Turning(q) /\ Sid(q) = Sid(p))
          BY <1>1, <2>2 DEF OneInput
      <3>2. Aside(Sid(p)) /\ Untouched(p)
        <4>1. PICK s \in Sids : s = Sid(p)
            BY <1>2, <2>2
        <4> QED BY <2>2, <3>1, <4>1, Bystanders
      <3> QED BY <1>0, <1>1, <2>2, <3>2, TurnAside
    <2>3. CASE ~Turning(p)
      <3>1. ~CallStep(p)
          BY <1>3, <2>3, CallKept DEF Turning
      <3>2. ASSUME NEW q \in Threads, q # p, CallStep(q) \/ Input(q) \/ Output(q)
            PROVE  FALSE
          BY <1>3, <2>3, <3>2, CallSteps, BeginSteps DEF Tame, OthersStay, Turning
      <3>3. ~(SweepPop \/ HookStep \/ Tick \/ UNCHANGED vars)
        <4>1. SweepPop \/ HookStep \/ Tick \/ UNCHANGED vars => loc' = loc
            BY DEF SweepPop, HookStep, SweepHook, SweepHookFails, Tick, vars, history
        <4> QED BY <1>3, <2>3, <4>1 DEF Turning
      <3>4. Input(p) \/ Output(p)
          BY <3>1, <3>2, <3>3, NextSteps
      <3>5. pc'[p] = "load"
          BY <3>4 DEF Input, Output, Begin, Goto, TypeInv, ThreadsInv
      <3> QED BY <3>5 DEF TurnOK, StoreOK, CountOK, PurposeOK, ScoreOK, Holding,
                          Naming, TurnPcs
    <2> QED BY <2>1, <2>2, <2>3
  <1>4. ASSUME NEW s \in Sids
        PROVE  SessionOK(s)'
    <2>1. ASSUME NEW p \in Threads, CallStep(p), Turning(p), Sid(p) = s
          PROVE  SessionOK(s)'
      <3>1. Between(s, p)'
          BY <1>1, <2>1, TurnSteps
      <3>2. loc'[p].stage = "none" \/ loc'[p].sid = s
          BY <2>1, CallKept DEF Sid
      <3>3. /\ Saved(s, "turn", Unsaved)' =>
                   ~(pc'[p] \in Unsaved /\ loc'[p].stage = "turn")
            /\ Saved(s, "purpose", {"save"})' => ~Naming(p)'
          BY <3>2 DEF Saved, Naming, Sid
      <3> QED BY <3>1, <3>3 DEF SessionOK, Between
    <2>2. CASE \A p \in Threads : CallStep(p) => ~(Turning(p) /\ Sid(p) = s)
        BY <1>0, <1>1, <2>2, Bystanders, SessionAside
    <2> QED BY <2>1, <2>2
  <1> QED BY <1>1, <1>3, <1>4, OneInputKept

LEMMA InitInputs == Init => InputsInv
  <1> SUFFICES ASSUME Init PROVE InputsInv
      OBVIOUS
  <1>1. \A p \in Threads : ~Turning(p)
      BY IdleFields DEF Init, Turning
  <1>2. \A s \in Sids : SessionOK(s)
      BY DEF Init, SessionOK, LiveState
  <1> QED BY <1>1, <1>2 DEF InputsInv, OneInput

(* While the input calls of a session come one after the other, whatever   *)
(* output calls, expiries and sweeps come between their steps: no turn is  *)
(* lost or counted twice...                                                *)
THEOREM TurnsAreKept == Spec => []TurnsCounted
  <1>1. TypeInv /\ InputsInv => TurnsCounted
    <2> SUFFICES ASSUME TypeInv, InputsInv, setting.calls # "any", NEW s \in Sids,
                        LiveState(s),
                        \A p \in Threads : ~(/\ Sid(p) = s /\ pc[p] \in Unsaved
                                             /\ loc[p].stage = "turn")
                 PROVE  heap[states[s]].turn_count = turns[s]
        BY DEF TurnsCounted, TurnsAreCounted
    <2> QED BY DEF InputsInv, SessionOK, Saved
  <1>2. TypeInv /\ InputsInv /\ [Next]_vars => (TypeInv /\ InputsInv)'
      BY NextTypes, NextInputs
  <1> QED BY <1>1, <1>2, InitTypes, InitInputs, PTL DEF Spec

(* ...an output call loads the purpose saved last...                       *)
THEOREM PurposeIsKept == Spec => []PurposeOfLastTurn
  <1>1. TypeInv /\ InputsInv => PurposeOfLastTurn
    <2> SUFFICES ASSUME TypeInv, InputsInv, setting.calls # "any", NEW s \in Sids,
                        LiveState(s),
                        \A p \in Threads : ~(/\ Sid(p) = s /\ pc[p] = "save"
                                             /\ loc[p].stage = "purpose")
                 PROVE  heap[states[s]].purpose = purpose[s]
        BY DEF PurposeOfLastTurn
    <2> QED BY DEF InputsInv, SessionOK, Saved
  <1>2. TypeInv /\ InputsInv /\ [Next]_vars => (TypeInv /\ InputsInv)'
      BY NextTypes, NextInputs
  <1> QED BY <1>1, <1>2, InitTypes, InitInputs, PTL DEF Spec

(* ...and the policy judges a turn by the score it has computed itself.    *)
THEOREM RiskIsItsOwn == Spec => []RiskOfOwnTurn
  <1>1. TypeInv /\ InputsInv => RiskOfOwnTurn
      BY DEF InputsInv, RiskOfOwnTurn, TurnOK, ScoreOK, Turning, TypeInv, ThreadsInv,
             LocalOK, TurnPcs
  <1>2. TypeInv /\ InputsInv /\ [Next]_vars => (TypeInv /\ InputsInv)'
      BY NextTypes, NextInputs
  <1> QED BY <1>1, <1>2, InitTypes, InitInputs, PTL DEF Spec

-----------------------------------------------------------------------------
(* Entities: the records of an object, beside the mentions of their keys.  *)
Places(ms, k) == {i \in DOMAIN ms : ms[i] = k}
Times(ms, k) == Cardinality(Places(ms, k))

(* Every key mentioned has a record, and no record counts more than the    *)
(* mentions of its key...                                                  *)
RecordOK(rec, ms) ==
    /\ DOMAIN rec = {"key", "last", "count"} /\ rec.key \in Range(ms)
    /\ rec.count \in Nat /\ rec.count <= Times(ms, rec.key)
EntitiesOK(es, ms) ==
    /\ DOMAIN es = {"index", "records"} /\ IsSeq(es.records) /\ IsSeq(ms)
    /\ DOMAIN es.index = Range(ms)
    /\ \A k \in DOMAIN es.index :
           es.index[k] \in DOMAIN es.records /\ es.records[es.index[k]].key = k
    /\ \A i \in DOMAIN es.records : RecordOK(es.records[i], ms)

(* ...nor has a thread that updates a record read a higher count, whether  *)
(* the record is still the one of its key or has been replaced.            *)
Updating(p) == pc[p] \in {"last", "read", "add"}
UpdateOK(p, es, ms) ==
    /\ Updating(p) => /\ loc[p].rec \in DOMAIN es.records
                      /\ es.records[loc[p].rec].key = Key(p)
    /\ pc[p] = "add" => loc[p].read \in Nat /\ loc[p].read <= Times(ms, Key(p))
MentionsInv ==
    /\ IsSeq(mentions) /\ Len(mentions) = Len(heap)
    /\ \A o \in DOMAIN heap : EntitiesOK(heap[o].entities, mentions[o])
    /\ \A p \in Threads : UpdateOK(p, heap[Obj(p)].entities, mentions[Obj(p)])

(* While no two input calls of a session overlap, the count is exact, and  *)
(* the record a thread updates, or misses, is the one of its key.          *)
AllCounted(es, ms) ==
    \A k \in DOMAIN es.index : es.records[es.index[k]].count = Times(ms, k)
UpdateExact(p, es) ==
    /\ Updating(p) => Key(p) \in DOMAIN es.index /\ loc[p].rec = es.index[Key(p)]
    /\ pc[p] = "add" => loc[p].read = es.records[loc[p].rec].count
    /\ pc[p] = "insert" => Key(p) \notin DOMAIN es.index
ExactInv ==
    setting.calls # "any" =>
        /\ \A o \in DOMAIN heap : AllCounted(heap[o].entities, mentions[o])
        /\ \A p \in Threads : UpdateExact(p, heap[Obj(p)].entities)

(* What becomes of a dictionary and its mentions, seen by another thread.  *)
Follows(new, more, es, ms) ==
    /\ \A i \in DOMAIN es.records :
           i \in DOMAIN new.records /\ new.records[i].key = es.records[i].key
    /\ \A k : Times(ms, k) \in Nat /\ Times(more, k) \in Nat
              /\ Times(ms, k) <= Times(more, k)

LEMMA TimesAreNumbers ==
  ASSUME NEW ms, IsSeq(ms), NEW k
  PROVE  IsFiniteSet(Places(ms, k)) /\ Times(ms, k) \in Nat
  <1>1. DOMAIN ms = 1 .. Len(ms) /\ Len(ms) \in Nat
      BY SeqDomain
  <1>2. IsFiniteSet(DOMAIN ms)
      BY <1>1, FS_Interval
  <1>3. IsFiniteSet(Places(ms, k))
      BY <1>2, FS_Subset DEF Places
  <1> QED BY <1>3, FS_CardinalityType DEF Times

LEMMA NeverMentioned ==
  ASSUME NEW ms, IsSeq(ms), NEW k, k \notin Range(ms)
  PROVE  Times(ms, k) = 0
  <1>1. Places(ms, k) = {}
      BY DEF Places, Range
  <1> QED BY <1>1, FS_EmptySet DEF Times

(* One mention more has one place more.                                    *)
OnceMore(ms, k, more) ==
    /\ IsSeq(more) /\ Range(more) = Range(ms) \cup {k}
    /\ Times(more, k) = Times(ms, k) + 1
    /\ \A j : j # k => Times(more, j) = Times(ms, j)
LEMMA OneMention ==
  ASSUME NEW ms, IsSeq(ms), NEW k, NEW more, more = Append(ms, k)
  PROVE  OnceMore(ms, k, more)
  <1>1. /\ IsSeq(more) /\ DOMAIN more = DOMAIN ms \cup {Len(ms) + 1}
        /\ Len(ms) + 1 \notin DOMAIN ms /\ more[Len(ms) + 1] = k
      BY SeqAppended, Zenon
  <1>2. \A i \in DOMAIN ms : more[i] = ms[i]
      BY SeqAppended
  <1> DEFINE n == Len(ms) + 1
  <1> HIDE DEF n
  <1>3. DOMAIN more = DOMAIN ms \cup {n} /\ n \notin DOMAIN ms /\ more[n] = k
      BY <1>1 DEF n
  <1>4. Range(more) = Range(ms) \cup {k}
      BY <1>2, <1>3 DEF Range
  <1>5. /\ Places(more, k) = Places(ms, k) \cup {n} /\ n \notin Places(ms, k)
        /\ \A j : j # k => Places(more, j) = Places(ms, j)
      BY <1>2, <1>3 DEF Places
  <1>6. PICK old : old = Places(ms, k)
      OBVIOUS
  <1>7. Cardinality(old \cup {n}) = Cardinality(old) + 1
      BY <1>5, <1>6, TimesAreNumbers, FS_AddElement
  <1>8. Times(more, k) = Times(ms, k) + 1
      BY <1>5, <1>6, <1>7 DEF Times
  <1>9. \A j : j # k => Times(more, j) = Times(ms, j)
      BY <1>5 DEF Times
  <1> QED BY <1>1, <1>4, <1>8, <1>9 DEF OnceMore

LEMMA FollowsItself ==
  ASSUME NEW es, NEW ms, IsSeq(ms)
  PROVE  Follows(es, ms, es, ms)
  BY TimesAreNumbers DEF Follows

(* The writes of an update, and of an insertion.                           *)
LEMMA Dating ==
  ASSUME NEW es, NEW ms, EntitiesOK(es, ms), NEW i \in DOMAIN es.records, NEW turn,
         NEW new, new = DatedAt(es, i, turn)
  PROVE  /\ EntitiesOK(new, ms) /\ Follows(new, ms, es, ms)
         /\ AllCounted(es, ms) => AllCounted(new, ms)
         /\ new.index = es.index
  <1>1. PICK rs : rs = es.records
      OBVIOUS
  <1>2. PICK rec : rec = [rs[i] EXCEPT !.last = turn]
      OBVIOUS
  <1>3. new.records = [rs EXCEPT ![i] = rec] /\ new.index = es.index
        /\ DOMAIN new = {"index", "records"}
      BY <1>1, <1>2 DEF DatedAt, EntitiesOK
  <1>4. IsSeq(rs) /\ RecordOK(rs[i], ms) /\ i \in DOMAIN rs
      BY <1>1 DEF EntitiesOK
  <1>5. rec.key = rs[i].key /\ rec.count = rs[i].count /\ RecordOK(rec, ms)
      BY <1>2, <1>4 DEF RecordOK
  <1>6. /\ IsSeq(new.records) /\ DOMAIN new.records = DOMAIN rs
        /\ new.records[i] = rec /\ \A j \in DOMAIN rs : j # i => new.records[j] = rs[j]
    <2>1. PICK g : g = [rs EXCEPT ![i] = rec]
        OBVIOUS
    <2>2. /\ IsSeq(g) /\ DOMAIN g = DOMAIN rs
          /\ g[i] = rec /\ \A j \in DOMAIN rs : j # i => g[j] = rs[j]
        BY <1>4, <2>1, SeqEdited, Zenon
    <2> QED BY <1>3, <2>1, <2>2, Zenon
  <1>7. EntitiesOK(new, ms)
      BY <1>1, <1>3, <1>5, <1>6 DEF EntitiesOK
  <1>8. Follows(new, ms, es, ms)
    <2>1. IsSeq(ms)
        BY DEF EntitiesOK
    <2> QED BY <1>1, <1>5, <1>6, <2>1, TimesAreNumbers DEF Follows
  <1>9. AllCounted(es, ms) => AllCounted(new, ms)
      BY <1>1, <1>3, <1>5, <1>6 DEF AllCounted, EntitiesOK
  <1> QED BY <1>3, <1>7, <1>8, <1>9

LEMMA Counting ==
  ASSUME NEW es, NEW ms, EntitiesOK(es, ms), NEW i \in DOMAIN es.records,
         NEW k, k = es.records[i].key, NEW n \in Nat, n <= Times(ms, k),
         NEW new, new = CountedAs(es, i, n + 1), NEW more, more = Append(ms, k)
  PROVE  /\ EntitiesOK(new, more) /\ Follows(new, more, es, ms)
         /\ AllCounted(es, ms) /\ i = es.index[k] /\ n = es.records[i].count
                => AllCounted(new, more)
  <1>1. PICK rs : rs = es.records
      OBVIOUS
  <1>2. PICK rec : rec = [rs[i] EXCEPT !.count = n + 1]
      OBVIOUS
  <1>3. /\ new.records = [rs EXCEPT ![i] = rec] /\ new.index = es.index
        /\ DOMAIN new = {"index", "records"}
      BY <1>1, <1>2 DEF CountedAs, EntitiesOK
  <1>4. /\ IsSeq(rs) /\ RecordOK(rs[i], ms) /\ i \in DOMAIN rs /\ IsSeq(ms)
        /\ k \in DOMAIN es.index
      BY <1>1 DEF EntitiesOK, RecordOK
  <1>5. /\ IsSeq(more) /\ Range(more) = Range(ms) \cup {k}
        /\ Times(more, k) = Times(ms, k) + 1
        /\ \A j : j # k => Times(more, j) = Times(ms, j)
    <2>1. OnceMore(ms, k, more)
        BY <1>4, OneMention
    <2> QED BY <2>1 DEF OnceMore
  <1>6. \A j : Times(ms, j) \in Nat
      BY <1>4, TimesAreNumbers
  <1>7. rec.key = k /\ rec.count = n + 1 /\ RecordOK(rec, more)
      BY <1>1, <1>2, <1>4, <1>5, <1>6 DEF RecordOK
  <1>8. /\ IsSeq(new.records) /\ DOMAIN new.records = DOMAIN rs
        /\ new.records[i] = rec /\ \A j \in DOMAIN rs : j # i => new.records[j] = rs[j]
    <2>1. PICK g : g = [rs EXCEPT ![i] = rec]
        OBVIOUS
    <2>2. /\ IsSeq(g) /\ DOMAIN g = DOMAIN rs
          /\ g[i] = rec /\ \A j \in DOMAIN rs : j # i => g[j] = rs[j]
        BY <1>4, <2>1, SeqEdited, Zenon
    <2> QED BY <1>3, <2>1, <2>2, Zenon
  <1>9. ASSUME NEW j \in DOMAIN rs PROVE RecordOK(rs[j], more)
    <2>1. RecordOK(rs[j], ms)
        BY <1>1 DEF EntitiesOK
    <2> QED BY <1>5, <1>6, <2>1 DEF RecordOK
  <1>10. DOMAIN new.index = Range(more)
      BY <1>3, <1>4, <1>5 DEF EntitiesOK
  <1>11. EntitiesOK(new, more)
      BY <1>1, <1>3, <1>5, <1>7, <1>8, <1>9, <1>10 DEF EntitiesOK
  <1>12. Follows(new, more, es, ms)
      BY <1>1, <1>5, <1>6, <1>7, <1>8, SMTT(30) DEF Follows
  <1>13. ASSUME AllCounted(es, ms), i = es.index[k], n = es.records[i].count,
                NEW j \in DOMAIN new.index
         PROVE  new.records[new.index[j]].count = Times(more, j)
    <2>1. CASE j = k
        BY <1>1, <1>3, <1>4, <1>5, <1>7, <1>8, <1>13, <2>1, Zenon DEF AllCounted
    <2>2. CASE j # k
      <3>1. es.index[j] \in DOMAIN rs /\ rs[es.index[j]].key = j
          BY <1>1, <1>3, <1>13, Zenon DEF EntitiesOK
      <3>2. es.index[j] # i
          BY <1>1, <2>2, <3>1
      <3>3. new.records[new.index[j]] = rs[es.index[j]]
          BY <1>3, <1>8, <3>1, <3>2, Zenon
      <3>4. rs[es.index[j]].count = Times(ms, j)
          BY <1>1, <1>3, <1>13, Zenon DEF AllCounted
      <3> QED BY <1>5, <2>2, <3>3, <3>4, Zenon
    <2> QED BY <2>1, <2>2
  <1> QED BY <1>11, <1>12, <1>13 DEF AllCounted

LEMMA Inserting ==
  ASSUME NEW es, NEW ms, EntitiesOK(es, ms), NEW k, NEW turn,
         NEW new, new = Inserted(es, k, turn), NEW more, more = Append(ms, k)
  PROVE  /\ EntitiesOK(new, more) /\ Follows(new, more, es, ms)
         /\ AllCounted(es, ms) /\ k \notin DOMAIN es.index => AllCounted(new, more)
  <1>1. PICK rs : rs = es.records
      OBVIOUS
  <1>2. PICK rec : rec = Record(k, turn)
      OBVIOUS
  <1>3. PICK n : n = Len(rs) + 1
      OBVIOUS
  <1>4. /\ new.records = Append(rs, rec) /\ DOMAIN new = {"index", "records"}
        /\ DOMAIN new.index = DOMAIN es.index \cup {k} /\ new.index[k] = n
        /\ \A j \in DOMAIN es.index : j # k => new.index[j] = es.index[j]
      BY <1>1, <1>2, <1>3 DEF Inserted
  <1>5. IsSeq(rs) /\ IsSeq(ms) /\ DOMAIN es.index = Range(ms)
      BY <1>1 DEF EntitiesOK
  <1>6. /\ IsSeq(more) /\ Range(more) = Range(ms) \cup {k}
        /\ Times(more, k) = Times(ms, k) + 1
        /\ \A j : j # k => Times(more, j) = Times(ms, j)
    <2>1. OnceMore(ms, k, more)
        BY <1>5, OneMention
    <2> QED BY <2>1 DEF OnceMore
  <1>7. \A j : Times(ms, j) \in Nat
      BY <1>5, TimesAreNumbers
  <1>8. rec.key = k /\ rec.count = 1 /\ RecordOK(rec, more)
    <2>1. Times(ms, k) \in Nat /\ Times(more, k) = Times(ms, k) + 1
        BY <1>6, <1>7
    <2>2. rec.key = k /\ rec.count = 1 /\ DOMAIN rec = {"key", "last", "count"}
        BY <1>2 DEF Record
    <2>3. 1 <= Times(more, k)
        BY <2>1
    <2> QED BY <1>6, <2>2, <2>3 DEF RecordOK
  <1>9. PICK later : later = new.records
      OBVIOUS
  <1>10. /\ IsSeq(later) /\ DOMAIN later = DOMAIN rs \cup {n} /\ n \notin DOMAIN rs
         /\ later[n] = rec
    <2>1. PICK g : g = Append(rs, rec)
        OBVIOUS
    <2>2. /\ IsSeq(g) /\ DOMAIN g = DOMAIN rs \cup {Len(rs) + 1}
          /\ Len(rs) + 1 \notin DOMAIN rs /\ g[Len(rs) + 1] = rec
        BY <1>5, <2>1, SeqAppended, Zenon
    <2> QED BY <1>3, <1>4, <1>9, <2>1, <2>2
  <1>11. \A j \in DOMAIN rs : later[j] = rs[j]
      BY <1>4, <1>5, <1>9, SeqAppended
  <1>12. ASSUME NEW j \in DOMAIN rs PROVE RecordOK(rs[j], more)
    <2>1. RecordOK(rs[j], ms)
        BY <1>1 DEF EntitiesOK
    <2> QED BY <1>6, <1>7, <2>1 DEF RecordOK
  <1>13. \A j \in DOMAIN es.index :
             es.index[j] \in DOMAIN rs /\ rs[es.index[j]].key = j
      BY <1>1 DEF EntitiesOK
  <1>14. EntitiesOK(new, more)
    <2>1. \A j \in DOMAIN new.index :
              new.index[j] \in DOMAIN later /\ later[new.index[j]].key = j
        BY <1>4, <1>8, <1>10, <1>11, <1>13
    <2>2. \A j \in DOMAIN later : RecordOK(later[j], more)
        BY <1>8, <1>10, <1>11, <1>12
    <2> QED BY <1>4, <1>5, <1>6, <1>9, <1>10, <2>1, <2>2 DEF EntitiesOK
  <1>15. Follows(new, more, es, ms)
      BY <1>1, <1>6, <1>7, <1>9, <1>10, <1>11 DEF Follows
  <1>16. ASSUME AllCounted(es, ms), k \notin DOMAIN es.index, NEW j \in DOMAIN new.index
         PROVE  later[new.index[j]].count = Times(more, j)
    <2>1. CASE j = k
      <3>1. Times(ms, k) = 0
          BY <1>5, <1>16, NeverMentioned
      <3> QED BY <1>4, <1>6, <1>8, <1>10, <2>1, <3>1
    <2>2. CASE j # k
        BY <1>1, <1>4, <1>6, <1>11, <1>13, <1>16, <2>2 DEF AllCounted
    <2> QED BY <2>1, <2>2
  <1> QED BY <1>9, <1>14, <1>15, <1>16 DEF AllCounted

(* The step of a thread that writes to a record or inserts one.            *)
RecordStep(p) == WriteLast(p) \/ WriteCount(p) \/ Insert(p)
LEMMA RecordSteps ==
  ASSUME TypeInv, MentionsInv, NEW p \in Threads, RecordStep(p),
         NEW o, o = Obj(p)
  PROVE  /\ o \in DOMAIN heap /\ DOMAIN heap' = DOMAIN heap /\ HeapOK'
         /\ IsSeq(mentions') /\ Len(mentions') = Len(mentions)
         /\ \A j \in DOMAIN heap :
                j # o => heap'[j] = heap[j] /\ mentions'[j] = mentions[j]
         /\ EntitiesOK(heap'[o].entities, mentions'[o])
         /\ Follows(heap'[o].entities, mentions'[o], heap[o].entities, mentions[o])
         /\ /\ AllCounted(heap[o].entities, mentions[o])
            /\ UpdateExact(p, heap[o].entities)
            => AllCounted(heap'[o].entities, mentions'[o])
         /\ WriteLast(p) => heap'[o].entities.index = heap[o].entities.index
  <1> DEFINE es == heap[o].entities  ms == mentions[o]  k == Key(p)  l == loc[p]
  <1>0. HeapInv
      BY DEF TypeInv
  <1>1. PICK new : \/ WriteLast(p) /\ new = DatedAt(es, l.rec, l.turn)
                   \/ WriteCount(p) /\ new = CountedAs(es, l.rec, l.read + 1)
                   \/ Insert(p) /\ new = Inserted(es, k, l.turn)
      BY DEF RecordStep
  <1>2. Tame(p) /\ o \in DOMAIN heap /\ Wrote(o, "entities", new)
    <2>1. "entities" \in StateFields \ {"sid", "expires"}
        BY DEF StateFields
    <2> QED BY <1>1, <2>1, WriteSteps DEF Writes
  <1>3. DOMAIN mentions = DOMAIN heap /\ IsSeq(mentions)
      BY <1>0, SeqDomain DEF MentionsInv, HeapInv
  <1>4. PICK more : IF WriteLast(p) THEN more = ms ELSE more = Append(ms, k)
      OBVIOUS
  <1>5. /\ IsSeq(mentions') /\ Len(mentions') = Len(mentions) /\ mentions'[o] = more
        /\ \A j \in DOMAIN heap : j # o => mentions'[j] = mentions[j]
    <2>1. CASE WriteLast(p)
        BY <1>3, <1>4, <2>1 DEF WriteLast, history
    <2>2. CASE ~WriteLast(p)
      <3>1. mentions' = [mentions EXCEPT ![o] = more]
          BY <1>1, <1>4, <2>2 DEF WriteCount, Insert, Mentioned
      <3>2. PICK g : g = [mentions EXCEPT ![o] = more]
          OBVIOUS
      <3>3. /\ DOMAIN g = DOMAIN mentions /\ g = [i \in DOMAIN g |-> g[i]]
            /\ g[o] = more /\ \A j \in DOMAIN mentions : j # o => g[j] = mentions[j]
          BY <1>2, <1>3, <3>2
      <3>4. IsSeq(g) /\ Len(g) = Len(mentions)
          BY <1>3, <3>3, SeqOfDomain, Zenon
      <3> QED BY <1>3, <3>1, <3>2, <3>3, <3>4
    <2> QED BY <2>1, <2>2
  <1>6. heap'[o].entities = new
      BY <1>2 DEF Wrote
  <1>7. EntitiesOK(es, ms) /\ UpdateOK(p, es, ms)
      BY <1>2 DEF MentionsInv
  <1> HIDE DEF es, ms, k
  <1>8. /\ EntitiesOK(new, more) /\ Follows(new, more, es, ms)
        /\ AllCounted(es, ms) /\ UpdateExact(p, es) => AllCounted(new, more)
        /\ WriteLast(p) => new.index = es.index
    <2>1. CASE WriteLast(p)
      <3>1. new = DatedAt(es, l.rec, l.turn) /\ more = ms /\ l.rec \in DOMAIN es.records
          BY <1>1, <1>4, <1>7, <2>1
             DEF WriteLast, WriteCount, Insert, UpdateOK, Updating
      <3> QED BY <1>7, <3>1, Dating
    <2>2. CASE WriteCount(p)
      <3>1. /\ new = CountedAs(es, l.rec, l.read + 1) /\ more = Append(ms, k)
            /\ pc[p] = "add" /\ l.rec \in DOMAIN es.records
            /\ k = es.records[l.rec].key /\ l.read \in Nat /\ l.read <= Times(ms, k)
            /\ ~WriteLast(p)
          BY <1>1, <1>4, <1>7, <2>2
             DEF WriteLast, WriteCount, Insert, UpdateOK, Updating, k
      <3>2. UpdateExact(p, es) => l.rec = es.index[k] /\ l.read = es.records[l.rec].count
          BY <3>1 DEF UpdateExact, Updating, k
      <3>3. PICK i, n : i = l.rec /\ n = l.read
          OBVIOUS
      <3>4. /\ i \in DOMAIN es.records /\ k = es.records[i].key
            /\ n \in Nat /\ n <= Times(ms, k) /\ new = CountedAs(es, i, n + 1)
          BY <3>1, <3>3
      <3>5. /\ EntitiesOK(new, more) /\ Follows(new, more, es, ms)
            /\ AllCounted(es, ms) /\ i = es.index[k] /\ n = es.records[i].count
                   => AllCounted(new, more)
          BY <1>7, <3>1, <3>4, Counting, Zenon
      <3> QED BY <3>1, <3>2, <3>3, <3>5
    <2>3. CASE Insert(p)
      <3>1. /\ new = Inserted(es, k, l.turn) /\ more = Append(ms, k)
            /\ pc[p] = "insert" /\ ~WriteLast(p)
          BY <1>1, <1>4, <2>3 DEF WriteLast, WriteCount, Insert
      <3>2. UpdateExact(p, es) => k \notin DOMAIN es.index
          BY <3>1 DEF UpdateExact, k
      <3>3. PICK turn : turn = l.turn
          OBVIOUS
      <3>4. new = Inserted(es, k, turn)
          BY <3>1, <3>3
      <3>5. /\ EntitiesOK(new, more) /\ Follows(new, more, es, ms)
            /\ AllCounted(es, ms) /\ k \notin DOMAIN es.index => AllCounted(new, more)
          BY <1>7, <3>1, <3>4, Inserting, Zenon
      <3> QED BY <3>1, <3>2, <3>5, Zenon
    <2> QED BY <2>1, <2>2, <2>3 DEF RecordStep
  <1> QED BY <1>2, <1>5, <1>6, <1>8 DEF Wrote, Tame, es, ms

(* Every other step leaves the entities and the mentions of each object    *)
(* alone, or makes an object that has none.                                *)
Kept(o) == heap'[o].entities = heap[o].entities /\ mentions'[o] = mentions[o]
LEMMA MentionSteps ==
  ASSUME TypeInv, MentionsInv, [Next]_vars
  PROVE  /\ IsSeq(mentions') /\ Len(mentions') = Len(heap')
         /\ \A o \in DOMAIN heap :
                Kept(o) \/ \E p \in Threads : o = Obj(p) /\ RecordStep(p)
         /\ \A o \in DOMAIN heap' \ DOMAIN heap :
                heap'[o].entities = NoEntities /\ mentions'[o] = <<>>
  <1> DEFINE Result ==
         /\ IsSeq(mentions') /\ Len(mentions') = Len(heap')
         /\ \A o \in DOMAIN heap :
                Kept(o) \/ \E p \in Threads : o = Obj(p) /\ RecordStep(p)
         /\ \A o \in DOMAIN heap' \ DOMAIN heap :
                heap'[o].entities = NoEntities /\ mentions'[o] = <<>>
  <1>0. /\ HeapInv /\ IsSeq(mentions) /\ Len(mentions) = Len(heap)
        /\ DOMAIN mentions = DOMAIN heap /\ DOMAIN heap = 1 .. Len(heap)
        /\ Len(heap) \in Nat
      BY SeqDomain DEF TypeInv, MentionsInv, HeapInv
  <1>1. CASE heap' = heap /\ mentions' = mentions
      BY <1>0, <1>1 DEF Kept
  <1>2. ASSUME NEW p \in Threads, RecordStep(p)
        PROVE  Result
    <2>1. PICK o : o = Obj(p)
        OBVIOUS
    <2>2. /\ o \in DOMAIN heap /\ DOMAIN heap' = DOMAIN heap /\ HeapOK'
          /\ IsSeq(mentions') /\ Len(mentions') = Len(mentions)
          /\ \A j \in DOMAIN heap :
                 j # o => heap'[j] = heap[j] /\ mentions'[j] = mentions[j]
        BY <1>2, <2>1, RecordSteps
    <2>3. Len(heap') = Len(heap)
        BY <1>0, <2>2, SeqDomain DEF HeapOK
    <2> QED BY <1>0, <1>2, <2>1, <2>2, <2>3 DEF Kept
  <1>3. ASSUME NEW p \in Threads, WriteStep(p), ~RecordStep(p)
        PROVE  Result
    <2>1. PICK f, v : f \in StateFields \ {"sid", "expires"} /\ Writes(p, f, v)
        BY <1>3 DEF WriteStep, Writes, StateFields
    <2>2. /\ Tame(p) /\ Obj(p) \in DOMAIN heap /\ Wrote(Obj(p), f, v)
        BY <2>1, WriteSteps
    <2>3. f # "entities" /\ mentions' = mentions
        BY <1>3, <2>1 DEF RecordStep, Writes, StoreTurnCount, Stamp, WriteScore,
                          RememberPurpose, history
    <2>4. /\ DOMAIN heap' = DOMAIN heap
          /\ \A j \in DOMAIN heap : heap'[j].entities = heap[j].entities
        BY <2>2, <2>3 DEF Wrote, StateFields
    <2>5. Len(heap') = Len(heap)
        BY <1>0, <2>2, <2>4, SeqDomain DEF Tame, HeapOK
    <2> QED BY <1>0, <2>3, <2>4, <2>5 DEF Kept
  <1>4. ASSUME NEW p \in Threads, NewStep(p)
        PROVE  Result
    <2>1. /\ Tame(p) /\ DOMAIN heap' = DOMAIN heap \cup {Len(heap) + 1}
          /\ Len(heap) + 1 \notin DOMAIN heap
          /\ \A j \in DOMAIN heap : heap'[j] = heap[j]
          /\ heap'[Len(heap) + 1] =
                 IF TakeTurn(p) THEN NewState(Sid(p))
                 ELSE [NewState(Sid(p)) EXCEPT !.purpose = loc[p].purpose]
        BY <1>4, NewObjects DEF NewStep
    <2>2. heap'[Len(heap) + 1].entities = NoEntities
        BY <2>1 DEF NewState
    <2>3. PICK none : none = <<>> /\ mentions' = Append(mentions, none)
        BY <1>4 DEF NewStep, TakeTurn, RememberPurpose
    <2>4. /\ IsSeq(mentions') /\ Len(mentions') = Len(mentions) + 1
          /\ mentions'[Len(mentions) + 1] = none
          /\ \A j \in DOMAIN mentions : mentions'[j] = mentions[j]
      <3>1. PICK g : g = Append(mentions, none)
          OBVIOUS
      <3>2. /\ IsSeq(g) /\ Len(g) = Len(mentions) + 1
            /\ g[Len(mentions) + 1] = none
          BY <1>0, <3>1, SeqAppended, Zenon
      <3>3. \A j \in DOMAIN mentions : g[j] = mentions[j]
          BY <1>0, <3>1, SeqAppended
      <3> QED BY <2>3, <3>1, <3>2, <3>3
    <2>5. Len(heap') = Len(heap) + 1
      <3>1. DOMAIN heap' = 1 .. Len(heap') /\ Len(heap') \in Nat
          BY <2>1, SeqDomain, Zenon DEF Tame, HeapOK
      <3> QED BY <1>0, <2>1, <3>1
    <2> QED BY <1>0, <2>1, <2>2, <2>3, <2>4, <2>5 DEF Kept
  <1>5. ASSUME NEW p \in Threads, InnerStep(p) \/ StoreStep(p) \/ LastStep(p)
                                  \/ Input(p) \/ Output(p)
        PROVE  heap' = heap /\ mentions' = mentions
      BY <1>5, Zenon DEF InnerStep, StoreStep, LastStep, LoadNone, LoadLive,
             ExpireHook, ExpireHookFails, ReadTurnCount, Get, Miss, ReadCount,
             StartScan, Scan, Score, ReadRisk, PolicyPasses, TakeTurn, LoadExpired,
             SaveTurn, SavePurpose, ScanRaises, PolicyBlocks, Transform, Answer,
             Input, Output, Begin, history
  <1>6. ASSUME SweepPop \/ HookStep \/ Tick \/ UNCHANGED vars
        PROVE  heap' = heap /\ mentions' = mentions
      BY <1>6 DEF SweepPop, HookStep, SweepHook, SweepHookFails, Tick, vars, history
  <1> QED BY <1>1, <1>2, <1>3, <1>4, <1>5, <1>6, NextSteps DEF CallStep

(* A step changes a thread's step and locals only if it is the thread's.   *)
OwnStep(p) == CallStep(p) \/ Input(p) \/ Output(p)
LEMMA OwnSteps ==
  ASSUME TypeInv, [Next]_vars, NEW q \in Threads, ~OwnStep(q)
  PROVE  Untouched(q)
  <1>1. ASSUME NEW p \in Threads, OwnStep(p)
        PROVE  Untouched(q)
      BY <1>1, CallSteps, BeginSteps DEF OwnStep, Tame, OthersStay, Untouched
  <1>2. CASE SweepPop \/ HookStep \/ Tick \/ UNCHANGED vars
      BY <1>2 DEF SweepPop, HookStep, SweepHook, SweepHookFails, Tick, vars, history,
                  Untouched
  <1> QED BY <1>1, <1>2, NextSteps DEF OwnStep

(* The steps of a thread after which it updates a record, or is to insert. *)
LEMMA Registering ==
  ASSUME TypeInv, NEW p \in Threads, OwnStep(p)
  PROVE  /\ Updating(p)' => Get(p) \/ WriteLast(p) \/ ReadCount(p)
         /\ pc'[p] = "insert" => Miss(p)
  <1>1. DOMAIN pc = Threads
      BY DEF TypeInv, ThreadsInv
  <1>2. CASE Input(p) \/ Output(p)
      BY <1>1, <1>2, Zenon DEF Input, Output, Begin, Goto, Updating
  <1>3. CASE InnerStep(p)
    <2>1. CASE Get(p) \/ Miss(p) \/ ReadCount(p)
        BY <1>1, <2>1 DEF Get, Miss, ReadCount, Goto, Updating
    <2>2. CASE ~(Get(p) \/ Miss(p) \/ ReadCount(p))
      <3>1. \/ Goto(p, "loaded") \/ Goto(p, "count") \/ Goto(p, "scan")
            \/ Goto(p, "score") \/ Goto(p, "write") \/ Goto(p, "policy")
            \/ Goto(p, "load")
          BY <1>3, <2>2, Zenon
             DEF InnerStep, LoadNone, LoadLive, ExpireHook, ExpireHookFails,
                 ReadTurnCount, StartScan, Scan, Score, ReadRisk, PolicyPasses
      <3> QED BY <1>1, <3>1 DEF Goto, Updating
    <2> QED BY <2>1, <2>2
  <1>4. CASE WriteStep(p)
      BY <1>1, <1>4 DEF WriteStep, StoreTurnCount, Stamp, WriteCount, Insert,
             Mentioned, WriteLast, WriteScore, RememberPurpose, Goto, Updating
  <1>5. CASE NewStep(p) \/ StoreStep(p) \/ LastStep(p)
      BY <1>1, <1>5 DEF NewStep, StoreStep, LastStep, TakeTurn, RememberPurpose,
             LoadExpired, SaveTurn, SavePurpose, ScanRaises, PolicyBlocks, Transform,
             Answer, Finish, Goto, Updating
  <1> QED BY <1>2, <1>3, <1>4, <1>5 DEF OwnStep, CallStep

(* What such a step leaves in the thread.                                  *)
LEMMA UpdateSteps ==
  ASSUME TypeInv, NEW p \in Threads, Get(p) \/ WriteLast(p) \/ ReadCount(p) \/ Miss(p),
         NEW es, es = heap[Obj(p)].entities
  PROVE  /\ Obj(p)' = Obj(p) /\ Key(p)' = Key(p) /\ Obj(p) \in DOMAIN heap
         /\ Get(p) => /\ pc'[p] = "last" /\ heap' = heap /\ Key(p) \in DOMAIN es.index
                      /\ loc'[p].rec = es.index[Key(p)]
         /\ Miss(p) => /\ pc'[p] = "insert" /\ heap' = heap
                       /\ Key(p) \notin DOMAIN es.index
         /\ WriteLast(p) => pc'[p] = "read" /\ pc[p] = "last" /\ loc'[p] = loc[p]
         /\ ReadCount(p) => /\ pc'[p] = "add" /\ pc[p] = "read" /\ heap' = heap
                            /\ loc'[p].rec = loc[p].rec
                            /\ loc'[p].read = es.records[loc[p].rec].count
  <1>1. /\ LocalOK(pc[p], loc[p]) /\ DOMAIN pc = Threads /\ DOMAIN loc = Threads
        /\ DOMAIN loc[p] = LocFields
      BY DEF TypeInv, ThreadsInv, LocalOK
  <1>2. Obj(p) \in DOMAIN heap
      BY <1>1 DEF Get, WriteLast, ReadCount, Miss, LocalOK, Held, TurnPcs, Obj
  <1> QED BY <1>1, <1>2 DEF Get, WriteLast, ReadCount, Miss, Found, Goto, Key, Obj,
             LocFields

LEMMA NextMentions ==
  ASSUME TypeInv, MentionsInv, [Next]_vars
  PROVE  MentionsInv'
  <1>0. TypeInv' /\ HeapKept /\ DOMAIN heap \subseteq DOMAIN heap'
      BY NextTypes DEF HeapKept
  <1>1. /\ IsSeq(mentions') /\ Len(mentions') = Len(heap')
        /\ \A o \in DOMAIN heap :
               Kept(o) \/ \E p \in Threads : o = Obj(p) /\ RecordStep(p)
        /\ \A o \in DOMAIN heap' \ DOMAIN heap :
               heap'[o].entities = NoEntities /\ mentions'[o] = <<>>
      BY MentionSteps
  <1>2. ASSUME NEW o \in DOMAIN heap
        PROVE  /\ EntitiesOK(heap'[o].entities, mentions'[o])
               /\ Follows(heap'[o].entities, mentions'[o], heap[o].entities, mentions[o])
    <2>1. EntitiesOK(heap[o].entities, mentions[o])
        BY DEF MentionsInv
    <2>2. CASE Kept(o)
        BY <2>1, <2>2, FollowsItself DEF Kept, EntitiesOK
    <2>3. CASE \E p \in Threads : o = Obj(p) /\ RecordStep(p)
        BY <2>3, RecordSteps
    <2> QED BY <1>1, <2>2, <2>3
  <1>3. EntitiesOK(NoEntities, <<>>)
      BY EmptyIsSeq DEF EntitiesOK, NoEntities, Range
  <1>4. ASSUME NEW q \in Threads
        PROVE  UpdateOK(q, heap[Obj(q)].entities, mentions[Obj(q)])'
    <2> DEFINE o == Obj(q)  es == heap[o].entities  ms == mentions[o]
               new == heap'[o].entities  more == mentions'[o]
    <2>1. UpdateOK(q, es, ms)
        BY DEF MentionsInv
    <2>2. Updating(q) => o \in DOMAIN heap
        BY DEF TypeInv, ThreadsInv, LocalOK, Held, Updating, TurnPcs, Obj
    <2>3. CASE ~OwnStep(q)
      <3>1. pc'[q] = pc[q] /\ loc'[q] = loc[q]
          BY <2>3, OwnSteps DEF Untouched
      <3>2. Updating(q) => Follows(new, more, es, ms)
          BY <1>2, <2>2
      <3>3. o' = o /\ Key(q)' = Key(q)
          BY <3>1 DEF Obj, Key
      <3>4. PICK k, i, n : k = Key(q) /\ i = loc[q].rec /\ n = loc[q].read
          OBVIOUS
      <3>5. Updating(q) => i \in DOMAIN new.records /\ new.records[i].key = k
          BY <2>1, <3>2, <3>4 DEF UpdateOK, Follows
      <3>6. pc[q] = "add" => n \in Nat /\ n <= Times(more, k)
        <4>1. pc[q] = "add" => /\ n \in Nat /\ n <= Times(ms, k)
                               /\ Times(ms, k) \in Nat /\ Times(more, k) \in Nat
                               /\ Times(ms, k) <= Times(more, k)
            BY <2>1, <3>2, <3>4 DEF UpdateOK, Follows, Updating
        <4> QED BY <4>1
      <3> QED BY <3>1, <3>3, <3>4, <3>5, <3>6 DEF UpdateOK, Updating
    <2>4. CASE OwnStep(q) /\ ~(Get(q) \/ WriteLast(q) \/ ReadCount(q))
      <3>1. ~Updating(q)'
          BY <2>4, Registering
      <3> QED BY <3>1 DEF UpdateOK, Updating
    <2>5. CASE Get(q) \/ WriteLast(q) \/ ReadCount(q)
      <3>1. /\ o' = o /\ Key(q)' = Key(q) /\ o \in DOMAIN heap
            /\ Get(q) => /\ pc'[q] = "last" /\ heap' = heap /\ Key(q) \in DOMAIN es.index
                         /\ loc'[q].rec = es.index[Key(q)]
            /\ WriteLast(q) => pc'[q] = "read" /\ pc[q] = "last" /\ loc'[q] = loc[q]
            /\ ReadCount(q) => /\ pc'[q] = "add" /\ pc[q] = "read" /\ heap' = heap
                               /\ loc'[q].rec = loc[q].rec
                               /\ loc'[q].read = es.records[loc[q].rec].count
          BY <2>5, UpdateSteps
      <3>2. EntitiesOK(es, ms) /\ Follows(new, more, es, ms)
          BY <1>2, <3>1 DEF MentionsInv
      <3>3. CASE Get(q)
          BY <3>1, <3>2, <3>3 DEF UpdateOK, Updating, EntitiesOK
      <3>4. CASE WriteLast(q)
        <4>1. loc[q].rec \in DOMAIN es.records /\ es.records[loc[q].rec].key = Key(q)
            BY <2>1, <3>1, <3>4 DEF UpdateOK, Updating
        <4>2. loc[q].rec \in DOMAIN new.records /\ new.records[loc[q].rec].key = Key(q)
            BY <3>2, <4>1 DEF Follows
        <4> QED BY <3>1, <3>4, <4>2 DEF UpdateOK, Updating
      <3>5. CASE ReadCount(q)
        <4>1. loc[q].rec \in DOMAIN es.records /\ es.records[loc[q].rec].key = Key(q)
            BY <2>1, <3>1, <3>5 DEF UpdateOK, Updating
        <4>2. RecordOK(es.records[loc[q].rec], ms)
            BY <3>2, <4>1 DEF EntitiesOK
        <4>3. more = ms
            BY <3>5 DEF ReadCount, history
        <4> QED BY <3>1, <3>5, <4>1, <4>2, <4>3 DEF UpdateOK, Updating, RecordOK
      <3> QED BY <2>5, <3>3, <3>4, <3>5
    <2> QED BY <2>3, <2>4, <2>5
  <1>5. \A o \in DOMAIN heap' : EntitiesOK(heap'[o].entities, mentions'[o])
      BY <1>1, <1>2, <1>3
  <1> QED BY <1>1, <1>4, <1>5 DEF MentionsInv

LEMMA NextExact ==
  ASSUME TypeInv, InputsInv, MentionsInv, ExactInv, [Next]_vars
  PROVE  ExactInv'
  <1>0. setting' = setting
      BY NextTypes
  <1> SUFFICES ASSUME setting.calls # "any"
               PROVE  /\ \A o \in DOMAIN heap' :
                             AllCounted(heap'[o].entities, mentions'[o])
                      /\ \A q \in Threads : UpdateExact(q, heap[Obj(q)].entities)'
      BY <1>0 DEF ExactInv
  <1>1. /\ OneInput
        /\ \A o \in DOMAIN heap : AllCounted(heap[o].entities, mentions[o])
        /\ \A q \in Threads : UpdateExact(q, heap[Obj(q)].entities)
      BY DEF ExactInv, InputsInv
  <1>2. ASSUME NEW o \in DOMAIN heap'
        PROVE  AllCounted(heap'[o].entities, mentions'[o])
    <2>1. CASE o \in DOMAIN heap /\ Kept(o)
        BY <1>1, <2>1 DEF Kept
    <2>2. CASE o \in DOMAIN heap /\ \E p \in Threads : o = Obj(p) /\ RecordStep(p)
        BY <1>1, <2>2, RecordSteps
    <2>3. CASE o \notin DOMAIN heap
      <3>1. heap'[o].entities = NoEntities
          BY <1>2, <2>3, MentionSteps
      <3> QED BY <3>1 DEF AllCounted, NoEntities
    <2> QED BY <2>1, <2>2, <2>3, MentionSteps
  <1>3. ASSUME NEW q \in Threads
        PROVE  UpdateExact(q, heap[Obj(q)].entities)'
    <2> DEFINE o == Obj(q)  es == heap[o].entities
    <2>1. UpdateExact(q, es)
        BY <1>1
    <2>2. CASE ~OwnStep(q)
      <3>1. Untouched(q)
          BY <2>2, OwnSteps
      <3>2. Updating(q) \/ pc[q] = "insert" =>
                o \in DOMAIN heap /\ heap[o].sid = Sid(q) /\ Turning(q)
          BY DEF TypeInv, ThreadsInv, LocalOK, Held, Updating, TurnPcs, Obj, Sid,
                 Turning
      <3>3. ASSUME Updating(q) \/ pc[q] = "insert"
            PROVE  heap'[o] = heap[o]
        <4>1. ASSUME NEW p \in Threads, CallStep(p), heap'[o] # heap[o]
              PROVE  FALSE
          <5>1. Turning(p) /\ heap[o].sid = Sid(p)
              BY <3>2, <3>3, <4>1, OwnObjects
          <5>2. p = q
              BY <1>1, <3>2, <3>3, <5>1 DEF OneInput
          <5> QED BY <2>2, <4>1, <5>2 DEF OwnStep
        <4>2. ASSUME NEW p \in Threads, Input(p) \/ Output(p)
              PROVE  heap' = heap
            BY <4>2, BeginSteps
        <4>3. SweepPop \/ HookStep \/ Tick \/ UNCHANGED vars => heap' = heap
            BY DEF SweepPop, HookStep, SweepHook, SweepHookFails, Tick, vars
        <4> QED BY <4>1, <4>2, <4>3, NextSteps
      <3> QED BY <2>1, <3>1, <3>3 DEF UpdateExact, Untouched, Updating, Obj, Key
    <2>3. CASE OwnStep(q) /\ ~(Get(q) \/ WriteLast(q) \/ ReadCount(q) \/ Miss(q))
      <3>1. ~Updating(q)' /\ pc'[q] # "insert"
          BY <2>3, Registering
      <3> QED BY <3>1 DEF UpdateExact, Updating
    <2>4. CASE Get(q) \/ WriteLast(q) \/ ReadCount(q) \/ Miss(q)
      <3>1. /\ o' = o /\ Key(q)' = Key(q) /\ o \in DOMAIN heap
            /\ Get(q) => /\ pc'[q] = "last" /\ heap' = heap /\ Key(q) \in DOMAIN es.index
                         /\ loc'[q].rec = es.index[Key(q)]
            /\ Miss(q) => /\ pc'[q] = "insert" /\ heap' = heap
                          /\ Key(q) \notin DOMAIN es.index
            /\ WriteLast(q) => pc'[q] = "read" /\ pc[q] = "last" /\ loc'[q] = loc[q]
            /\ ReadCount(q) => /\ pc'[q] = "add" /\ pc[q] = "read" /\ heap' = heap
                               /\ loc'[q].rec = loc[q].rec
                               /\ loc'[q].read = es.records[loc[q].rec].count
          BY <2>4, UpdateSteps
      <3>2. CASE Get(q)
          BY <3>1, <3>2 DEF UpdateExact, Updating
      <3>3. CASE Miss(q)
          BY <3>1, <3>3 DEF UpdateExact, Updating
      <3>4. CASE ReadCount(q)
          BY <2>1, <3>1, <3>4 DEF UpdateExact, Updating
      <3>5. CASE WriteLast(q)
        <4>1. heap'[o].entities.index = es.index
            BY <3>5, RecordSteps DEF RecordStep
        <4>2. Key(q) \in DOMAIN es.index /\ loc[q].rec = es.index[Key(q)]
            BY <2>1, <3>1, <3>5 DEF UpdateExact, Updating
        <4> QED BY <3>1, <3>5, <4>1, <4>2 DEF UpdateExact, Updating
      <3> QED BY <2>4, <3>2, <3>3, <3>4, <3>5
    <2> QED BY <2>2, <2>3, <2>4
  <1> QED BY <1>2, <1>3

(* Whatever calls overlap, an entity of a turn is kept and not counted     *)
(* more often than it was mentioned; while no two input calls of a session *)
(* overlap, every mention is counted.                                      *)
THEOREM NoEntityIsLost == Spec => []EntitiesKept
  <1> DEFINE Inv == TypeInv /\ InputsInv /\ MentionsInv /\ ExactInv
  <1>1. Init => Inv
    <2> SUFFICES ASSUME Init PROVE MentionsInv /\ ExactInv
        BY InitTypes, InitInputs
    <2>1. /\ heap = <<>> /\ mentions = <<>> /\ DOMAIN heap = {}
          /\ \A p \in Threads : pc[p] = "idle"
        BY EmptyIsSeq DEF Init
    <2> QED BY <2>1, EmptyIsSeq
            DEF MentionsInv, ExactInv, UpdateOK, UpdateExact, Updating
  <1>2. Inv /\ [Next]_vars => Inv'
      BY NextTypes, NextInputs, NextMentions, NextExact
  <1>3. Inv => EntitiesKept
    <2> SUFFICES ASSUME Inv, NEW o \in DOMAIN heap
                 PROVE  /\ DOMAIN Entities(o) = Range(mentions[o])
                        /\ \A k \in DOMAIN Entities(o) :
                               /\ Entities(o)[k].count <= TimesMentioned(o, k)
                               /\ setting.calls # "any" =>
                                      Entities(o)[k].count = TimesMentioned(o, k)
        BY DEF EntitiesKept
    <2> DEFINE es == heap[o].entities  ms == mentions[o]
    <2>1. EntitiesOK(es, ms) /\ (setting.calls # "any" => AllCounted(es, ms))
        BY DEF MentionsInv, ExactInv
    <2>2. /\ DOMAIN Entities(o) = DOMAIN es.index
          /\ \A k \in DOMAIN es.index : Entities(o)[k] = es.records[es.index[k]]
        BY DEF Entities
    <2>3. \A k : TimesMentioned(o, k) = Times(ms, k)
        BY DEF TimesMentioned, Times, Places
    <2> HIDE DEF es, ms
    <2>4. DOMAIN Entities(o) = Range(ms)
        BY <2>1, <2>2 DEF EntitiesOK
    <2>5. ASSUME NEW k \in DOMAIN Entities(o)
          PROVE  /\ Entities(o)[k].count <= Times(ms, k)
                 /\ setting.calls # "any" => Entities(o)[k].count = Times(ms, k)
      <3>1. /\ es.index[k] \in DOMAIN es.records /\ es.records[es.index[k]].key = k
            /\ k \in DOMAIN es.index
          BY <2>1, <2>2, <2>5 DEF EntitiesOK
      <3>2. RecordOK(es.records[es.index[k]], ms)
          BY <2>1, <3>1 DEF EntitiesOK
      <3> QED BY <2>1, <2>2, <3>1, <3>2 DEF RecordOK, AllCounted
    <2> QED BY <2>3, <2>4, <2>5 DEF ms
  <1> QED BY <1>1, <1>2, <1>3, PTL DEF Spec

-----------------------------------------------------------------------------
(* Tokens of sessions all of whose calls come one after the other.         *)
LEMMA OneCallKept ==
  ASSUME TypeInv, setting.calls = "call", OneCall, [Next]_vars
  PROVE  OneCall'
  <1>0. /\ \A p \in Threads : LocalOK(pc[p], loc[p])
        /\ DOMAIN loc = Threads
      BY DEF TypeInv, ThreadsInv
  <1>1. ASSUME NEW p \in Threads, CallStep(p)
        PROVE  OneCall'
      BY <1>1, CallSteps, CallKept DEF OneCall, Tame, OthersStay, Sid
  <1>2. ASSUME NEW p \in Threads, Input(p) \/ Output(p)
        PROVE  OneCall'
    <2>1. PICK s, stage, spans, what :
              s \in Sids /\ stage \in {"turn", "answer"} /\ Begin(p, s, stage, spans, what)
        BY <1>2 DEF Input, Output
    <2>2. \A q \in Threads : loc[q].stage # "none" => Sid(q) # s
        BY <1>0, <2>1 DEF Begin, Admitted, Busy, LocalOK, Stages
    <2>3. loc'[p].sid = s /\ OthersStay(p)
        BY <1>0, <1>2, <2>1, BeginSteps DEF Begin, Idle
    <2> QED BY <2>2, <2>3 DEF OneCall, OthersStay, Sid
  <1>3. CASE SweepPop \/ HookStep \/ Tick \/ UNCHANGED vars
    <2>1. loc' = loc
        BY <1>3 DEF SweepPop, HookStep, SweepHook, SweepHookFails, Tick, vars, history
    <2> QED BY <2>1 DEF OneCall, Sid
  <1> QED BY <1>1, <1>2, <1>3, NextSteps

(* A thread changes the state of its own session only.                     *)
LEMMA OwnState ==
  ASSUME TypeInv, NEW p \in Threads, CallStep(p), NEW s \in Sids, s # Sid(p)
  PROVE  states'[s] = states[s]
  <1>1. Tame(p) /\ LocalOK(pc[p], loc[p]) /\ DOMAIN states = Sids
      BY CallSteps DEF TypeInv, ThreadsInv, HeapInv
  <1>2. pc[p] = "save" => heap[Obj(p)].sid = Sid(p)
      BY <1>1, Zenon DEF LocalOK, Held, Sid, Obj
  <1> QED BY <1>1, <1>2 DEF Tame, Stored

(* What a thread's step does to the state and the tokens of its session.   *)
ExpireStep(p) == ExpireHook(p) \/ ExpireHookFails(p)
PlainStep(p) ==
    /\ UNCHANGED <<states, tokens, missed>>
    /\ pc[p] # "expire" /\ pc'[p] \notin {"expire", "transform"}
LEMMA TokenSteps ==
  ASSUME NEW p \in Threads, CallStep(p), DOMAIN pc = Threads
  PROVE  \/ PlainStep(p) \/ LoadExpired(p) \/ ExpireStep(p)
         \/ SaveTurn(p) \/ SavePurpose(p) \/ Transform(p)
  BY DEF CallStep, InnerStep, WriteStep, NewStep, StoreStep, LastStep, LoadNone,
         LoadLive, ReadTurnCount, Get, Miss, ReadCount, StartScan, Scan, Score,
         ReadRisk, PolicyPasses, StoreTurnCount, Stamp, WriteLast, WriteCount, Insert,
         Mentioned, WriteScore, RememberPurpose, TakeTurn, ScanRaises, PolicyBlocks,
         Answer, PlainStep, ExpireStep, Finish, Goto, history

ThreadOK(q) ==
    /\ pc[q] = "expire" => states[Sid(q)] = None
    /\ pc[q] = "transform" => states[Sid(q)] = Obj(q)

LEMMA NextTokens ==
  ASSUME TypeInv, InputsInv, TokensInv, [Next]_vars
  PROVE  TokensInv'
  <1>0. /\ TypeInv' /\ setting' = setting /\ HeapKept /\ now <= now'
        /\ HeapInv /\ ThreadsInv
      BY NextTypes DEF TypeInv
  <1>1. ~setting.sweeping => swept' = {}
    <2>1. ~setting.sweeping => swept = {}
        BY DEF TokensInv
    <2>2. ~setting.sweeping => ~SweepPop /\ ~HookStep
        BY <2>1, Zenon DEF SweepPop, HookStep
    <2>3. ASSUME NEW p \in Threads, Input(p) \/ Output(p) \/ CallStep(p)
          PROVE  swept' = swept
        BY <2>3 DEF Input, Output, Begin, CallStep, InnerStep, WriteStep, NewStep,
               StoreStep, LastStep, LoadNone, LoadLive, ExpireHook, ExpireHookFails,
               ReadTurnCount, Get, Miss, ReadCount, StartScan, Scan, Score, ReadRisk,
               PolicyPasses, StoreTurnCount, Stamp, WriteLast, WriteCount, Insert,
               Mentioned, WriteScore, RememberPurpose, TakeTurn, LoadExpired,
               SaveTurn, SavePurpose, ScanRaises, PolicyBlocks, Transform, Answer
    <2>4. Tick \/ UNCHANGED vars => swept' = swept
        BY DEF Tick, vars
    <2> QED BY <2>1, <2>2, <2>3, <2>4, NextSteps
  <1>2. setting.calls = "call" => OneCall'
      BY OneCallKept DEF TokensInv
  <1> SUFFICES ASSUME OneAtATime
               PROVE  /\ \A q \in Threads : ThreadOK(q)'
                      /\ \A t \in tokens' : TokenOK(t)'
      BY <1>0, <1>1, <1>2 DEF TokensInv, OneAtATime, ThreadOK
  <1>3. /\ OneCall /\ \A q \in Threads : ThreadOK(q)
        /\ \A t \in tokens : TokenOK(t)
        /\ swept = {} /\ ~setting.sweeping
        /\ \A q \in Threads : Turning(q) => StoreOK(q)
      BY DEF TokensInv, OneAtATime, ThreadOK, InputsInv, TurnOK
  <1>4. \A o \in DOMAIN heap : Expired(o) => now' >= heap'[o].expires
      BY <1>0, StaysExpired
  <1>5. DOMAIN heap \subseteq DOMAIN heap'
      BY <1>0 DEF HeapKept
  <1>6. ASSUME UNCHANGED <<states, tokens, missed>>,
               \A q \in Threads : pc[q] = "expire" => Untouched(q),
               \A q \in Threads : Untouched(q) \/ pc'[q] \notin {"expire", "transform"}
        PROVE  (\A q \in Threads : ThreadOK(q)') /\ \A t \in tokens' : TokenOK(t)'
    <2>1. \A q \in Threads : ThreadOK(q)'
        BY <1>3, <1>6 DEF ThreadOK, Untouched, Sid, Obj
    <2>2. ASSUME NEW t \in tokens
          PROVE  TokenOK(t)'
      <3>1. TokenOK(t)
          BY <1>3
      <3>2. t.sid \in Sids /\ t.obj \in DOMAIN heap'
          BY <1>5, <3>1 DEF TokenOK
      <3>3. ~(now' >= heap'[t.obj].expires) => states'[t.sid] = t.obj
          BY <1>4, <1>6, <3>1 DEF TokenOK
      <3>4. \/ t.obj \in missed' \/ states'[t.sid] = t.obj
            \/ \E q \in Threads : pc'[q] = "expire" /\ loc'[q].sid = t.sid
                                  /\ loc'[q].expiring = t.obj
          BY <1>6, <3>1 DEF TokenOK, Untouched, Sid
      <3> QED BY <3>2, <3>3, <3>4 DEF TokenOK, Expired, Sid
    <2> QED BY <1>6, <2>1, <2>2
  <1>7. CASE SweepPop \/ HookStep \/ Tick \/ UNCHANGED vars
    <2>1. UNCHANGED <<states, tokens, missed, pc, loc>>
        BY <1>3, <1>7 DEF SweepPop, HookStep, Tick, vars, history
    <2> QED BY <1>6, <2>1 DEF Untouched
  <1>8. ASSUME NEW p \in Threads, Input(p) \/ Output(p)
        PROVE  (\A q \in Threads : ThreadOK(q)') /\ \A t \in tokens' : TokenOK(t)'
    <2>1. /\ UNCHANGED <<states, tokens, missed>> /\ pc[p] = "idle" /\ pc'[p] = "load"
        BY <1>0, <1>8 DEF Input, Output, Begin, Goto, history, ThreadsInv
    <2>2. OthersStay(p)
        BY <1>8, BeginSteps
    <2> QED BY <1>6, <2>1, <2>2 DEF OthersStay, Untouched
  <1>9. ASSUME NEW p \in Threads, CallStep(p)
        PROVE  (\A q \in Threads : ThreadOK(q)') /\ \A t \in tokens' : TokenOK(t)'
    <2> DEFINE s == Sid(p)  o == Obj(p)
    <2>0. /\ OthersStay(p) /\ LocalOK(pc[p], loc[p]) /\ pc[p] # "idle" /\ s \in Sids
          /\ DOMAIN pc = Threads /\ DOMAIN loc = Threads /\ DOMAIN states = Sids
        BY <1>0, <1>9, CallSteps DEF Tame, ThreadsInv, LocalOK, Sid, HeapInv
    <2>1. \A r \in Sids : r # s => states'[r] = states[r]
        BY <1>9, OwnState
    <2>2. \A q \in Threads : q # p /\ pc[q] # "idle" => Sid(q) \in Sids /\ Sid(q) # s
        BY <1>0, <1>3, <2>0 DEF OneCall, ThreadsInv, LocalOK, Sid
    <2>3. ASSUME NEW q \in Threads, q # p
          PROVE  ThreadOK(q)'
      <3>1. pc'[q] = pc[q] /\ loc'[q] = loc[q] /\ ThreadOK(q)
          BY <1>3, <2>0, <2>3 DEF OthersStay
      <3> QED BY <2>1, <2>2, <2>3, <3>1 DEF ThreadOK, Sid, Obj
    <2>4. ASSUME NEW t \in tokens, t.sid # s, missed \subseteq missed'
          PROVE  TokenOK(t)'
      <3>1. TokenOK(t)
          BY <1>3
      <3>2. t.sid \in Sids /\ t.obj \in DOMAIN heap' /\ states'[t.sid] = states[t.sid]
          BY <1>5, <2>1, <2>4, <3>1 DEF TokenOK
      <3>3. ~(now' >= heap'[t.obj].expires) => states'[t.sid] = t.obj
          BY <1>4, <3>1, <3>2 DEF TokenOK
      <3>4. \/ t.obj \in missed' \/ states'[t.sid] = t.obj
            \/ \E q \in Threads : pc'[q] = "expire" /\ loc'[q].sid = t.sid
                                  /\ loc'[q].expiring = t.obj
          BY <2>0, <2>4, <3>1, <3>2 DEF TokenOK, OthersStay, Sid
      <3> QED BY <3>2, <3>3, <3>4 DEF TokenOK, Expired, Sid
    <2>5. ASSUME NEW t \in tokens, t.sid = s, pc[p] # "expire"
          PROVE  /\ t.obj \in DOMAIN heap'
                 /\ ~(now' >= heap'[t.obj].expires) => states[s] = t.obj /\ ~Expired(t.obj)
                 /\ t.obj \in missed \/ states[s] = t.obj
      <3>1. TokenOK(t)
          BY <1>3
      <3>2. ~ \E q \in Threads : pc[q] = "expire" /\ Sid(q) = t.sid
          BY <2>2, <2>5
      <3> QED BY <1>4, <1>5, <2>5, <3>1, <3>2 DEF TokenOK
    <2>6. CASE PlainStep(p)
        BY <1>6, <2>0, <2>6 DEF PlainStep, OthersStay, Untouched
    <2>7. CASE LoadExpired(p)
      <3>1. /\ pc[p] = "load" /\ pc'[p] = "expire" /\ states'[s] = None
            /\ Expired(states[s]) /\ loc'[p].sid = s /\ loc'[p].expiring = states[s]
            /\ UNCHANGED <<tokens, missed>>
          BY <2>0, <2>7 DEF LoadExpired, Goto, LocalOK, LocFields, Sid
      <3>2. ThreadOK(p)'
          BY <3>1 DEF ThreadOK, Sid
      <3>3. ASSUME NEW t \in tokens, t.sid = s
            PROVE  TokenOK(t)'
          BY <2>0, <2>5, <3>1, <3>3 DEF TokenOK, Expired, Sid
      <3> QED BY <2>3, <2>4, <3>1, <3>2, <3>3
    <2>8. CASE ExpireStep(p)
      <3>1. /\ pc[p] = "expire" /\ pc'[p] = "loaded" /\ states' = states
            /\ \/ tokens' = {t \in tokens : t.sid # s} /\ missed' = missed
               \/ tokens' = tokens /\ missed' = missed \cup {loc[p].expiring}
          BY <2>0, <2>8
             DEF ExpireStep, ExpireHook, ExpireHookFails, RevokeTokens, Goto, history
      <3>2. ThreadOK(p)'
          BY <3>1 DEF ThreadOK
      <3>3. ASSUME NEW t \in tokens, t.sid = s, missed' = missed \cup {loc[p].expiring}
            PROVE  TokenOK(t)'
        <4>1. TokenOK(t) /\ states[s] = None
            BY <1>3, <3>1 DEF ThreadOK
        <4>2. t.obj \in DOMAIN heap /\ t.obj # None
            BY <1>0, <4>1, ObjectsAreNumbers DEF TokenOK
        <4>3. t.obj \in missed'
            BY <2>2, <3>3, <4>1, <4>2 DEF TokenOK
        <4>4. now' >= heap'[t.obj].expires
            BY <1>4, <3>3, <4>1, <4>2 DEF TokenOK
        <4> QED BY <1>5, <2>0, <3>3, <4>2, <4>3, <4>4 DEF TokenOK, Expired
      <3> QED BY <2>3, <2>4, <3>1, <3>2, <3>3
    <2>9. CASE SaveTurn(p) \/ SavePurpose(p)
      <3>1. /\ pc[p] = "save" /\ UNCHANGED <<loc, tokens, missed>>
            /\ pc'[p] \in {"risk", "transform"}
            /\ states' = [states EXCEPT ![heap[Obj(p)].sid] = Obj(p)]
          BY <2>0, <2>9 DEF SaveTurn, SavePurpose, Goto, history
      <3>2. o \in DOMAIN heap /\ heap[o].sid = s /\ Turning(p)
          BY <2>0, <3>1 DEF LocalOK, Held, Sid, Obj, Turning
      <3>3. states'[s] = o
          BY <2>0, <3>1, <3>2
      <3>4. states[s] \in {None, o}
          BY <1>3, <3>1, <3>2 DEF StoreOK, Holding
      <3>5. ThreadOK(p)'
          BY <3>1, <3>3 DEF ThreadOK, Sid, Obj
      <3>6. ASSUME NEW t \in tokens, t.sid = s
            PROVE  TokenOK(t)'
        <4>1. t.obj # None
            BY <1>0, <1>3, ObjectsAreNumbers DEF TokenOK
        <4> QED BY <2>0, <2>5, <3>1, <3>3, <3>4, <3>6, <4>1 DEF TokenOK, Expired
      <3> QED BY <2>3, <2>4, <3>1, <3>5, <3>6
    <2>10. CASE Transform(p)
      <3>1. PICK new : new = Token(p)
          OBVIOUS
      <3>2. /\ pc[p] = "transform" /\ pc'[p] = "idle" /\ UNCHANGED <<states, missed>>
            /\ tokens' \subseteq tokens \cup {new}
          BY <2>0, <2>10, <3>1 DEF Transform, Finish, Goto, history
      <3>3. ThreadOK(p)'
          BY <3>2 DEF ThreadOK
      <3>4. ASSUME NEW t \in tokens, t.sid = s
            PROVE  TokenOK(t)'
          BY <2>0, <2>5, <3>2, <3>4 DEF TokenOK, Expired
      <3>5. TokenOK(new)'
        <4>1. new.sid = s /\ new.obj = o
            BY <3>1 DEF Token
        <4>2. o \in DOMAIN heap' /\ states'[s] = o
            BY <1>3, <1>5, <2>0, <3>2 DEF LocalOK, Held, Obj, ThreadOK
        <4>3. new.sid \in Sids /\ new.obj \in DOMAIN heap' /\ states'[new.sid] = new.obj
            BY <2>0, <4>1, <4>2
        <4> QED BY <4>3, Zenon DEF TokenOK
      <3> QED BY <2>3, <2>4, <3>2, <3>3, <3>4, <3>5
    <2> QED BY <1>9, <2>0, <2>6, <2>7, <2>8, <2>9, <2>10, TokenSteps
  <1> QED BY <1>7, <1>8, <1>9, NextSteps

LEMMA InitTokens == Init => TokensInv
  <1> SUFFICES ASSUME Init PROVE TokensInv
      OBVIOUS
  <1>1. \A p \in Threads : pc[p] = "idle" /\ loc[p].stage = "none"
      BY IdleFields DEF Init
  <1>2. swept = {} /\ tokens = {}
      BY DEF Init
  <1> QED BY <1>1, <1>2 DEF TokensInv, OneCall

LEMMA Invariants == Spec => [](TypeInv /\ InputsInv /\ TokensInv)
  <1>1. TypeInv /\ InputsInv /\ TokensInv /\ [Next]_vars =>
            (TypeInv /\ InputsInv /\ TokensInv)'
      BY NextTypes, NextInputs, NextTokens
  <1> QED BY <1>1, InitTypes, InitInputs, InitTokens, PTL DEF Spec

(* An expiry revokes the tokens of what has expired, never those of the    *)
(* session that follows...                                                 *)
THEOREM ExpiryRevokesNoLiveToken == Spec => OnlyExpiredRevoked
  <1>1. ASSUME TypeInv, TokensInv, [Next]_vars, OneAtATime
        PROVE  \A t \in tokens \ tokens' : Expired(t.obj)
    <2>1. /\ swept = {} /\ ~setting.sweeping
          /\ \A t \in tokens : TokenOK(t)
          /\ \A p \in Threads : pc[p] = "expire" => states[Sid(p)] = None
        BY <1>1 DEF TokensInv, OneAtATime
    <2>2. ASSUME NEW p \in Threads, ExpireHook(p), NEW t \in tokens \ tokens'
          PROVE  Expired(t.obj)
      <3>1. TokenOK(t) /\ t.sid = Sid(p) /\ states[Sid(p)] = None
          BY <2>1, <2>2 DEF ExpireHook, RevokeTokens
      <3>2. t.obj # None
          BY <1>1, <3>1, ObjectsAreNumbers DEF TokenOK, TypeInv
      <3> QED BY <3>1, <3>2 DEF TokenOK
    <2>3. ASSUME NEW p \in Threads, Input(p) \/ Output(p) \/ CallStep(p), ~ExpireHook(p)
          PROVE  tokens \subseteq tokens'
      <3>1. CallStep(p) => tokens \subseteq tokens'
        <4>1. DOMAIN pc = Threads
            BY <1>1 DEF TypeInv, ThreadsInv
        <4> QED BY <2>3, <4>1, TokenSteps
                DEF PlainStep, LoadExpired, ExpireStep, ExpireHookFails, SaveTurn,
                    SavePurpose, Transform
      <3> QED BY <2>3, <3>1 DEF Input, Output, Begin
    <2>4. SweepPop \/ HookStep \/ Tick \/ UNCHANGED vars => tokens' = tokens
        BY <2>1 DEF SweepPop, HookStep, Tick, vars
    <2> QED BY <1>1, <2>2, <2>3, <2>4, NextSteps
  <1>2. TypeInv /\ TokensInv /\ [Next]_vars
            => (OneAtATime => \A t \in tokens \ tokens' : Expired(t.obj))
      BY <1>1
  <1> QED BY <1>2, Invariants, PTL DEF Spec, OnlyExpiredRevoked

(* ...and leaves none of them behind, unless its hook fails.               *)
THEOREM ExpiryRevokesItsTokens == Spec => []ExpiredTokensRevoked
  <1>1. TypeInv /\ TokensInv => ExpiredTokensRevoked
    <2> SUFFICES ASSUME TypeInv, TokensInv, NEW t \in tokens, OneAtATime,
                        states[t.sid] \notin {None, t.obj}
                 PROVE  t.obj \in missed
        BY DEF ExpiredTokensRevoked
    <2>1. TokenOK(t)
        BY DEF TokensInv
    <2>2. \A p \in Threads : pc[p] = "expire" => states[Sid(p)] = None
        BY DEF TokensInv
    <2> QED BY <2>1, <2>2 DEF TokenOK
  <1> QED BY <1>1, Invariants, PTL

=============================================================================
