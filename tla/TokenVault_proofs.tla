------------------------- MODULE TokenVault_proofs -------------------------
(***************************************************************************)
(* Proofs about TokenVault, for every value of its constants: type         *)
(* correctness, the inductive invariant VaultInv, from it that labels      *)
(* stay unambiguous and denote one value, that what is restored is what    *)
(* was tokenized, that every restoration is in the access log, that a      *)
(* revoked label stays dead, and that the vault implements the registry of *)
(* LabelRegistry.tla.                                                      *)
(***************************************************************************)
EXTENDS TokenVault, FiniteSetTheorems, SequenceTheorems, TLAPS

LEMMA InitTyped == Init => TypeOK
  <1> SUFFICES ASSUME Init PROVE TypeOK
      OBVIOUS
  <1>1. TableTypeOK
      BY DEF Init, TableTypeOK
  <1>2. ThreadTypeOK
      BY DEF Init, ThreadTypeOK, Tokenizing, Restoring
  <1>3. HistoryTypeOK
      BY DEF Init, HistoryTypeOK
  <1> QED BY <1>1, <1>2, <1>3 DEF TypeOK

(* The end of a call leaves the thread idle and its locks released.        *)
LEMMA FinishTyped ==
  ASSUME TypeOK, NEW p \in Procs, Finish(p)
  PROVE  ThreadTypeOK'
  <1>1. lock' \in [LockKeys -> Procs \cup {None}]
      BY DEF TypeOK, ThreadTypeOK, Finish
  <1>2. /\ pc' \in [Procs -> Tokenizing \cup Restoring \cup {"idle"}]
        /\ arg' \in [Procs -> TokenizeArgs \cup DetokenizeArgs \cup {None}]
        /\ start' \in [Procs -> Nat]
        /\ cnt' \in [Procs -> Nat]
        /\ found' \in [Procs -> FoundRow \cup {None}]
      BY DEF TypeOK, ThreadTypeOK, Finish
  <1>3. \A q \in Procs : /\ pc'[q] \in Tokenizing => arg'[q] \in TokenizeArgs
                         /\ pc'[q] \in Restoring => arg'[q] \in DetokenizeArgs
      BY DEF TypeOK, ThreadTypeOK, Finish, Tokenizing, Restoring
  <1> QED BY <1>1, <1>2, <1>3 DEF ThreadTypeOK

(* The row a thread is about to insert has the types of the columns.       *)
LEMMA NewRowTyped ==
  ASSUME TypeOK, NEW p \in Procs, pc[p] = "insert"
  PROVE  /\ arg[p] \in TokenizeArgs
         /\ NewRow(p) \in Row
  <1>1. arg[p] \in TokenizeArgs
      BY DEF TypeOK, ThreadTypeOK, Tokenizing
  <1>2. /\ cnt[p] + 1 \in Nat \ {0}
        /\ start[p] + Ttl \in Nat
      BY BoundsAssumption DEF TypeOK, ThreadTypeOK
  <1>3. Uuid[arg[p].raw] \in Uuids
      BY <1>1, UuidAssumption DEF TokenizeArgs
  <1>4. NewRow(p) \in Row
      BY <1>1, <1>2, <1>3 DEF NewRow, Row, TokenizeArgs, Hash
  <1> QED BY <1>1, <1>4

LEMMA InsertTyped ==
  ASSUME TypeOK, NEW p \in Procs, pc[p] = "insert",
         rows' = WithRow(nextId, NewRow(p)), nextId' = nextId + 1, now' = now
  PROVE  TableTypeOK'
  <1>1. NewRow(p) \in Row
      BY NewRowTyped
  <1>2. DOMAIN rows' = DOMAIN rows \cup {nextId}
      BY DEF WithRow
  <1>3. rows' \in [DOMAIN rows' -> Row]
      BY <1>1, <1>2 DEF WithRow, TypeOK, TableTypeOK
  <1>4. nextId' \in Nat \ {0} /\ DOMAIN rows' \subseteq 1 .. nextId' - 1
      BY <1>2 DEF TypeOK, TableTypeOK
  <1> QED BY <1>3, <1>4 DEF TypeOK, TableTypeOK

(* A label read from the table, with the caller's value, is well typed.    *)
LEMMA IssueTyped ==
  ASSUME TypeOK, NEW i \in DOMAIN rows, NEW v \in Values
  PROVE  Issue(i, v) \in [session : Uuids, etype : Types, n : Nat \ {0},
                          value : Values]
  BY DEF TypeOK, TableTypeOK, Issue, Row

LEMMA RevokedTyped ==
  ASSUME TypeOK, NEW S
  PROVE  Revoked(S) \in [DOMAIN rows -> Row]
  <1> SUFFICES ASSUME NEW i \in DOMAIN rows
               PROVE  (IF i \in S /\ rows[i].revoked = Live
                       THEN [rows[i] EXCEPT !.revoked = now] ELSE rows[i])
                         \in Row
      BY DEF Revoked
  <1>1. rows[i] \in Row /\ now \in Nat
      BY DEF TypeOK, TableTypeOK
  <1> QED BY <1>1 DEF Row

(* The table is finite, so that count( * ) is a number.                    *)
LEMMA OfSessionFinite ==
  ASSUME TypeOK, NEW u, NEW t
  PROVE  /\ IsFiniteSet(OfSession(u, t))
         /\ Cardinality(OfSession(u, t)) \in Nat
  <1>1. OfSession(u, t) \subseteq 1 .. nextId - 1
      BY DEF OfSession, TypeOK, TableTypeOK
  <1>2. 1 \in Int /\ nextId - 1 \in Int
      BY DEF TypeOK, TableTypeOK
  <1>3. IsFiniteSet(1 .. nextId - 1)
      BY <1>2, FS_Interval
  <1>4. IsFiniteSet(OfSession(u, t))
      BY <1>1, <1>3, FS_Subset
  <1> QED BY <1>4, FS_CardinalityType

-----------------------------------------------------------------------------
(* One step of a call keeps the types: a step per action.                  *)
LEMMA ContinueTyped ==
  ASSUME TypeOK, NEW p \in Procs, Continue(p)
  PROVE  TypeOK'
  <1>1. CASE AcquireLock(p)
    <2>1. ThreadTypeOK'
        BY <1>1 DEF AcquireLock, TypeOK, ThreadTypeOK, Tokenizing, Restoring
    <2> QED BY <1>1, <2>1 DEF AcquireLock, TypeOK, TableTypeOK, HistoryTypeOK
  <1>2. CASE CountRows(p)
    <2>1. Cardinality(OfSession(Uuid[arg[p].raw], arg[p].etype)) \in Nat
        BY OfSessionFinite
    <2>2. ThreadTypeOK'
        BY <1>2, <2>1 DEF CountRows, TypeOK, ThreadTypeOK, Tokenizing,
                          Restoring
    <2> QED BY <1>2, <2>2 DEF CountRows, TypeOK, TableTypeOK, HistoryTypeOK
  <1>3. CASE InsertRow(p)
    <2>1. TableTypeOK'
        BY <1>3, InsertTyped DEF InsertRow
    <2>2. ThreadTypeOK'
        BY <1>3, FinishTyped DEF InsertRow
    <2>3. [session |-> Uuid[arg[p].raw], etype |-> arg[p].etype,
           n |-> cnt[p] + 1, value |-> arg[p].value]
              \in [session : Uuids, etype : Types, n : Nat \ {0},
                   value : Values]
        BY <1>3, NewRowTyped, UuidAssumption
        DEF InsertRow, TypeOK, ThreadTypeOK, TokenizeArgs
    <2>4. HistoryTypeOK'
        BY <1>3, <2>3 DEF InsertRow, TypeOK, HistoryTypeOK
    <2> QED BY <2>1, <2>2, <2>4 DEF TypeOK
  <1>4. CASE InsertUnacknowledged(p)
    <2>1. TableTypeOK'
        BY <1>4, InsertTyped DEF InsertUnacknowledged
    <2>2. ThreadTypeOK'
        BY <1>4, FinishTyped DEF InsertUnacknowledged
    <2> QED BY <1>4, <2>1, <2>2
            DEF InsertUnacknowledged, TypeOK, HistoryTypeOK
  <1>5. CASE InsertConflict(p)
    <2>1. ThreadTypeOK'
        BY <1>5 DEF InsertConflict, TypeOK, ThreadTypeOK, Tokenizing,
                    Restoring
    <2> QED BY <1>5, <2>1
            DEF InsertConflict, TypeOK, TableTypeOK, HistoryTypeOK
  <1>6. CASE Reselect(p)
    <2>1. arg[p].value \in Values
        BY <1>6 DEF Reselect, TypeOK, ThreadTypeOK, Tokenizing, TokenizeArgs
    <2>2. issued' \subseteq [session : Uuids, etype : Types, n : Nat \ {0},
                             value : Values]
        BY <1>6, <2>1, IssueTyped
        DEF Reselect, ActiveWithHash, TypeOK, HistoryTypeOK
    <2>3. ThreadTypeOK'
        BY <1>6, FinishTyped DEF Reselect
    <2> QED BY <1>6, <2>2, <2>3 DEF Reselect, TypeOK, TableTypeOK, HistoryTypeOK
  <1>7. CASE ReselectVanished(p)
      BY <1>7, FinishTyped
      DEF ReselectVanished, TypeOK, TableTypeOK, HistoryTypeOK
  <1>8. CASE TokenizeFails(p)
      BY <1>8, FinishTyped
      DEF TokenizeFails, TypeOK, TableTypeOK, HistoryTypeOK
  <1>9. CASE Deny(p)
      BY <1>9, FinishTyped DEF Deny, TypeOK, TableTypeOK, HistoryTypeOK
  <1>10. CASE Grant(p)
      BY <1>10, FinishTyped DEF Grant, TypeOK, TableTypeOK, HistoryTypeOK
  <1>11. CASE DetokenizeFails(p)
      BY <1>11, FinishTyped
      DEF DetokenizeFails, TypeOK, TableTypeOK, HistoryTypeOK
  <1>12. CASE LogUnacknowledged(p)
      BY <1>12, FinishTyped
      DEF LogUnacknowledged, TypeOK, TableTypeOK, HistoryTypeOK
  <1>13. CASE LogAccess(p)
    <2>1. ThreadTypeOK'
        BY <1>13 DEF LogAccess, TypeOK, ThreadTypeOK, Tokenizing, Restoring
    <2> QED BY <1>13, <2>1 DEF LogAccess, TypeOK, TableTypeOK, HistoryTypeOK
  <1>14. CASE CommitAccess(p)
    <2>1. ThreadTypeOK'
        BY <1>14 DEF CommitAccess, TypeOK, ThreadTypeOK, Tokenizing, Restoring
    <2> QED BY <1>14, <2>1
            DEF CommitAccess, TypeOK, TableTypeOK, HistoryTypeOK
  <1> QED BY <1>1, <1>2, <1>3, <1>4, <1>5, <1>6, <1>7, <1>8, <1>9, <1>10,
             <1>11, <1>12, <1>13, <1>14 DEF Continue

LEMMA TokenizeTyped ==
  ASSUME TypeOK, NEW p \in Procs, Tokenize(p)
  PROVE  TypeOK'
  <1>1. PICK raw \in RawIds, name \in TypeNames, value \in Values,
             scope \in Scopes :
               LET c == [raw |-> raw, etype |-> Normalize(name),
                         value |-> value, scope |-> scope]
               IN  TokenizeExisting(p, c) \/ TokenizeNew(p, c)
      BY DEF Tokenize
  <1> DEFINE c == [raw |-> raw, etype |-> Normalize(name),
                   value |-> value, scope |-> scope]
  <1>2. c \in TokenizeArgs
      BY DEF TokenizeArgs, Normalize, Types
  <1>3. CASE TokenizeExisting(p, c)
    <2>1. issued' \subseteq [session : Uuids, etype : Types, n : Nat \ {0},
                             value : Values]
        BY <1>3, IssueTyped DEF TokenizeExisting, ActiveWithHash, TypeOK,
                                HistoryTypeOK
    <2> QED BY <1>3, <2>1 DEF TokenizeExisting, TypeOK, TableTypeOK,
                              ThreadTypeOK, HistoryTypeOK
  <1>4. CASE TokenizeNew(p, c)
    <2> HIDE DEF c
    <2>1. ThreadTypeOK'
        BY <1>2, <1>4 DEF TokenizeNew, TypeOK, TableTypeOK, ThreadTypeOK,
                          Tokenizing, Restoring
    <2> QED BY <1>4, <2>1 DEF TokenizeNew, TypeOK, TableTypeOK, HistoryTypeOK
  <1> QED BY <1>1, <1>3, <1>4

LEMMA DetokenizeTyped ==
  ASSUME TypeOK, NEW p \in Procs, Detokenize(p)
  PROVE  TypeOK'
  <1>1. PICK c \in DetokenizeArgs : ReadRow(p, c)
    <2>1. \A n \in 1 .. MaxRows : n \in Nat
        BY BoundsAssumption
    <2>2. attempts + 1 \in Nat
        BY DEF TypeOK, HistoryTypeOK
    <2> QED BY <2>1, <2>2 DEF Detokenize, DetokenizeArgs
  <1>2. found' \in [Procs -> FoundRow \cup {None}]
    <2>1. \A i \in ActiveWithLabel(c) :
             [id |-> i, cipher |-> rows[i].cipher, scope |-> rows[i].scope,
              expired |-> rows[i].expires <= now] \in FoundRow
        BY DEF ActiveWithLabel, TypeOK, TableTypeOK, Row, FoundRow
    <2> QED BY <1>1, <2>1 DEF ReadRow, TypeOK, ThreadTypeOK
  <1>3. ThreadTypeOK'
      BY <1>1, <1>2 DEF ReadRow, TypeOK, ThreadTypeOK, Tokenizing, Restoring
  <1> QED BY <1>1, <1>3 DEF ReadRow, TypeOK, TableTypeOK, HistoryTypeOK

LEMMA RevokeTyped ==
  ASSUME TypeOK, NEW raw \in RawIds, RevokeSession(raw)
  PROVE  TypeOK'
  <1>1. rows' \in [DOMAIN rows -> Row]
      BY RevokedTyped DEF RevokeSession
  <1>2. DOMAIN rows' = DOMAIN rows
      BY <1>1
  <1> QED BY <1>1, <1>2
          DEF RevokeSession, TypeOK, TableTypeOK, ThreadTypeOK, HistoryTypeOK

LEMMA PurgeTyped ==
  ASSUME TypeOK, PurgeExpired
  PROVE  TypeOK'
  <1> DEFINE swept == Revoked({i \in DOMAIN rows : rows[i].expires < now})
             gone  == {i \in DOMAIN rows : /\ swept[i].revoked # Live
                                           /\ swept[i].revoked < now - Grace}
  <1>1. swept \in [DOMAIN rows -> Row]
      BY RevokedTyped
  <1> HIDE DEF swept
  <1>2. /\ rows' = [i \in DOMAIN rows \ gone |-> swept[i]]
        /\ erased' = erased \cup
               {<<rows[i].session, rows[i].etype>> : i \in gone}
        /\ UNCHANGED <<nextId, now, lock, pc, arg, start, cnt, found, log,
                       attempts, issued, restored>>
      BY DEF PurgeExpired, swept
  <1>3. rows' \in [DOMAIN rows' -> Row] /\ DOMAIN rows' \subseteq DOMAIN rows
      BY <1>1, <1>2
  <1>4. erased' \subseteq Uuids \X Types
      BY <1>2 DEF TypeOK, TableTypeOK, HistoryTypeOK, Row
  <1> QED BY <1>2, <1>3, <1>4
          DEF TypeOK, TableTypeOK, ThreadTypeOK, HistoryTypeOK

LEMMA NextTyped == TypeOK /\ [Next]_vars => TypeOK'
  <1> SUFFICES ASSUME TypeOK, [Next]_vars PROVE TypeOK'
      OBVIOUS
  <1>1. CASE \E p \in Procs : Tokenize(p) \/ Detokenize(p) \/ Continue(p)
      BY <1>1, TokenizeTyped, DetokenizeTyped, ContinueTyped
  <1>2. CASE \E raw \in RawIds : RevokeSession(raw)
      BY <1>2, RevokeTyped
  <1>3. CASE PurgeExpired
      BY <1>3, PurgeTyped
  <1>4. CASE Tick
      BY <1>4 DEF Tick, TypeOK, TableTypeOK, ThreadTypeOK, HistoryTypeOK
  <1>5. CASE UNCHANGED vars
      BY <1>5 DEF vars, TypeOK, TableTypeOK, ThreadTypeOK, HistoryTypeOK
  <1> QED BY <1>1, <1>2, <1>3, <1>4, <1>5 DEF Next

(* Every reachable state of the vault is type correct: the columns of the  *)
(* table, and what each statement of tokenize and detokenize finds in its  *)
(* locals.                                                                 *)
THEOREM TypeCorrect == Spec => []TypeOK
  <1> QED BY InitTyped, NextTyped, PTL DEF Spec

-----------------------------------------------------------------------------
(* A step that leaves the table alone, revokes rows, or deletes rows and   *)
(* says so in erased, keeps what VaultInv says of the table, and the count *)
(* of every session and type that is still settled after it.               *)
TableKept ==
    /\ DOMAIN rows' \subseteq DOMAIN rows
    /\ \A i \in DOMAIN rows' :
          /\ SameLabel(rows'[i], rows[i])
          /\ rows'[i].hash = rows[i].hash
          /\ rows'[i].cipher = rows[i].cipher
    /\ erased \subseteq erased'
    /\ \A i \in DOMAIN rows \ DOMAIN rows' :
          <<rows[i].session, rows[i].etype>> \in erased'

LEMMA KeptCounts ==
  ASSUME TableKept, NEW u, NEW t, Settled(u, t)'
  PROVE  /\ Settled(u, t)
         /\ OfSession(u, t)' = OfSession(u, t)
  <1>1. Settled(u, t) /\ <<u, t>> \notin erased'
      BY DEF TableKept, Settled, Unshared
  <1>2. \A i \in DOMAIN rows : rows[i].session = u /\ rows[i].etype = t
                                   => i \in DOMAIN rows'
      BY <1>1 DEF TableKept
  <1>3. OfSession(u, t)' = OfSession(u, t)
      BY <1>2 DEF TableKept, OfSession, SameLabel
  <1> QED BY <1>1, <1>3

LEMMA KeptTable ==
  ASSUME TableKept, NumberedOnce, HashOfValue, IssuedInTable
  PROVE  /\ NumberedOnce'
         /\ HashOfValue'
         /\ \A b \in issued : Settled(b.session, b.etype)' =>
               \E i \in DOMAIN rows' : /\ SameLabel(b, rows'[i])
                                       /\ rows'[i].cipher = b.value
  <1>1. NumberedOnce'
    <2> SUFFICES ASSUME NEW u \in Uuids, NEW t \in Types, Settled(u, t)',
                        NEW i \in OfSession(u, t)', NEW j \in OfSession(u, t)'
                 PROVE  /\ rows'[i].n <= Cardinality(OfSession(u, t)')
                        /\ rows'[i].n = rows'[j].n => i = j
        BY DEF NumberedOnce
    <2>1. Settled(u, t) /\ OfSession(u, t)' = OfSession(u, t)
        BY KeptCounts
    <2>2. rows'[i].n = rows[i].n /\ rows'[j].n = rows[j].n
        BY DEF TableKept, SameLabel, OfSession
    <2> QED BY <2>1, <2>2 DEF NumberedOnce
  <1>2. HashOfValue'
      BY DEF HashOfValue, TableKept, SameLabel
  <1>3. ASSUME NEW b \in issued, Settled(b.session, b.etype)'
        PROVE  \E i \in DOMAIN rows' : /\ SameLabel(b, rows'[i])
                                       /\ rows'[i].cipher = b.value
    <2>1. Settled(b.session, b.etype) /\ <<b.session, b.etype>> \notin erased'
        BY <1>3, KeptCounts DEF Settled
    <2>2. PICK i \in DOMAIN rows : /\ SameLabel(b, rows[i])
                                   /\ rows[i].cipher = b.value
        BY <2>1 DEF IssuedInTable
    <2>3. i \in DOMAIN rows'
        BY <2>1, <2>2 DEF TableKept, SameLabel
    <2> QED BY <2>2, <2>3 DEF TableKept, SameLabel
  <1> QED BY <1>1, <1>2, <1>3

(* The end of a call releases the locks of its thread and no other.        *)
LEMMA FinishLockHeld ==
  ASSUME TypeOK, LockHeld, NEW p \in Procs, Finish(p)
  PROVE  LockHeld'
  <1> SUFFICES ASSUME NEW q \in Procs, pc'[q] \in Locked
               PROVE  lock'[LockKey(arg'[q])] = q
      BY DEF LockHeld, LockKey
  <1>1. q # p /\ pc[q] \in Locked /\ arg'[q] = arg[q]
      BY DEF Finish, Locked, TypeOK, ThreadTypeOK
  <1>2. lock[LockKey(arg[q])] = q
      BY <1>1 DEF LockHeld
  <1>3. LockKey(arg[q]) \in LockKeys
      BY <1>1 DEF TypeOK, ThreadTypeOK, Locked, Tokenizing, TokenizeArgs,
                  LockKey, LockKeys
  <1> QED BY <1>1, <1>2, <1>3 DEF Finish

LEMMA FinishCountCurrent ==
  ASSUME TypeOK, CountCurrent, TableKept, NEW p \in Procs, Finish(p)
  PROVE  CountCurrent'
  <1> SUFFICES ASSUME NEW q \in Procs, NEW u \in Uuids, NEW t \in Types,
                      pc'[q] = "insert", u = Uuid[arg'[q].raw],
                      t = arg'[q].etype, Settled(u, t)'
               PROVE  cnt'[q] = Cardinality(OfSession(u, t)')
      BY DEF CountCurrent
  <1>1. pc[q] = "insert" /\ arg'[q] = arg[q] /\ cnt'[q] = cnt[q]
      BY DEF Finish, TypeOK, ThreadTypeOK
  <1>2. Settled(u, t) /\ OfSession(u, t)' = OfSession(u, t)
      BY KeptCounts
  <1> QED BY <1>1, <1>2 DEF CountCurrent

(* The row inserted: the counts and numbers after it.                      *)
LEMMA InsertCounts ==
  ASSUME TypeOK, NEW p \in Procs, pc[p] = "insert",
         rows' = WithRow(nextId, NewRow(p)), NEW u, NEW t
  PROVE  /\ DOMAIN rows' = DOMAIN rows \cup {nextId}
         /\ nextId \notin DOMAIN rows
         /\ rows'[nextId] = NewRow(p)
         /\ \A i \in DOMAIN rows : rows'[i] = rows[i]
         /\ (u # Uuid[arg[p].raw] \/ t # arg[p].etype)
              => OfSession(u, t)' = OfSession(u, t)
         /\ (u = Uuid[arg[p].raw] /\ t = arg[p].etype)
              => /\ OfSession(u, t)' = OfSession(u, t) \cup {nextId}
                 /\ Cardinality(OfSession(u, t)')
                       = Cardinality(OfSession(u, t)) + 1
  <1>1. nextId \notin DOMAIN rows
      BY DEF TypeOK, TableTypeOK
  <1>2. /\ DOMAIN rows' = DOMAIN rows \cup {nextId}
        /\ rows'[nextId] = NewRow(p)
        /\ \A i \in DOMAIN rows : rows'[i] = rows[i]
      BY <1>1 DEF WithRow
  <1>3. /\ rows'[nextId].session = Uuid[arg[p].raw]
        /\ rows'[nextId].etype = arg[p].etype
      BY <1>2 DEF NewRow
  <1>4. (u # Uuid[arg[p].raw] \/ t # arg[p].etype)
              => OfSession(u, t)' = OfSession(u, t)
      BY <1>2, <1>3 DEF OfSession
  <1>5. ASSUME u = Uuid[arg[p].raw], t = arg[p].etype
        PROVE  /\ OfSession(u, t)' = OfSession(u, t) \cup {nextId}
               /\ Cardinality(OfSession(u, t)')
                     = Cardinality(OfSession(u, t)) + 1
    <2>1. OfSession(u, t)' = OfSession(u, t) \cup {nextId}
        BY <1>2, <1>3, <1>5 DEF OfSession
    <2>2. nextId \notin OfSession(u, t)
        BY <1>1 DEF OfSession
    <2> QED BY <2>1, <2>2, OfSessionFinite, FS_AddElement
  <1> QED BY <1>1, <1>2, <1>4, <1>5

LEMMA InsertNumbers ==
  ASSUME VaultInv, NEW p \in Procs, pc[p] = "insert",
         rows' = WithRow(nextId, NewRow(p)), erased' = erased
  PROVE  NumberedOnce' /\ HashOfValue'
  <1>1. NumberedOnce'
    <2> SUFFICES ASSUME NEW u \in Uuids, NEW t \in Types, Settled(u, t)',
                        NEW i \in OfSession(u, t)', NEW j \in OfSession(u, t)'
                 PROVE  /\ rows'[i].n <= Cardinality(OfSession(u, t)')
                        /\ rows'[i].n = rows'[j].n => i = j
        BY DEF NumberedOnce
    <2>1. Settled(u, t)
        BY DEF Settled, Unshared
    <2>2. CASE u # Uuid[arg[p].raw] \/ t # arg[p].etype
      <3>1. OfSession(u, t)' = OfSession(u, t)
          BY <2>2, InsertCounts DEF VaultInv
      <3>2. rows'[i] = rows[i] /\ rows'[j] = rows[j]
          BY <3>1, InsertCounts DEF OfSession, VaultInv
      <3> QED BY <2>1, <3>1, <3>2 DEF VaultInv, NumberedOnce
    <2>3. CASE u = Uuid[arg[p].raw] /\ t = arg[p].etype
      <3>1. /\ OfSession(u, t)' = OfSession(u, t) \cup {nextId}
            /\ Cardinality(OfSession(u, t)')
                  = Cardinality(OfSession(u, t)) + 1
            /\ nextId \notin DOMAIN rows
            /\ rows'[nextId].n = cnt[p] + 1
            /\ \A k \in OfSession(u, t) : rows'[k] = rows[k]
        <4>1. TypeOK
            BY DEF VaultInv
        <4>2. /\ OfSession(u, t)' = OfSession(u, t) \cup {nextId}
              /\ Cardinality(OfSession(u, t)')
                    = Cardinality(OfSession(u, t)) + 1
            BY <2>3, <4>1, InsertCounts
        <4>3. /\ nextId \notin DOMAIN rows
              /\ rows'[nextId] = NewRow(p)
              /\ \A k \in DOMAIN rows : rows'[k] = rows[k]
            BY <4>1, InsertCounts
        <4>4. rows'[nextId].n = cnt[p] + 1
            BY <4>3 DEF NewRow
        <4>5. OfSession(u, t) \subseteq DOMAIN rows
            BY DEF OfSession
        <4> QED BY <4>2, <4>3, <4>4, <4>5
      <3>2. cnt[p] = Cardinality(OfSession(u, t)) /\ cnt[p] \in Nat
          BY <2>1, <2>3 DEF VaultInv, CountCurrent, TypeOK, ThreadTypeOK
      <3>3. \A k \in OfSession(u, t) : /\ rows'[k].n <= cnt[p]
                                       /\ rows'[k].n \in Nat
          BY <2>1, <3>1, <3>2 DEF VaultInv, NumberedOnce, TypeOK, TableTypeOK,
                                  Row, OfSession
      <3>4. \A k, l \in OfSession(u, t) : rows'[k].n = rows'[l].n => k = l
          BY <2>1, <3>1 DEF VaultInv, NumberedOnce
      <3> QED BY <3>1, <3>2, <3>3, <3>4
    <2> QED BY <2>2, <2>3
  <1>2. HashOfValue'
    <2>1. /\ NewRow(p).hash[2] = NewRow(p).etype
          /\ NewRow(p).hash[3] = NewRow(p).cipher
        BY DEF NewRow, Hash
    <2> QED BY <2>1, InsertCounts DEF VaultInv, HashOfValue
  <1> QED BY <1>1, <1>2

(* Two threads in the counter section of one counter of a settled session  *)
(* are one thread: they hold the same advisory lock.                       *)
LEMMA SerializedWhenUnshared ==
  ASSUME TypeOK, LockHeld, NEW p \in Procs, NEW q \in Procs,
         pc[p] \in Locked, pc[q] \in Locked,
         Uuid[arg[p].raw] = Uuid[arg[q].raw], arg[p].etype = arg[q].etype,
         Unshared(Uuid[arg[p].raw])
  PROVE  p = q
  <1>1. arg[p].raw \in RawIds /\ arg[q].raw \in RawIds
      BY DEF TypeOK, ThreadTypeOK, Locked, Tokenizing, TokenizeArgs
  <1>2. arg[p].raw = arg[q].raw
      BY <1>1 DEF Unshared
  <1> QED BY <1>2 DEF LockHeld, LockKey

LEMMA InsertCountCurrent ==
  ASSUME VaultInv, NEW p \in Procs, pc[p] = "insert", Finish(p),
         rows' = WithRow(nextId, NewRow(p)), erased' = erased
  PROVE  CountCurrent'
  <1> SUFFICES ASSUME NEW q \in Procs, NEW u \in Uuids, NEW t \in Types,
                      pc'[q] = "insert", u = Uuid[arg'[q].raw],
                      t = arg'[q].etype, Settled(u, t)'
               PROVE  cnt'[q] = Cardinality(OfSession(u, t)')
      BY DEF CountCurrent
  <1>1. /\ q # p /\ pc[q] = "insert"
        /\ arg'[q] = arg[q] /\ cnt'[q] = cnt[q]
      BY DEF Finish, VaultInv, TypeOK, ThreadTypeOK
  <1>2. Settled(u, t)
      BY DEF Settled, Unshared
  <1>3. u # Uuid[arg[p].raw] \/ t # arg[p].etype
      BY <1>1, <1>2, SerializedWhenUnshared DEF VaultInv, Settled, Locked
  <1>4. OfSession(u, t)' = OfSession(u, t)
      BY <1>3, InsertCounts DEF VaultInv
  <1> QED BY <1>1, <1>2, <1>4 DEF VaultInv, CountCurrent

(* A label read from an active row of the caller's hash denotes the        *)
(* caller's value.                                                         *)
LEMMA IssueFaithful ==
  ASSUME HashOfValue, NEW c, NEW i \in ActiveWithHash(c)
  PROVE  /\ i \in DOMAIN rows
         /\ SameLabel(Issue(i, c.value), rows[i])
         /\ rows[i].cipher = Issue(i, c.value).value
  <1>1. i \in DOMAIN rows /\ rows[i].hash = Hash(c)
      BY DEF ActiveWithHash
  <1>2. rows[i].hash[3] = c.value
      BY <1>1 DEF Hash
  <1> QED BY <1>1, <1>2 DEF HashOfValue, Issue, SameLabel

LEMMA IssuedKept ==
  ASSUME HashOfValue, IssuedInTable, UNCHANGED <<rows, erased>>, NEW c,
         \E i \in ActiveWithHash(c) : issued' = issued \cup {Issue(i, c.value)}
  PROVE  IssuedInTable'
  <1>1. PICK i \in ActiveWithHash(c) :
               issued' = issued \cup {Issue(i, c.value)}
      OBVIOUS
  <1>2. \A b \in issued' : Settled(b.session, b.etype) =>
               \E k \in DOMAIN rows : /\ SameLabel(b, rows[k])
                                      /\ rows[k].cipher = b.value
      BY <1>1, IssueFaithful DEF IssuedInTable
  <1> QED BY <1>2 DEF IssuedInTable, Settled, Unshared

LEMMA InsertIssued ==
  ASSUME VaultInv, NEW p \in Procs, pc[p] = "insert",
         rows' = WithRow(nextId, NewRow(p)), erased' = erased,
         \/ UNCHANGED issued
         \/ issued' = issued \cup
              {[session |-> Uuid[arg[p].raw], etype |-> arg[p].etype,
                n |-> cnt[p] + 1, value |-> arg[p].value]}
  PROVE  IssuedInTable'
  <1> SUFFICES ASSUME NEW b \in issued', Settled(b.session, b.etype)'
               PROVE  \E i \in DOMAIN rows' : /\ SameLabel(b, rows'[i])
                                              /\ rows'[i].cipher = b.value
      BY DEF IssuedInTable
  <1>1. /\ DOMAIN rows' = DOMAIN rows \cup {nextId}
        /\ rows'[nextId] = NewRow(p)
        /\ \A i \in DOMAIN rows : rows'[i] = rows[i]
      BY InsertCounts DEF VaultInv
  <1>2. CASE b \in issued
    <2>1. Settled(b.session, b.etype)
        BY DEF Settled, Unshared
    <2> QED BY <1>1, <1>2, <2>1 DEF VaultInv, IssuedInTable
  <1>3. CASE b = [session |-> Uuid[arg[p].raw], etype |-> arg[p].etype,
                  n |-> cnt[p] + 1, value |-> arg[p].value]
    <2>1. /\ b.session = Uuid[arg[p].raw] /\ b.etype = arg[p].etype
          /\ b.n = cnt[p] + 1 /\ b.value = arg[p].value
        BY <1>3
    <2>2. SameLabel(b, NewRow(p)) /\ NewRow(p).cipher = b.value
        BY <2>1 DEF NewRow, SameLabel
    <2>3. nextId \in DOMAIN rows' /\ SameLabel(b, rows'[nextId])
                                  /\ rows'[nextId].cipher = b.value
        BY <1>1, <2>2
    <2> QED BY <2>3
  <1> QED BY <1>2, <1>3

LEMMA UnchangedKept ==
  ASSUME UNCHANGED <<rows, erased>>
  PROVE  TableKept
  BY DEF TableKept, SameLabel

LEMMA IssuedFromTable ==
  ASSUME TableKept, NumberedOnce, HashOfValue, IssuedInTable, issued' = issued
  PROVE  IssuedInTable'
  <1>1. \A b \in issued : Settled(b.session, b.etype)' =>
               \E i \in DOMAIN rows' : /\ SameLabel(b, rows'[i])
                                       /\ rows'[i].cipher = b.value
      BY KeptTable
  <1> QED BY <1>1 DEF IssuedInTable

(* A call that ends without touching the table.                            *)
LEMMA FinishKeepsInv ==
  ASSUME VaultInv, TypeOK', NEW p \in Procs, Finish(p),
         UNCHANGED <<rows, erased>>, IssuedInTable'
  PROVE  VaultInv'
  <1>1. TableKept
      BY UnchangedKept
  <1>2. LockHeld' /\ CountCurrent'
      BY <1>1, FinishLockHeld, FinishCountCurrent DEF VaultInv
  <1>3. NumberedOnce' /\ HashOfValue'
      BY <1>1, KeptTable DEF VaultInv
  <1> QED BY <1>2, <1>3 DEF VaultInv

LEMMA FinishQuietly ==
  ASSUME VaultInv, TypeOK', NEW p \in Procs, Finish(p),
         UNCHANGED <<rows, erased, issued>>
  PROVE  VaultInv'
  <1>1. IssuedInTable'
      BY UnchangedKept, IssuedFromTable DEF VaultInv
  <1> QED BY <1>1, FinishKeepsInv

(* A call that commits its row.                                            *)
LEMMA InsertKeepsInv ==
  ASSUME VaultInv, TypeOK', NEW p \in Procs, pc[p] = "insert", Finish(p),
         rows' = WithRow(nextId, NewRow(p)), erased' = erased,
         \/ UNCHANGED issued
         \/ issued' = issued \cup
              {[session |-> Uuid[arg[p].raw], etype |-> arg[p].etype,
                n |-> cnt[p] + 1, value |-> arg[p].value]}
  PROVE  VaultInv'
  <1>1. LockHeld'
      BY FinishLockHeld DEF VaultInv
  <1>2. CountCurrent'
      BY InsertCountCurrent
  <1>3. NumberedOnce' /\ HashOfValue'
      BY InsertNumbers
  <1>4. IssuedInTable'
      BY InsertIssued
  <1> QED BY <1>1, <1>2, <1>3, <1>4 DEF VaultInv

(* A step that leaves every thread where it is.                            *)
LEMMA IdleKeepsInv ==
  ASSUME VaultInv, TypeOK', TableKept, UNCHANGED <<lock, pc, arg, cnt>>,
         IssuedInTable'
  PROVE  VaultInv'
  <1>1. LockHeld'
      BY DEF VaultInv, LockHeld, LockKey
  <1>2. CountCurrent'
    <2> SUFFICES ASSUME NEW q \in Procs, NEW u \in Uuids, NEW t \in Types,
                        pc'[q] = "insert", u = Uuid[arg'[q].raw],
                        t = arg'[q].etype, Settled(u, t)'
                 PROVE  cnt'[q] = Cardinality(OfSession(u, t)')
        BY DEF CountCurrent
    <2>1. Settled(u, t) /\ OfSession(u, t)' = OfSession(u, t)
        BY KeptCounts
    <2> QED BY <2>1 DEF VaultInv, CountCurrent
  <1>3. NumberedOnce' /\ HashOfValue'
      BY KeptTable DEF VaultInv
  <1> QED BY <1>1, <1>2, <1>3 DEF VaultInv

(* A thread that goes on to a statement before the insertion.              *)
LEMMA AdvanceKeepsInv ==
  ASSUME VaultInv, TypeOK', UNCHANGED <<rows, erased, issued, cnt>>,
         NEW p \in Procs, NEW next, pc' = [pc EXCEPT ![p] = next],
         next # "insert", LockHeld', \A q \in Procs \ {p} : arg'[q] = arg[q]
  PROVE  VaultInv'
  <1>1. TableKept
      BY UnchangedKept
  <1>2. CountCurrent'
    <2> SUFFICES ASSUME NEW q \in Procs, NEW u \in Uuids, NEW t \in Types,
                        pc'[q] = "insert", u = Uuid[arg'[q].raw],
                        t = arg'[q].etype, Settled(u, t)'
                 PROVE  cnt'[q] = Cardinality(OfSession(u, t)')
        BY DEF CountCurrent
    <2>1. q # p /\ pc[q] = "insert" /\ arg'[q] = arg[q]
        BY DEF VaultInv, TypeOK, ThreadTypeOK
    <2>2. Settled(u, t) /\ OfSession(u, t)' = OfSession(u, t)
        BY <1>1, KeptCounts
    <2> QED BY <2>1, <2>2 DEF VaultInv, CountCurrent
  <1>3. NumberedOnce' /\ HashOfValue' /\ IssuedInTable'
      BY <1>1, KeptTable, IssuedFromTable DEF VaultInv
  <1> QED BY <1>2, <1>3 DEF VaultInv

LEMMA CountKeepsInv ==
  ASSUME VaultInv, TypeOK', NEW p \in Procs, CountRows(p)
  PROVE  VaultInv'
  <1>1. TableKept
      BY UnchangedKept DEF CountRows
  <1>2. LockHeld'
      BY DEF CountRows, VaultInv, LockHeld, LockKey, Locked, TypeOK,
             ThreadTypeOK
  <1>3. CountCurrent'
    <2> SUFFICES ASSUME NEW q \in Procs, NEW u \in Uuids, NEW t \in Types,
                        pc'[q] = "insert", u = Uuid[arg'[q].raw],
                        t = arg'[q].etype, Settled(u, t)'
                 PROVE  cnt'[q] = Cardinality(OfSession(u, t)')
        BY DEF CountCurrent
    <2>1. arg' = arg
        BY DEF CountRows
    <2>2. Settled(u, t) /\ OfSession(u, t)' = OfSession(u, t)
        BY <1>1, KeptCounts
    <2>3. CASE q = p
        BY <2>1, <2>2, <2>3 DEF CountRows, VaultInv, TypeOK, ThreadTypeOK
    <2>4. CASE q # p
      <3>1. pc[q] = "insert" /\ cnt'[q] = cnt[q]
          BY <2>4 DEF CountRows, VaultInv, TypeOK, ThreadTypeOK
      <3> QED BY <2>1, <2>2, <3>1 DEF VaultInv, CountCurrent
    <2> QED BY <2>3, <2>4
  <1>4. NumberedOnce' /\ HashOfValue' /\ IssuedInTable'
      BY <1>1, KeptTable, IssuedFromTable DEF VaultInv, CountRows
  <1> QED BY <1>2, <1>3, <1>4 DEF VaultInv

LEMMA ContinueKeepsInv ==
  ASSUME VaultInv, TypeOK', NEW p \in Procs, Continue(p)
  PROVE  VaultInv'
  <1>1. CASE AcquireLock(p)
    <2>1. LockHeld'
      <3> SUFFICES ASSUME NEW q \in Procs, pc'[q] \in Locked
                   PROVE  lock'[LockKey(arg'[q])] = q
          BY DEF LockHeld, LockKey
      <3>1. arg[p] \in TokenizeArgs /\ LockKey(arg[p]) \in LockKeys
          BY <1>1 DEF AcquireLock, VaultInv, TypeOK, ThreadTypeOK, Tokenizing,
                      TokenizeArgs, LockKey, LockKeys
      <3>2. CASE q = p
          BY <1>1, <3>1, <3>2 DEF AcquireLock, VaultInv, TypeOK, ThreadTypeOK
      <3>3. CASE q # p
        <4>1. pc[q] \in Locked /\ arg'[q] = arg[q]
            BY <1>1, <3>3 DEF AcquireLock, VaultInv, TypeOK, ThreadTypeOK
        <4>2. lock[LockKey(arg[q])] = q
            BY <4>1 DEF VaultInv, LockHeld
        <4>3. LockKey(arg[q]) # LockKey(arg[p])
            BY <1>1, <4>2, NoneAssumption DEF AcquireLock
        <4> QED BY <1>1, <4>1, <4>2, <4>3
                DEF AcquireLock, VaultInv, TypeOK, ThreadTypeOK
      <3> QED BY <3>2, <3>3
    <2> QED BY <1>1, <2>1, AdvanceKeepsInv DEF AcquireLock
  <1>2. CASE CountRows(p)
      BY <1>2, CountKeepsInv
  <1>3. CASE InsertRow(p)
      BY <1>3, InsertKeepsInv DEF InsertRow
  <1>4. CASE InsertUnacknowledged(p)
      BY <1>4, InsertKeepsInv DEF InsertUnacknowledged
  <1>5. CASE InsertConflict(p)
    <2>1. LockHeld'
        BY <1>5 DEF InsertConflict, VaultInv, LockHeld, LockKey, Locked,
                    TypeOK, ThreadTypeOK
    <2> QED BY <1>5, <2>1, AdvanceKeepsInv DEF InsertConflict
  <1>6. CASE Reselect(p)
    <2>1. IssuedInTable'
        BY <1>6, IssuedKept DEF Reselect, VaultInv
    <2> QED BY <1>6, <2>1, FinishKeepsInv DEF Reselect
  <1>7. CASE ReselectVanished(p)
      BY <1>7, FinishQuietly DEF ReselectVanished
  <1>8. CASE TokenizeFails(p)
      BY <1>8, FinishQuietly DEF TokenizeFails
  <1>9. CASE Deny(p)
      BY <1>9, FinishQuietly DEF Deny
  <1>10. CASE Grant(p)
      BY <1>10, FinishQuietly DEF Grant
  <1>11. CASE DetokenizeFails(p)
      BY <1>11, FinishQuietly DEF DetokenizeFails
  <1>12. CASE LogUnacknowledged(p)
      BY <1>12, FinishQuietly DEF LogUnacknowledged
  <1>13. CASE LogAccess(p)
    <2>1. LockHeld'
        BY <1>13 DEF LogAccess, VaultInv, LockHeld, LockKey, Locked, TypeOK,
                     ThreadTypeOK
    <2> QED BY <1>13, <2>1, AdvanceKeepsInv DEF LogAccess
  <1>14. CASE CommitAccess(p)
    <2>1. LockHeld'
        BY <1>14 DEF CommitAccess, VaultInv, LockHeld, LockKey, Locked,
                     TypeOK, ThreadTypeOK
    <2> QED BY <1>14, <2>1, AdvanceKeepsInv DEF CommitAccess
  <1> QED BY <1>1, <1>2, <1>3, <1>4, <1>5, <1>6, <1>7, <1>8, <1>9, <1>10,
             <1>11, <1>12, <1>13, <1>14 DEF Continue

LEMMA TokenizeKeepsInv ==
  ASSUME VaultInv, TypeOK', NEW p \in Procs, Tokenize(p)
  PROVE  VaultInv'
  <1>1. PICK c : TokenizeExisting(p, c) \/ TokenizeNew(p, c)
      BY DEF Tokenize
  <1>2. CASE TokenizeExisting(p, c)
    <2>1. IssuedInTable'
        BY <1>2, IssuedKept DEF TokenizeExisting, VaultInv
    <2>2. TableKept
        BY <1>2, UnchangedKept DEF TokenizeExisting
    <2> QED BY <1>2, <2>1, <2>2, IdleKeepsInv DEF TokenizeExisting
  <1>3. CASE TokenizeNew(p, c)
    <2>1. LockHeld'
        BY <1>3 DEF TokenizeNew, VaultInv, LockHeld, LockKey, Locked, TypeOK,
                    ThreadTypeOK
    <2>2. \A q \in Procs \ {p} : arg'[q] = arg[q]
        BY <1>3 DEF TokenizeNew, VaultInv, TypeOK, ThreadTypeOK
    <2> QED BY <1>3, <2>1, <2>2, AdvanceKeepsInv DEF TokenizeNew
  <1> QED BY <1>1, <1>2, <1>3

LEMMA DetokenizeKeepsInv ==
  ASSUME VaultInv, TypeOK', NEW p \in Procs, Detokenize(p)
  PROVE  VaultInv'
  <1>1. PICK c : ReadRow(p, c)
      BY DEF Detokenize
  <1>2. LockHeld'
      BY <1>1 DEF ReadRow, VaultInv, LockHeld, LockKey, Locked, TypeOK,
                  ThreadTypeOK
  <1>3. \A q \in Procs \ {p} : arg'[q] = arg[q]
      BY <1>1 DEF ReadRow, VaultInv, TypeOK, ThreadTypeOK
  <1> QED BY <1>1, <1>2, <1>3, AdvanceKeepsInv DEF ReadRow

(* Revocation changes the column revoked_at only.                          *)
LEMMA RevokedFields ==
  ASSUME TypeOK, NEW S, NEW i \in DOMAIN rows
  PROVE  /\ SameLabel(Revoked(S)[i], rows[i])
         /\ Revoked(S)[i].hash = rows[i].hash
         /\ Revoked(S)[i].cipher = rows[i].cipher
  <1>1. rows[i] \in Row
      BY DEF TypeOK, TableTypeOK
  <1>2. Revoked(S)[i] \in {rows[i], [rows[i] EXCEPT !.revoked = now]}
      BY DEF Revoked
  <1> QED BY <1>1, <1>2 DEF Row, SameLabel

LEMMA RevokeKeepsInv ==
  ASSUME VaultInv, TypeOK', NEW raw \in RawIds, RevokeSession(raw)
  PROVE  VaultInv'
  <1>1. TableKept
    <2>1. DOMAIN rows' = DOMAIN rows
        BY DEF RevokeSession, Revoked
    <2> QED BY <2>1, RevokedFields DEF RevokeSession, TableKept, VaultInv
  <1>2. IssuedInTable'
      BY <1>1, IssuedFromTable DEF VaultInv, RevokeSession
  <1> QED BY <1>1, <1>2, IdleKeepsInv DEF RevokeSession

LEMMA PurgeKeepsTable ==
  ASSUME TypeOK, PurgeExpired
  PROVE  TableKept
  <1> DEFINE S     == {i \in DOMAIN rows : rows[i].expires < now}
             gone  == {i \in DOMAIN rows :
                          /\ Revoked(S)[i].revoked # Live
                          /\ Revoked(S)[i].revoked < now - Grace}
  <1>1. /\ rows' = [i \in DOMAIN rows \ gone |-> Revoked(S)[i]]
        /\ erased' = erased \cup
               {<<rows[i].session, rows[i].etype>> : i \in gone}
      BY DEF PurgeExpired
  <1> HIDE DEF S, gone
  <1>2. \A i \in DOMAIN rows : /\ SameLabel(Revoked(S)[i], rows[i])
                               /\ Revoked(S)[i].hash = rows[i].hash
                               /\ Revoked(S)[i].cipher = rows[i].cipher
      BY RevokedFields
  <1> QED BY <1>1, <1>2 DEF TableKept

LEMMA PurgeKeepsInv ==
  ASSUME VaultInv, TypeOK', PurgeExpired
  PROVE  VaultInv'
  <1>1. TableKept
      BY PurgeKeepsTable DEF VaultInv
  <1>2. UNCHANGED <<lock, pc, arg, cnt, issued>>
      BY DEF PurgeExpired
  <1>3. IssuedInTable'
      BY <1>1, <1>2, IssuedFromTable DEF VaultInv
  <1> QED BY <1>1, <1>2, <1>3, IdleKeepsInv

LEMMA InitInv == Init => VaultInv
  BY InitTyped DEF Init, VaultInv, LockHeld, CountCurrent, NumberedOnce,
                   HashOfValue, IssuedInTable, OfSession, Locked

LEMMA NextInv == VaultInv /\ [Next]_vars => VaultInv'
  <1> SUFFICES ASSUME VaultInv, [Next]_vars PROVE VaultInv'
      OBVIOUS
  <1>1. TypeOK'
      BY NextTyped DEF VaultInv
  <1>2. CASE \E p \in Procs : Tokenize(p) \/ Detokenize(p) \/ Continue(p)
      BY <1>1, <1>2, TokenizeKeepsInv, DetokenizeKeepsInv, ContinueKeepsInv
  <1>3. CASE \E raw \in RawIds : RevokeSession(raw)
      BY <1>1, <1>3, RevokeKeepsInv
  <1>4. CASE PurgeExpired
      BY <1>1, <1>4, PurgeKeepsInv
  <1>5. CASE Tick \/ UNCHANGED vars
    <2>1. UNCHANGED <<rows, erased, issued, lock, pc, arg, cnt>>
        BY <1>5 DEF Tick, vars
    <2>2. TableKept
        BY <2>1, UnchangedKept
    <2>3. IssuedInTable'
        BY <2>1, <2>2, IssuedFromTable DEF VaultInv
    <2> QED BY <1>1, <2>1, <2>2, <2>3, IdleKeepsInv
  <1> QED BY <1>2, <1>3, <1>4, <1>5 DEF Next

(* The inductive invariant holds in every reachable state.                 *)
THEOREM InvariantHolds == Spec => []VaultInv
  <1> QED BY InitInv, NextInv, PTL DEF Spec

LEMMA UnambiguousFromInv == VaultInv => LabelsUnambiguous
  <1> SUFFICES ASSUME VaultInv, NEW i \in DOMAIN rows, NEW j \in DOMAIN rows,
                      SameLabel(rows[i], rows[j]),
                      Settled(rows[i].session, rows[i].etype)
               PROVE  i = j
      BY DEF LabelsUnambiguous
  <1> DEFINE u == rows[i].session
             t == rows[i].etype
  <1>1. u \in Uuids /\ t \in Types
      BY DEF VaultInv, TypeOK, TableTypeOK, Row
  <1>2. i \in OfSession(u, t) /\ j \in OfSession(u, t)
      BY DEF OfSession, SameLabel
  <1>3. rows[i].n = rows[j].n
      BY DEF SameLabel
  <1> QED BY <1>1, <1>2, <1>3 DEF VaultInv, NumberedOnce

(* In a settled session no two rows of the table, revoked ones included,   *)
(* carry one label, however many threads tokenize at once, fail, and race  *)
(* with revocation.                                                        *)
THEOREM LabelsAreUnambiguous == Spec => []LabelsUnambiguous
  <1> QED BY InvariantHolds, UnambiguousFromInv, PTL

LEMMA OneValueFromInv == VaultInv => LabelDenotesOneValue
  <1> SUFFICES ASSUME VaultInv, NEW a \in issued, NEW b \in issued,
                      SameLabel(a, b), Settled(a.session, a.etype)
               PROVE  a.value = b.value
      BY DEF LabelDenotesOneValue
  <1>1. PICK i \in DOMAIN rows : SameLabel(a, rows[i])
                                 /\ rows[i].cipher = a.value
      BY DEF VaultInv, IssuedInTable
  <1>2. PICK j \in DOMAIN rows : SameLabel(b, rows[j])
                                 /\ rows[j].cipher = b.value
      BY DEF VaultInv, IssuedInTable, SameLabel
  <1>3. i = j
      BY <1>1, <1>2, UnambiguousFromInv DEF LabelsUnambiguous, SameLabel
  <1> QED BY <1>1, <1>2, <1>3

(* tokenize never gives one label of a settled session to two values.      *)
THEOREM LabelsDenoteOneValue == Spec => []LabelDenotesOneValue
  <1> QED BY InvariantHolds, OneValueFromInv, PTL

-----------------------------------------------------------------------------
(* One live label per value is inductive by itself: the insertion tests    *)
(* the index and commits in one step.                                      *)
LEMMA InsertKeepsOneLive ==
  ASSUME TypeOK, OneLiveLabelPerValue, NEW p \in Procs, pc[p] = "insert",
         ActiveWithHash(arg[p]) = {}, rows' = WithRow(nextId, NewRow(p))
  PROVE  OneLiveLabelPerValue'
  <1> SUFFICES ASSUME NEW i \in DOMAIN rows', NEW j \in DOMAIN rows',
                      rows'[i].revoked = Live, rows'[j].revoked = Live,
                      rows'[i].session = rows'[j].session,
                      rows'[i].hash = rows'[j].hash
               PROVE  i = j
      BY DEF OneLiveLabelPerValue
  <1>1. /\ DOMAIN rows' = DOMAIN rows \cup {nextId}
        /\ rows'[nextId] = NewRow(p)
        /\ \A k \in DOMAIN rows : rows'[k] = rows[k]
      BY InsertCounts
  <1>2. \A k \in DOMAIN rows :
            ~ (/\ rows[k].revoked = Live
               /\ rows[k].session = NewRow(p).session
               /\ rows[k].hash = NewRow(p).hash)
      BY DEF ActiveWithHash, NewRow
  <1> QED BY <1>1, <1>2 DEF OneLiveLabelPerValue

(* The first statement of a call inserts nothing and hands nothing out.    *)
LEMMA CallBegins ==
  ASSUME NEW p \in Procs, Tokenize(p) \/ Detokenize(p)
  PROVE  UNCHANGED <<rows, erased, restored, log>>
  <1>1. ASSUME NEW c, TokenizeExisting(p, c)
        PROVE  UNCHANGED <<rows, erased, restored, log>>
      BY <1>1 DEF TokenizeExisting
  <1>2. ASSUME NEW c, TokenizeNew(p, c)
        PROVE  UNCHANGED <<rows, erased, restored, log>>
      BY <1>2 DEF TokenizeNew
  <1>3. ASSUME NEW c, ReadRow(p, c)
        PROVE  UNCHANGED <<rows, erased, restored, log>>
      BY <1>3 DEF ReadRow
  <1>4. CASE Tokenize(p)
      BY <1>1, <1>2, <1>4, Zenon DEF Tokenize
  <1>5. CASE Detokenize(p)
      BY <1>3, <1>5, Zenon DEF Detokenize
  <1> QED BY <1>4, <1>5

LEMMA NextOneLive ==
  ASSUME TypeOK, OneLiveLabelPerValue, [Next]_vars
  PROVE  OneLiveLabelPerValue'
  <1>1. CASE rows' = rows
      BY <1>1 DEF OneLiveLabelPerValue
  <1>2. ASSUME NEW p \in Procs, InsertRow(p) \/ InsertUnacknowledged(p)
        PROVE  OneLiveLabelPerValue'
      BY <1>2, InsertKeepsOneLive DEF InsertRow, InsertUnacknowledged
  <1>3. ASSUME NEW S, DOMAIN rows' \subseteq DOMAIN rows,
               \A i \in DOMAIN rows' : rows'[i] = Revoked(S)[i]
        PROVE  OneLiveLabelPerValue'
    <2>1. \A i \in DOMAIN rows : Revoked(S)[i].revoked = Live =>
              Revoked(S)[i] = rows[i]
        BY DEF Revoked, TypeOK, TableTypeOK, Row, Live
    <2> QED BY <1>3, <2>1 DEF OneLiveLabelPerValue
  <1>4. ASSUME NEW raw \in RawIds, RevokeSession(raw)
        PROVE  OneLiveLabelPerValue'
    <2>1. DOMAIN rows' = DOMAIN rows
        BY <1>4 DEF RevokeSession, Revoked
    <2> QED BY <1>3, <1>4, <2>1 DEF RevokeSession
  <1>5. CASE PurgeExpired
    <2> DEFINE S == {i \in DOMAIN rows : rows[i].expires < now}
    <2>1. PICK D \in SUBSET DOMAIN rows : rows' = [i \in D |-> Revoked(S)[i]]
        BY <1>5 DEF PurgeExpired
    <2> HIDE DEF S
    <2> QED BY <1>3, <2>1
  <1>6. ASSUME NEW p \in Procs, Tokenize(p) \/ Detokenize(p)
        PROVE  rows' = rows
      BY <1>6, CallBegins
  <1>7. ASSUME NEW p \in Procs, Continue(p)
        PROVE  rows' = rows \/ InsertRow(p) \/ InsertUnacknowledged(p)
      BY <1>7 DEF Continue, AcquireLock, CountRows, InsertConflict, Reselect,
                  ReselectVanished, TokenizeFails, LogAccess, CommitAccess,
                  Deny, Grant, DetokenizeFails, LogUnacknowledged
  <1>8. Tick \/ UNCHANGED vars => rows' = rows
      BY DEF Tick, vars
  <1> QED BY <1>1, <1>2, <1>4, <1>5, <1>6, <1>7, <1>8 DEF Next

(* However many threads race to insert a value, a session has at most one  *)
(* active row for it.                                                      *)
THEOREM LiveLabelsAreUnique == Spec => []OneLiveLabelPerValue
  <1>1. Init => OneLiveLabelPerValue
      BY DEF Init, OneLiveLabelPerValue
  <1>2. TypeOK /\ OneLiveLabelPerValue /\ [Next]_vars => OneLiveLabelPerValue'
      BY NextOneLive
  <1> QED BY <1>1, <1>2, TypeCorrect, PTL DEF Spec

-----------------------------------------------------------------------------
(* Rows of a session that is still settled after a step are still there    *)
(* after it, under the same number and with the same value.                *)
LEMMA RowsPersist ==
  ASSUME TypeOK, [Next]_vars, NEW u, NEW t, Settled(u, t)'
  PROVE  /\ Settled(u, t)
         /\ \A i \in OfSession(u, t) : /\ i \in OfSession(u, t)'
                                       /\ rows'[i].n = rows[i].n
                                       /\ rows'[i].cipher = rows[i].cipher
  <1> DEFINE Goal == /\ Settled(u, t)
                     /\ \A i \in OfSession(u, t) :
                            /\ i \in OfSession(u, t)'
                            /\ rows'[i].n = rows[i].n
                            /\ rows'[i].cipher = rows[i].cipher
  <1>1. ASSUME TableKept PROVE Goal
    <2>1. Settled(u, t) /\ OfSession(u, t)' = OfSession(u, t)
        BY <1>1, KeptCounts
    <2> QED BY <1>1, <2>1 DEF TableKept, OfSession, SameLabel
  <1>2. ASSUME UNCHANGED <<rows, erased>> PROVE Goal
      BY <1>1, <1>2, UnchangedKept
  <1>3. ASSUME NEW p \in Procs, InsertRow(p) \/ InsertUnacknowledged(p)
        PROVE  Goal
    <2>1. /\ pc[p] = "insert" /\ erased' = erased
          /\ rows' = WithRow(nextId, NewRow(p))
        BY <1>3 DEF InsertRow, InsertUnacknowledged
    <2>2. /\ DOMAIN rows' = DOMAIN rows \cup {nextId}
          /\ \A i \in DOMAIN rows : rows'[i] = rows[i]
        BY <2>1, InsertCounts
    <2>3. Settled(u, t)
        BY <2>1 DEF Settled, Unshared
    <2> QED BY <2>2, <2>3 DEF OfSession
  <1>4. ASSUME NEW p \in Procs, Continue(p)
        PROVE  \/ UNCHANGED <<rows, erased>>
               \/ InsertRow(p) \/ InsertUnacknowledged(p)
      BY <1>4 DEF Continue, AcquireLock, CountRows, InsertConflict, Reselect,
                  ReselectVanished, TokenizeFails, LogAccess, CommitAccess,
                  Deny, Grant, DetokenizeFails, LogUnacknowledged
  <1>5. ASSUME NEW p \in Procs, Tokenize(p) \/ Detokenize(p)
        PROVE  UNCHANGED <<rows, erased>>
      BY <1>5, CallBegins
  <1>6. ASSUME NEW raw \in RawIds, RevokeSession(raw) PROVE TableKept
    <2>1. DOMAIN rows' = DOMAIN rows
        BY <1>6 DEF RevokeSession, Revoked
    <2> QED BY <1>6, <2>1, RevokedFields DEF RevokeSession, TableKept
  <1>7. ASSUME PurgeExpired PROVE TableKept
      BY <1>7, PurgeKeepsTable
  <1>8. Tick \/ UNCHANGED vars => UNCHANGED <<rows, erased>>
      BY DEF Tick, vars
  <1> QED BY <1>1, <1>2, <1>3, <1>4, <1>5, <1>6, <1>7, <1>8 DEF Next

LEMMA NextFound ==
  ASSUME TypeOK, FoundInTable, [Next]_vars
  PROVE  FoundInTable'
  <1> SUFFICES ASSUME NEW q \in Procs, NEW u \in Uuids, NEW t \in Types,
                      pc'[q] \in Restoring, found'[q] # None,
                      u = Uuid[arg'[q].raw], t = arg'[q].etype, Settled(u, t)'
               PROVE  \E i \in OfSession(u, t)' :
                         /\ rows'[i].n = arg'[q].n
                         /\ rows'[i].cipher = found'[q].cipher
      BY DEF FoundInTable
  <1> DEFINE Same == /\ pc[q] \in Restoring /\ arg'[q] = arg[q]
                     /\ found'[q] = found[q]
  <1>1. CASE Same
      BY <1>1, RowsPersist DEF FoundInTable
  <1>2. ASSUME NEW p \in Procs, NEW c, ReadRow(p, c)
        PROVE  \/ Same
               \/ \E i \in OfSession(u, t)' :
                         /\ rows'[i].n = arg'[q].n
                         /\ rows'[i].cipher = found'[q].cipher
    <2>1. CASE p # q
        BY <1>2, <2>1 DEF ReadRow, TypeOK, ThreadTypeOK
    <2>2. CASE p = q
      <3>1. arg'[q] = c /\ rows' = rows
          BY <1>2, <2>2 DEF ReadRow, TypeOK, ThreadTypeOK
      <3>2. PICK i \in ActiveWithLabel(c) : found'[q].cipher = rows[i].cipher
          BY <1>2, <2>2 DEF ReadRow, TypeOK, ThreadTypeOK
      <3>3. /\ i \in DOMAIN rows /\ rows[i].session = Uuid[c.raw]
            /\ rows[i].etype = c.etype /\ rows[i].n = c.n
          BY <3>2 DEF ActiveWithLabel
      <3>4. i \in OfSession(u, t)'
          BY <3>1, <3>3 DEF OfSession
      <3>5. rows'[i].n = arg'[q].n /\ rows'[i].cipher = found'[q].cipher
          BY <3>1, <3>2, <3>3
      <3> QED BY <3>4, <3>5
    <2> QED BY <2>1, <2>2
  <1>3. ASSUME NEW p \in Procs, NEW c, TokenizeExisting(p, c) \/ TokenizeNew(p, c)
        PROVE  Same
      BY <1>3 DEF TokenizeExisting, TokenizeNew, TypeOK, ThreadTypeOK,
                  Restoring
  <1>4. ASSUME NEW p \in Procs, Finish(p) PROVE Same
      BY <1>4 DEF Finish, TypeOK, ThreadTypeOK, Restoring
  <1>5. ASSUME NEW p \in Procs,
               \/ AcquireLock(p) \/ CountRows(p) \/ InsertConflict(p)
               \/ LogAccess(p) \/ CommitAccess(p)
        PROVE  Same
      BY <1>5 DEF AcquireLock, CountRows, InsertConflict, LogAccess,
                  CommitAccess, TypeOK, ThreadTypeOK, Restoring
  <1>6. ASSUME NEW p \in Procs, Continue(p) PROVE Same
      BY <1>4, <1>5, <1>6
      DEF Continue, InsertRow, InsertUnacknowledged, Reselect, TokenizeFails,
          ReselectVanished, Deny, Grant, DetokenizeFails, LogUnacknowledged
  <1>7. ASSUME \/ \E raw \in RawIds : RevokeSession(raw)
               \/ PurgeExpired \/ Tick \/ UNCHANGED vars
        PROVE  Same
      BY <1>7 DEF RevokeSession, PurgeExpired, Tick, vars
  <1> QED BY <1>1, <1>2, <1>3, <1>6, <1>7 DEF Next, Tokenize, Detokenize

(* A value is handed out by the return of a detokenize and by nothing else.*)
LEMMA RestoredStep ==
  ASSUME [Next]_vars
  PROVE  restored' = restored \/ \E p \in Procs : Grant(p)
  <1>1. ASSUME NEW p \in Procs, Continue(p)
        PROVE  restored' = restored \/ Grant(p)
      BY <1>1 DEF Continue, AcquireLock, CountRows, InsertRow,
                  InsertUnacknowledged, InsertConflict, Reselect,
                  ReselectVanished, TokenizeFails, LogAccess, CommitAccess,
                  Deny, Grant, DetokenizeFails, LogUnacknowledged
  <1>2. ASSUME NEW p \in Procs, Tokenize(p) \/ Detokenize(p)
        PROVE  restored' = restored
      BY <1>2, CallBegins
  <1>3. ASSUME \/ \E raw \in RawIds : RevokeSession(raw)
               \/ PurgeExpired \/ Tick \/ UNCHANGED vars
        PROVE  restored' = restored
      BY <1>3 DEF RevokeSession, PurgeExpired, Tick, vars
  <1> QED BY <1>1, <1>2, <1>3 DEF Next

LEMMA NextRestored ==
  ASSUME TypeOK, FoundInTable, RestoredInTable, [Next]_vars
  PROVE  RestoredInTable'
  <1>1. \A h \in restored :
           /\ h.session \in Uuids /\ h.etype \in Types
           /\ Settled(h.session, h.etype)' =>
                \E i \in OfSession(h.session, h.etype)' :
                    rows'[i].n = h.n /\ rows'[i].cipher = h.value
      BY RowsPersist DEF RestoredInTable
  <1>2. CASE restored' = restored
      BY <1>1, <1>2 DEF RestoredInTable
  <1>3. ASSUME NEW p \in Procs, Grant(p) PROVE RestoredInTable'
    <2>1. /\ pc[p] \in Restoring /\ found[p] # None /\ arg[p] \in DetokenizeArgs
          /\ restored' = restored \cup {Restoration(p)}
          /\ UNCHANGED <<rows, erased>>
        BY <1>3 DEF Grant, Verdict, DeniedReason, TypeOK, ThreadTypeOK,
                    Restoring
    <2> DEFINE u == Uuid[arg[p].raw]
               t == arg[p].etype
               h == Restoration(p)
    <2>2. u \in Uuids /\ t \in Types
        BY <2>1, UuidAssumption DEF DetokenizeArgs
    <2>3. h.session = u /\ h.etype = t /\ h.n = arg[p].n
          /\ h.value = found[p].cipher
        BY DEF Restoration
    <2>4. Settled(u, t) => \E i \in OfSession(u, t) :
              rows[i].n = h.n /\ rows[i].cipher = h.value
        BY <2>1, <2>2, <2>3 DEF FoundInTable
    <2> HIDE DEF h, u, t
    <2>5. \A g \in restored' :
           /\ g.session \in Uuids /\ g.etype \in Types
           /\ Settled(g.session, g.etype) =>
                \E i \in OfSession(g.session, g.etype) :
                    rows[i].n = g.n /\ rows[i].cipher = g.value
        BY <2>1, <2>2, <2>3, <2>4 DEF RestoredInTable, h
    <2>6. \A g \in restored' :
           /\ g.session \in Uuids /\ g.etype \in Types
           /\ Settled(g.session, g.etype)' =>
                \E i \in OfSession(g.session, g.etype)' :
                    rows'[i].n = g.n /\ rows'[i].cipher = g.value
        BY <2>1, <2>5, RowsPersist
    <2> QED BY <2>6 DEF RestoredInTable
  <1> QED BY <1>2, <1>3, RestoredStep

LEMMA FaithfulFromInv ==
  ASSUME VaultInv, RestoreInv
  PROVE  RestoresTheTokenizedValue
  <1> SUFFICES ASSUME NEW h \in restored, NEW b \in issued, SameLabel(h, b),
                      Settled(h.session, h.etype)
               PROVE  h.value = b.value
      BY DEF RestoresTheTokenizedValue
  <1>1. PICK i \in OfSession(h.session, h.etype) :
             rows[i].n = h.n /\ rows[i].cipher = h.value
      BY DEF RestoreInv, RestoredInTable
  <1>2. PICK j \in DOMAIN rows : SameLabel(b, rows[j])
                                 /\ rows[j].cipher = b.value
      BY DEF VaultInv, IssuedInTable, SameLabel
  <1>3. i \in DOMAIN rows /\ SameLabel(rows[i], rows[j])
      BY <1>1, <1>2 DEF OfSession, SameLabel
  <1>4. Settled(rows[i].session, rows[i].etype)
      BY <1>1 DEF OfSession
  <1> QED BY <1>1, <1>2, <1>3, <1>4, UnambiguousFromInv DEF LabelsUnambiguous

(* detokenize gives back, for a label of a settled session, the value that *)
(* tokenize was given when it returned that label.                         *)
THEOREM RestorationIsFaithful == Spec => []RestoresTheTokenizedValue
  <1>1. Init => RestoreInv
      BY DEF Init, RestoreInv, FoundInTable, RestoredInTable
  <1>2. TypeOK /\ RestoreInv /\ [Next]_vars => RestoreInv'
      BY NextFound, NextRestored DEF RestoreInv
  <1>3. Spec => []RestoreInv
      BY <1>1, <1>2, TypeCorrect, PTL DEF Spec
  <1> QED BY <1>3, InvariantHolds, FaithfulFromInv, PTL

-----------------------------------------------------------------------------
(* The access log is a sequence of typed rows, appended to and never       *)
(* rewritten.                                                              *)
LogRow == [token : Nat, session : Uuids, etype : Types, n : Nat,
           role : Roles \cup {None}, purpose : Purposes \cup {None},
           reason : {"granted", "unknown_or_revoked", "expired",
                     "role_not_in_scope", "purpose_not_in_scope"},
           attempt : Nat]
LogTyped == log \in Seq(LogRow)

(* The invariant behind the audit: a call that has come to its return, with *)
(* no failure on the way, finds the row of its attempt committed.          *)
Logged ==
    \A p \in Procs :
        pc[p] = "return" => \E k \in DOMAIN log : log[k] = Attempt(p)
AuditInv == LogTyped /\ Logged /\ RestorationsAudited

(* The row a detokenize writes has the types of the columns.               *)
LEMMA LogRowTyped ==
  ASSUME TypeOK, NEW p \in Procs, pc[p] = "commit"
  PROVE  Attempt(p) \in LogRow
  <1>1. arg[p] \in DetokenizeArgs /\ found[p] \in FoundRow \cup {None}
      BY DEF TypeOK, ThreadTypeOK, Restoring
  <1>2. Uuid[arg[p].raw] \in Uuids
      BY <1>1, UuidAssumption DEF DetokenizeArgs
  <1>3. (IF found[p] = None THEN NilId ELSE found[p].id) \in Nat
      BY <1>1 DEF FoundRow, NilId
  <1>4. Verdict(p) \in {"granted", "unknown_or_revoked", "expired",
                       "role_not_in_scope", "purpose_not_in_scope"}
      BY DEF Verdict, DeniedReason
  <1> QED BY <1>1, <1>2, <1>3, <1>4
          DEF Attempt, AccessLogRow, LogRow, DetokenizeArgs

(* A step leaves the log alone or commits the row of one attempt.          *)
LEMMA LogStep ==
  ASSUME [Next]_vars
  PROVE  \/ UNCHANGED log
         \/ \E p \in Procs : /\ pc[p] = "commit"
                             /\ log' = Append(log, Attempt(p))
  <1>1. ASSUME NEW p \in Procs, Continue(p)
        PROVE  UNCHANGED log \/ CommitAccess(p) \/ LogUnacknowledged(p)
      BY <1>1 DEF Continue, AcquireLock, CountRows, InsertRow,
                  InsertUnacknowledged, InsertConflict, Reselect,
                  ReselectVanished, TokenizeFails, LogAccess, Deny, Grant,
                  DetokenizeFails
  <1>2. ASSUME NEW p \in Procs, Tokenize(p) \/ Detokenize(p)
        PROVE  UNCHANGED log
      BY <1>2, CallBegins
  <1>3. ASSUME \/ \E raw \in RawIds : RevokeSession(raw)
               \/ PurgeExpired \/ Tick \/ UNCHANGED vars
        PROVE  UNCHANGED log
      BY <1>3 DEF RevokeSession, PurgeExpired, Tick, vars
  <1>4. ASSUME NEW p \in Procs, CommitAccess(p) \/ LogUnacknowledged(p)
        PROVE  pc[p] = "commit" /\ log' = Append(log, Attempt(p))
      BY <1>4 DEF CommitAccess, LogUnacknowledged
  <1> QED BY <1>1, <1>2, <1>3, <1>4 DEF Next

LEMMA RowAppended ==
  ASSUME LogTyped, NEW row \in LogRow, log' = Append(log, row)
  PROVE  /\ LogTyped'
         /\ \A k \in DOMAIN log : k \in DOMAIN log' /\ log'[k] = log[k]
         /\ Len(log) + 1 \in DOMAIN log' /\ log'[Len(log) + 1] = row
  <1>1. log \in Seq(LogRow)
      BY DEF LogTyped
  <1>2. /\ log' \in Seq(LogRow)
        /\ Len(log') = Len(log) + 1 /\ log'[Len(log) + 1] = row
        /\ \A k \in 1 .. Len(log) : log'[k] = log[k]
      BY <1>1, AppendProperties
  <1>3. /\ DOMAIN log = 1 .. Len(log) /\ DOMAIN log' = 1 .. Len(log')
        /\ Len(log) \in Nat
      BY <1>1, <1>2, LenProperties
  <1> QED BY <1>2, <1>3 DEF LogTyped

(* What is in the log stays in it.                                         *)
LEMMA LogGrows ==
  ASSUME TypeOK, LogTyped, [Next]_vars
  PROVE  /\ LogTyped'
         /\ \A k \in DOMAIN log : k \in DOMAIN log' /\ log'[k] = log[k]
  <1>1. CASE UNCHANGED log
      BY <1>1 DEF LogTyped
  <1>2. ASSUME NEW p \in Procs, pc[p] = "commit",
               log' = Append(log, Attempt(p))
        PROVE  /\ LogTyped'
               /\ \A k \in DOMAIN log : k \in DOMAIN log' /\ log'[k] = log[k]
    <2>1. Attempt(p) \in LogRow
        BY <1>2, LogRowTyped
    <2> QED BY <1>2, <2>1, RowAppended
  <1> QED BY <1>1, <1>2, LogStep

(* A call comes to its return by its commit, or was there before.          *)
LEMMA ReturnStep ==
  ASSUME TypeOK, [Next]_vars, NEW q \in Procs, pc'[q] = "return"
  PROVE  /\ arg'[q] = arg[q] /\ found'[q] = found[q]
         /\ pc[q] = "return" \/ CommitAccess(q)
  <1> DEFINE Goal == /\ arg'[q] = arg[q] /\ found'[q] = found[q]
                     /\ pc[q] = "return" \/ CommitAccess(q)
  <1>1. ASSUME NEW p \in Procs, Finish(p) PROVE Goal
      BY <1>1 DEF Finish, TypeOK, ThreadTypeOK
  <1>2. ASSUME NEW p \in Procs,
               \/ AcquireLock(p) \/ CountRows(p) \/ InsertConflict(p)
               \/ LogAccess(p)
        PROVE  Goal
      BY <1>2 DEF AcquireLock, CountRows, InsertConflict, LogAccess, TypeOK,
                  ThreadTypeOK
  <1>3. ASSUME NEW p \in Procs, CommitAccess(p) PROVE Goal
    <2>1. /\ arg' = arg /\ found' = found
          /\ pc' = [pc EXCEPT ![p] = "return"]
        BY <1>3 DEF CommitAccess
    <2>2. CASE p = q
        BY <1>3, <2>1, <2>2
    <2>3. CASE p # q
        BY <2>1, <2>3 DEF TypeOK, ThreadTypeOK
    <2> QED BY <2>2, <2>3
  <1>4. ASSUME NEW p \in Procs, Continue(p) PROVE Goal
      BY <1>1, <1>2, <1>3, <1>4
      DEF Continue, InsertRow, InsertUnacknowledged, Reselect, TokenizeFails,
          ReselectVanished, Deny, Grant, DetokenizeFails, LogUnacknowledged
  <1>5. ASSUME NEW p \in Procs, NEW c,
               TokenizeExisting(p, c) \/ TokenizeNew(p, c) \/ ReadRow(p, c)
        PROVE  Goal
      BY <1>5 DEF TokenizeExisting, TokenizeNew, ReadRow, TypeOK, ThreadTypeOK
  <1>6. ASSUME \/ \E raw \in RawIds : RevokeSession(raw)
               \/ PurgeExpired \/ Tick \/ UNCHANGED vars
        PROVE  Goal
      BY <1>6 DEF RevokeSession, PurgeExpired, Tick, vars
  <1> QED BY <1>4, <1>5, <1>6 DEF Next, Tokenize, Detokenize

LEMMA NextLogged ==
  ASSUME TypeOK, LogTyped, Logged, [Next]_vars
  PROVE  Logged'
  <1> SUFFICES ASSUME NEW q \in Procs, pc'[q] = "return"
               PROVE  \E k \in DOMAIN log' : log'[k] = Attempt(q)'
      BY DEF Logged
  <1>1. pc[q] = "return" \/ CommitAccess(q)
      BY ReturnStep
  <1>2. Attempt(q)' = Attempt(q)
      BY ReturnStep DEF Attempt, Verdict
  <1>3. CASE pc[q] = "return"
      BY <1>2, <1>3, LogGrows DEF Logged
  <1>4. CASE CommitAccess(q)
    <2>1. pc[q] = "commit" /\ log' = Append(log, Attempt(q))
        BY <1>4 DEF CommitAccess
    <2>2. Attempt(q) \in LogRow
        BY <2>1, LogRowTyped
    <2> QED BY <1>2, <2>1, <2>2, RowAppended
  <1> QED BY <1>1, <1>3, <1>4

(* The row of a granted verdict answers for the value handed out with it.  *)
LEMMA GrantedRowAnswers ==
  ASSUME NEW p \in Procs, Verdict(p) = "granted"
  PROVE  LET row == Attempt(p)
             h   == Restoration(p)
         IN  /\ row.attempt = h.attempt /\ row.reason = "granted"
             /\ row.token = h.token
             /\ row.role = h.role /\ row.purpose = h.purpose
             /\ SameLabel(row, h)
  <1>1. found[p] # None
      BY DEF Verdict, DeniedReason
  <1> QED BY <1>1 DEF Attempt, AccessLogRow, Restoration, SameLabel

LEMMA NextAudited ==
  ASSUME TypeOK, AuditInv, [Next]_vars
  PROVE  RestorationsAudited'
  <1> SUFFICES ASSUME NEW h \in restored'
               PROVE  \E k \in DOMAIN log' :
                         /\ log'[k].attempt = h.attempt
                         /\ log'[k].reason = "granted"
                         /\ log'[k].token = h.token
                         /\ log'[k].role = h.role
                         /\ log'[k].purpose = h.purpose
                         /\ SameLabel(log'[k], h)
      BY DEF RestorationsAudited
  <1>1. \A k \in DOMAIN log : k \in DOMAIN log' /\ log'[k] = log[k]
      BY LogGrows DEF AuditInv
  <1>2. CASE h \in restored
      BY <1>1, <1>2 DEF AuditInv, RestorationsAudited
  <1>3. CASE h \notin restored
    <2>1. PICK p \in Procs : Grant(p)
        BY <1>3, RestoredStep
    <2>2. /\ pc[p] = "return" /\ Verdict(p) = "granted"
          /\ h = Restoration(p)
        BY <1>3, <2>1 DEF Grant
    <2>3. PICK k \in DOMAIN log : log[k] = Attempt(p)
        BY <2>2 DEF AuditInv, Logged
    <2> QED BY <1>1, <2>2, <2>3, GrantedRowAnswers
  <1> QED BY <1>2, <1>3

(* Every value a detokenize handed out left a committed, granted row of    *)
(* its own in the access log, for the same token, label, role and purpose, *)
(* whatever insertion or commit failed: no call comes to its return but    *)
(* through its own commit.                                                 *)
THEOREM RestorationsAreAudited == Spec => []RestorationsAudited
  <1>1. Init => AuditInv
      BY DEF Init, AuditInv, LogTyped, Logged, RestorationsAudited
  <1>2. TypeOK /\ AuditInv /\ [Next]_vars => AuditInv'
      BY LogGrows, NextLogged, NextAudited DEF AuditInv
  <1>3. AuditInv => RestorationsAudited
      BY DEF AuditInv
  <1> QED BY <1>1, <1>2, <1>3, TypeCorrect, PTL DEF Spec

(***************************************************************************)
(* A revoked label stays dead, and the vault implements the registry.      *)
(***************************************************************************)

(* A step inserts one row of a caller, leaves the rows alone, or leaves    *)
(* fewer of them, of which those it leaves active were active before.      *)
Inserts(p) ==
    /\ InsertRow(p) \/ InsertUnacknowledged(p)
    /\ pc[p] = "insert" /\ ActiveWithHash(arg[p]) = {}
    /\ rows' = WithRow(nextId, NewRow(p)) /\ nextId' = nextId + 1
    /\ Finish(p) /\ erased' = erased

Weeds ==
    /\ DOMAIN rows' \subseteq DOMAIN rows
    /\ \A i \in DOMAIN rows' : rows'[i].revoked = Live => rows'[i] = rows[i]
    /\ \A i \in DOMAIN rows \ DOMAIN rows' : rows[i].revoked # Live
    /\ UNCHANGED issued

LEMMA RevokedActive ==
  ASSUME TypeOK, NEW S, NEW i \in DOMAIN rows
  PROVE  /\ Revoked(S)[i].revoked = Live => Revoked(S)[i] = rows[i]
         /\ rows[i].revoked = Live => Revoked(S)[i].revoked \in {Live, now}
  BY DEF Revoked, TypeOK, TableTypeOK, Row, Live

LEMMA RevokeWeeds ==
  ASSUME TypeOK, NEW raw \in RawIds, RevokeSession(raw)
  PROVE  /\ TableKept /\ Weeds /\ DOMAIN rows' = DOMAIN rows
         /\ erased' = erased
  <1>1. DOMAIN rows' = DOMAIN rows
      BY DEF RevokeSession, Revoked
  <1>2. TableKept
      BY <1>1, RevokedFields DEF RevokeSession, TableKept
  <1>3. Weeds
      BY <1>1, RevokedActive DEF RevokeSession, Weeds
  <1> QED BY <1>1, <1>2, <1>3 DEF RevokeSession

(* purge_expired deletes no row that was active: what it revokes itself is *)
(* younger than the grace period.                                          *)
LEMMA PurgeWeeds ==
  ASSUME TypeOK, PurgeExpired
  PROVE  TableKept /\ Weeds
  <1> DEFINE S     == {i \in DOMAIN rows : rows[i].expires < now}
             swept == Revoked(S)
             gone  == {i \in DOMAIN rows : /\ swept[i].revoked # Live
                                           /\ swept[i].revoked < now - Grace}
  <1>1. /\ rows' = [i \in DOMAIN rows \ gone |-> swept[i]]
        /\ issued' = issued
      BY DEF PurgeExpired
  <1>2. \A i \in DOMAIN rows :
           /\ swept[i].revoked = Live => swept[i] = rows[i]
           /\ rows[i].revoked = Live => swept[i].revoked \in {Live, now}
      BY RevokedActive
  <1>3. ~ (now < now - Grace)
      BY BoundsAssumption DEF TypeOK, TableTypeOK
  <1> HIDE DEF swept
  <1>4. Weeds
      BY <1>1, <1>2, <1>3 DEF Weeds
  <1> QED BY <1>4, PurgeKeepsTable

(* Every step is of one of four kinds, as the table and the callers see    *)
(* it.                                                                     *)
LEMMA StepKinds ==
  ASSUME TypeOK, [Next]_vars
  PROVE  \/ UNCHANGED <<rows, issued, erased>>
         \/ \E p \in Procs : Inserts(p)
         \/ /\ UNCHANGED <<rows, erased>>
            /\ \E c : \E i \in DOMAIN rows :
                   /\ i \in ActiveWithHash(c)
                   /\ issued' = issued \cup {Issue(i, c.value)}
         \/ TableKept /\ Weeds
  <1>1. ASSUME NEW p \in Procs, Continue(p)
        PROVE  \/ UNCHANGED <<rows, issued, erased>>
               \/ InsertRow(p) \/ InsertUnacknowledged(p) \/ Reselect(p)
      BY <1>1 DEF Continue, AcquireLock, CountRows, InsertConflict,
                  ReselectVanished, TokenizeFails, LogAccess, CommitAccess,
                  Deny, Grant, DetokenizeFails, LogUnacknowledged
  <1>2. ASSUME NEW p \in Procs, InsertRow(p) \/ InsertUnacknowledged(p)
        PROVE  Inserts(p)
      BY <1>2 DEF Inserts, InsertRow, InsertUnacknowledged
  <1>3. ASSUME NEW p \in Procs, Reselect(p)
        PROVE  /\ UNCHANGED <<rows, erased>>
               /\ \E c : \E i \in DOMAIN rows :
                      /\ i \in ActiveWithHash(c)
                      /\ issued' = issued \cup {Issue(i, c.value)}
      BY <1>3 DEF Reselect, ActiveWithHash
  <1>4. ASSUME NEW p \in Procs, NEW c, TokenizeExisting(p, c)
        PROVE  /\ UNCHANGED <<rows, erased>>
               /\ \E d : \E i \in DOMAIN rows :
                      /\ i \in ActiveWithHash(d)
                      /\ issued' = issued \cup {Issue(i, d.value)}
      BY <1>4 DEF TokenizeExisting, ActiveWithHash
  <1>5. ASSUME NEW p \in Procs, NEW c, TokenizeNew(p, c) \/ ReadRow(p, c)
        PROVE  UNCHANGED <<rows, issued, erased>>
      BY <1>5 DEF TokenizeNew, ReadRow
  <1>6. ASSUME NEW p \in Procs, Tokenize(p) \/ Detokenize(p)
        PROVE  \E c : TokenizeExisting(p, c) \/ TokenizeNew(p, c)
                      \/ ReadRow(p, c)
      BY <1>6 DEF Tokenize, Detokenize
  <1>7. Tick \/ UNCHANGED vars => UNCHANGED <<rows, issued, erased>>
      BY DEF Tick, vars
  <1> QED BY <1>1, <1>2, <1>3, <1>4, <1>5, <1>6, <1>7, RevokeWeeds,
             PurgeWeeds DEF Next

-----------------------------------------------------------------------------
(* The number of a row about to be inserted is greater than that of every  *)
(* row of its session and type, revoked ones included.                     *)
LEMMA NumberFresh ==
  ASSUME VaultInv, NEW p \in Procs, pc[p] = "insert",
         Settled(Uuid[arg[p].raw], arg[p].etype)
  PROVE  \A i \in OfSession(Uuid[arg[p].raw], arg[p].etype) :
             rows[i].n # NewRow(p).n
  <1> DEFINE u == Uuid[arg[p].raw]
             t == arg[p].etype
  <1>1. u \in Uuids /\ t \in Types
      BY UuidAssumption
      DEF VaultInv, TypeOK, ThreadTypeOK, Tokenizing, TokenizeArgs
  <1>2. cnt[p] = Cardinality(OfSession(u, t)) /\ cnt[p] \in Nat
      BY <1>1 DEF VaultInv, CountCurrent, TypeOK, ThreadTypeOK
  <1>3. \A i \in OfSession(u, t) : rows[i].n \in Nat /\ rows[i].n <= cnt[p]
      BY <1>1, <1>2
      DEF VaultInv, NumberedOnce, TypeOK, TableTypeOK, Row, OfSession
  <1> QED BY <1>2, <1>3 DEF NewRow

LEMMA StepKeepsDead ==
  ASSUME VaultInv, [Next]_vars,
         NEW i \in DOMAIN rows, NEW j \in DOMAIN rows',
         rows[i].revoked # Live, rows'[j].revoked = Live,
         SameLabel(rows[i], rows'[j]),
         Settled(rows[i].session, rows[i].etype)
  PROVE  FALSE
  <1>1. ASSUME j \in DOMAIN rows, rows'[j] = rows[j] PROVE FALSE
    <2>1. i = j
        BY <1>1, UnambiguousFromInv DEF LabelsUnambiguous
    <2> QED BY <1>1, <2>1
  <1>2. ASSUME NEW p \in Procs, Inserts(p) PROVE FALSE
    <2>1. /\ pc[p] = "insert"
          /\ DOMAIN rows' = DOMAIN rows \cup {nextId}
          /\ rows'[nextId] = NewRow(p)
          /\ \A k \in DOMAIN rows : rows'[k] = rows[k]
        BY <1>2, InsertCounts DEF Inserts, VaultInv
    <2>2. rows'[j] = NewRow(p)
        BY <1>1, <2>1
    <2>3. i \in OfSession(Uuid[arg[p].raw], arg[p].etype)
        BY <2>2 DEF SameLabel, NewRow, OfSession
    <2>4. Settled(Uuid[arg[p].raw], arg[p].etype)
        BY <2>3 DEF OfSession
    <2>5. rows[i].n # NewRow(p).n
        BY <2>1, <2>3, <2>4, NumberFresh
    <2> QED BY <2>2, <2>5 DEF SameLabel
  <1>3. CASE rows' = rows
      BY <1>1, <1>3
  <1>4. CASE Weeds
      BY <1>1, <1>4 DEF Weeds
  <1> QED BY <1>2, <1>3, <1>4, StepKinds DEF VaultInv

(* No step puts an active row under a label of a settled session whose row *)
(* was revoked: what has been taken back never answers a detokenize again. *)
THEOREM RevokedStayDead == Spec => RevokedLabelsStayDead
  <1>1. VaultInv /\ [Next]_vars =>
            [\A i \in DOMAIN rows, j \in DOMAIN rows' :
                (/\ rows[i].revoked # Live
                 /\ rows'[j].revoked = Live
                 /\ SameLabel(rows[i], rows'[j]))
                    => ~Settled(rows[i].session, rows[i].etype)]_vars
      BY StepKeepsDead
  <1> QED BY <1>1, InvariantHolds, PTL DEF Spec, RevokedLabelsStayDead

-----------------------------------------------------------------------------
(* The bound MaxRows holds up no call that has begun: there is a row left  *)
(* for each call in flight, so that every number is within the bound.      *)
InFlight == {q \in Procs : pc[q] \in Tokenizing}
RoomInv ==
    /\ nextId + Cardinality(InFlight) <= MaxRows + 1
    /\ \A p \in Procs : pc[p] = "insert" => cnt[p] <= nextId - 1
    /\ \A i \in DOMAIN rows : rows[i].n <= MaxRows

LEMMA InFlightFinite ==
  /\ IsFiniteSet(InFlight) /\ Cardinality(InFlight) \in Nat
  /\ IsFiniteSet(InFlight') /\ Cardinality(InFlight') \in Nat
  <1>1. InFlight \subseteq Procs /\ InFlight' \subseteq Procs
      BY DEF InFlight
  <1>2. IsFiniteSet(InFlight) /\ IsFiniteSet(InFlight')
      BY <1>1, ProcsAssumption, FS_Subset
  <1> QED BY <1>2, FS_CardinalityType

(* A thread that ends a tokenize gives its room back.                      *)
LEMMA RoomGivenBack ==
  ASSUME TypeOK, NEW p \in Procs, pc[p] \in Tokenizing, Finish(p)
  PROVE  Cardinality(InFlight') = Cardinality(InFlight) - 1
  <1>1. p \in InFlight /\ InFlight' = InFlight \ {p}
      BY DEF InFlight, Finish, TypeOK, ThreadTypeOK, Tokenizing
  <1>2. Cardinality(InFlight \ {p}) = Cardinality(InFlight) - 1
      BY <1>1, InFlightFinite, FS_RemoveElement
  <1> QED BY <1>1, <1>2

(* count( * ) never exceeds the number of rows ever inserted.              *)
LEMMA CountBounded ==
  ASSUME TypeOK, NEW u, NEW t
  PROVE  Cardinality(OfSession(u, t)) <= nextId - 1
  <1>1. OfSession(u, t) \subseteq 1 .. nextId - 1
      BY DEF OfSession, TypeOK, TableTypeOK
  <1>2. 1 \in Int /\ nextId - 1 \in Int /\ nextId - 1 >= 0
      BY DEF TypeOK, TableTypeOK
  <1>3. /\ IsFiniteSet(1 .. nextId - 1)
        /\ Cardinality(1 .. nextId - 1) =
               IF 1 > nextId - 1 THEN 0 ELSE (nextId - 1) - 1 + 1
      BY <1>2, FS_Interval
  <1>4. Cardinality(OfSession(u, t)) <= Cardinality(1 .. nextId - 1)
      BY <1>1, <1>3, FS_Subset
  <1> QED BY <1>2, <1>3, <1>4, OfSessionFinite

(* A step that begins no call and inserts no row.                          *)
LEMMA RoomKept ==
  ASSUME TypeOK, RoomInv, TableKept, nextId' = nextId,
         Cardinality(InFlight') <= Cardinality(InFlight),
         \A q \in Procs : pc'[q] = "insert" =>
             \/ pc[q] = "insert" /\ cnt'[q] = cnt[q]
             \/ cnt'[q] <= nextId - 1
  PROVE  RoomInv'
  <1>1. nextId' + Cardinality(InFlight') <= MaxRows + 1
      BY InFlightFinite, BoundsAssumption DEF RoomInv, TypeOK, TableTypeOK
  <1>2. \A i \in DOMAIN rows' : rows'[i].n <= MaxRows
      BY DEF RoomInv, TableKept, SameLabel
  <1>3. \A q \in Procs : pc'[q] = "insert" => cnt'[q] <= nextId' - 1
      BY DEF RoomInv
  <1> QED BY <1>1, <1>2, <1>3 DEF RoomInv

LEMMA RoomAfterInsert ==
  ASSUME TypeOK, RoomInv, NEW p \in Procs, Inserts(p)
  PROVE  RoomInv'
  <1>1. /\ pc[p] = "insert" /\ Finish(p) /\ nextId' = nextId + 1
        /\ nextId \in Nat /\ cnt[p] \in Nat
      BY DEF Inserts, TypeOK, TableTypeOK, ThreadTypeOK
  <1>2. Cardinality(InFlight') = Cardinality(InFlight) - 1
      BY <1>1, RoomGivenBack DEF Tokenizing
  <1>3. nextId' + Cardinality(InFlight') <= MaxRows + 1
      BY <1>1, <1>2, InFlightFinite, BoundsAssumption DEF RoomInv
  <1>4. nextId <= MaxRows
      BY <1>1, <1>2, InFlightFinite, BoundsAssumption DEF RoomInv
  <1>5. NewRow(p).n <= MaxRows
      BY <1>1, <1>4, BoundsAssumption DEF RoomInv, NewRow
  <1>6. \A i \in DOMAIN rows' : rows'[i].n <= MaxRows
      BY <1>1, <1>5, InsertCounts DEF Inserts, RoomInv
  <1>7. ASSUME NEW q \in Procs, pc'[q] = "insert"
        PROVE  cnt'[q] <= nextId' - 1
    <2>1. pc[q] = "insert" /\ cnt'[q] = cnt[q] /\ cnt[q] \in Nat
        BY <1>1, <1>7 DEF Finish, TypeOK, ThreadTypeOK
    <2> QED BY <1>1, <2>1 DEF RoomInv
  <1> QED BY <1>3, <1>6, <1>7 DEF RoomInv

LEMMA RoomAfterTokenizeNew ==
  ASSUME TypeOK, RoomInv, NEW p \in Procs, NEW c, TokenizeNew(p, c)
  PROVE  RoomInv'
  <1>1. p \notin InFlight /\ InFlight' = InFlight \cup {p}
      BY DEF TokenizeNew, InFlight, TypeOK, ThreadTypeOK, Tokenizing
  <1>2. Cardinality(InFlight') = Cardinality(InFlight) + 1
      BY <1>1, InFlightFinite, FS_AddElement
  <1>3. nextId' + Cardinality(InFlight') <= MaxRows + 1
      BY <1>2, InFlightFinite, BoundsAssumption
      DEF TokenizeNew, RoomForRow, InFlight, TypeOK, TableTypeOK
  <1>4. \A q \in Procs : pc'[q] = "insert" => cnt'[q] <= nextId' - 1
      BY DEF TokenizeNew, RoomInv, TypeOK, ThreadTypeOK
  <1> QED BY <1>3, <1>4 DEF RoomInv, TokenizeNew

LEMMA RoomAfterContinue ==
  ASSUME TypeOK, RoomInv, NEW p \in Procs, Continue(p)
  PROVE  RoomInv'
  <1>1. CASE InsertRow(p) \/ InsertUnacknowledged(p)
      BY <1>1, RoomAfterInsert DEF InsertRow, InsertUnacknowledged, Inserts
  <1>2. CASE AcquireLock(p) \/ InsertConflict(p)
    <2>1. InFlight' = InFlight
        BY <1>2 DEF AcquireLock, InsertConflict, InFlight, TypeOK,
                    ThreadTypeOK, Tokenizing
    <2>2. \A q \in Procs : pc'[q] = "insert" =>
              pc[q] = "insert" /\ cnt'[q] = cnt[q]
        BY <1>2 DEF AcquireLock, InsertConflict, TypeOK, ThreadTypeOK
    <2> QED BY <1>2, <2>1, <2>2, RoomKept, UnchangedKept, InFlightFinite
            DEF AcquireLock, InsertConflict
  <1>3. CASE CountRows(p)
    <2>1. InFlight' = InFlight
        BY <1>3 DEF CountRows, InFlight, TypeOK, ThreadTypeOK, Tokenizing
    <2>2. cnt'[p] <= nextId - 1
        BY <1>3, CountBounded DEF CountRows, TypeOK, ThreadTypeOK
    <2>3. \A q \in Procs \ {p} : pc'[q] = "insert" =>
              pc[q] = "insert" /\ cnt'[q] = cnt[q]
        BY <1>3 DEF CountRows, TypeOK, ThreadTypeOK
    <2> QED BY <1>3, <2>1, <2>2, <2>3, RoomKept, UnchangedKept,
               InFlightFinite DEF CountRows
  <1>4. ASSUME Finish(p), UNCHANGED <<rows, nextId, erased>>,
               pc[p] \in Tokenizing \cup Restoring
        PROVE  RoomInv'
    <2>1. Cardinality(InFlight') <= Cardinality(InFlight)
      <3>1. CASE pc[p] \in Tokenizing
          BY <1>4, <3>1, RoomGivenBack, InFlightFinite
      <3>2. CASE pc[p] \in Restoring
        <4>1. InFlight' = InFlight
            BY <1>4, <3>2 DEF Finish, InFlight, TypeOK, ThreadTypeOK,
                              Tokenizing, Restoring
        <4> QED BY <4>1, InFlightFinite
      <3> QED BY <1>4, <3>1, <3>2
    <2>2. \A q \in Procs : pc'[q] = "insert" =>
              pc[q] = "insert" /\ cnt'[q] = cnt[q]
        BY <1>4 DEF Finish, TypeOK, ThreadTypeOK
    <2> QED BY <1>4, <2>1, <2>2, RoomKept, UnchangedKept
  <1>5. CASE Reselect(p) \/ ReselectVanished(p) \/ TokenizeFails(p)
      BY <1>4, <1>5 DEF Reselect, ReselectVanished, TokenizeFails, Tokenizing
  <1>6. CASE Deny(p) \/ Grant(p) \/ DetokenizeFails(p) \/ LogUnacknowledged(p)
      BY <1>4, <1>6 DEF Deny, Grant, DetokenizeFails, LogUnacknowledged,
                        Restoring
  <1>7. CASE LogAccess(p) \/ CommitAccess(p)
    <2>1. InFlight' = InFlight
        BY <1>7 DEF LogAccess, CommitAccess, InFlight, TypeOK, ThreadTypeOK,
                    Tokenizing
    <2>2. \A q \in Procs : pc'[q] = "insert" =>
              pc[q] = "insert" /\ cnt'[q] = cnt[q]
        BY <1>7 DEF LogAccess, CommitAccess, TypeOK, ThreadTypeOK
    <2> QED BY <1>7, <2>1, <2>2, RoomKept, UnchangedKept, InFlightFinite
            DEF LogAccess, CommitAccess
  <1> QED BY <1>1, <1>2, <1>3, <1>5, <1>6, <1>7 DEF Continue

LEMMA NextRoom ==
  ASSUME TypeOK, RoomInv, [Next]_vars
  PROVE  RoomInv'
  <1>1. ASSUME NEW p \in Procs, Tokenize(p) \/ Detokenize(p)
        PROVE  RoomInv'
    <2>1. PICK c : TokenizeExisting(p, c) \/ TokenizeNew(p, c) \/ ReadRow(p, c)
        BY <1>1 DEF Tokenize, Detokenize
    <2>2. CASE TokenizeExisting(p, c)
        BY <2>2 DEF TokenizeExisting, RoomInv, InFlight
    <2>3. CASE TokenizeNew(p, c)
        BY <2>3, RoomAfterTokenizeNew
    <2>4. CASE ReadRow(p, c)
      <3>1. InFlight' = InFlight
          BY <2>4 DEF ReadRow, InFlight, TypeOK, ThreadTypeOK, Tokenizing
      <3>2. \A q \in Procs : pc'[q] = "insert" =>
                pc[q] = "insert" /\ cnt'[q] = cnt[q]
          BY <2>4 DEF ReadRow, TypeOK, ThreadTypeOK
      <3> QED BY <2>4, <3>1, <3>2, RoomKept, UnchangedKept, InFlightFinite
              DEF ReadRow
    <2> QED BY <2>1, <2>2, <2>3, <2>4
  <1>2. ASSUME NEW p \in Procs, Continue(p) PROVE RoomInv'
      BY <1>2, RoomAfterContinue
  <1>3. ASSUME TableKept, UNCHANGED <<nextId, pc, cnt>> PROVE RoomInv'
      BY <1>3, RoomKept, InFlightFinite DEF InFlight
  <1>4. ASSUME NEW raw \in RawIds, RevokeSession(raw) PROVE RoomInv'
      BY <1>3, <1>4, RevokeWeeds DEF RevokeSession
  <1>5. CASE PurgeExpired
      BY <1>3, <1>5, PurgeWeeds DEF PurgeExpired
  <1>6. CASE Tick \/ UNCHANGED vars
      BY <1>3, <1>6, UnchangedKept DEF Tick, vars
  <1> QED BY <1>1, <1>2, <1>4, <1>5, <1>6 DEF Next

-----------------------------------------------------------------------------
(* The hash of a row is that of a raw id of its session.  When no two raw  *)
(* ids share a UUID, the hash thus tells two values of a session apart     *)
(* and nothing else, which is what the registry's live labels rest on.     *)
NobodyShares == \A r, s \in RawIds : Uuid[r] = Uuid[s] => r = s

HashOfSession == \A i \in DOMAIN rows : Uuid[rows[i].hash[1]] = rows[i].session

LEMMA NextHashOfSession ==
  ASSUME TypeOK, HashOfSession, [Next]_vars
  PROVE  HashOfSession'
  <1>1. CASE rows' = rows
      BY <1>1 DEF HashOfSession
  <1>2. CASE TableKept
      BY <1>2 DEF HashOfSession, TableKept, SameLabel
  <1>3. ASSUME NEW p \in Procs, Inserts(p) PROVE HashOfSession'
    <2>1. /\ DOMAIN rows' = DOMAIN rows \cup {nextId}
          /\ rows'[nextId] = NewRow(p)
          /\ \A i \in DOMAIN rows : rows'[i] = rows[i]
        BY <1>3, InsertCounts DEF Inserts
    <2>2. Uuid[NewRow(p).hash[1]] = NewRow(p).session
        BY DEF NewRow, Hash
    <2> QED BY <2>1, <2>2 DEF HashOfSession
  <1> QED BY <1>1, <1>2, <1>3, StepKinds

LEMMA HashTellsValuesApart ==
  ASSUME NobodyShares, TypeOK, HashOfValue, HashOfSession,
         NEW c \in TokenizeArgs, NEW i \in DOMAIN rows,
         rows[i].session = Uuid[c.raw], rows[i].etype = c.etype,
         rows[i].cipher = c.value
  PROVE  rows[i].hash = Hash(c)
  <1>1. rows[i].hash \in RawIds \X Types \X Values /\ c.raw \in RawIds
      BY DEF TypeOK, TableTypeOK, Row, TokenizeArgs
  <1>2. rows[i].hash[1] = c.raw
      BY <1>1 DEF HashOfSession, NobodyShares
  <1>3. rows[i].hash = <<rows[i].hash[1], rows[i].hash[2], rows[i].hash[3]>>
      BY <1>1
  <1> QED BY <1>2, <1>3 DEF HashOfValue, Hash

(* The registry's variables, as the vault represents them.                 *)
BindingOf(row) == [session |-> row.session, etype |-> row.etype,
                   n |-> row.n, value |-> row.cipher]
BoundBar == {Binding(i) : i \in DOMAIN rows}
LiveBar == {Binding(i) : i \in {j \in DOMAIN rows : rows[j].revoked = Live}}

LEMMA BindingTyped ==
  ASSUME TypeOK, RoomInv, NEW i \in DOMAIN rows
  PROVE  Binding(i) \in Registry!Binding
  <1>1. rows[i] \in Row /\ rows[i].n <= MaxRows
      BY DEF TypeOK, TableTypeOK, RoomInv
  <1>2. rows[i].n \in 1 .. MaxRows
      BY <1>1, BoundsAssumption DEF Row
  <1> QED BY <1>1, <1>2 DEF Binding, Issue, Registry!Binding, Row

(* An insertion is a Bind.                                                 *)
LEMMA InsertBinds ==
  ASSUME NobodyShares, VaultInv, RoomInv, RoomInv', TypeOK', HashOfSession,
         NEW p \in Procs, Inserts(p)
  PROVE  \E b \in Registry!Binding : Registry!Bind(b)
  <1> DEFINE b == [session |-> Uuid[arg[p].raw], etype |-> arg[p].etype,
                   n |-> cnt[p] + 1, value |-> arg[p].value]
  <1>1. /\ pc[p] = "insert" /\ erased' = erased
        /\ ActiveWithHash(arg[p]) = {}
        /\ issued' = issued \/ issued' = issued \cup {b}
      BY DEF Inserts, InsertRow, InsertUnacknowledged
  <1>2. /\ DOMAIN rows' = DOMAIN rows \cup {nextId}
        /\ nextId \notin DOMAIN rows
        /\ rows'[nextId] = NewRow(p)
        /\ \A i \in DOMAIN rows : rows'[i] = rows[i]
      BY InsertCounts DEF Inserts, VaultInv
  <1>3. BindingOf(rows'[nextId]) = b
      BY <1>2 DEF BindingOf, NewRow
  <1>4. \A i \in DOMAIN rows : BindingOf(rows'[i]) = Binding(i)
      BY <1>2 DEF BindingOf, Binding, Issue
  <1> HIDE DEF b
  <1>5. BoundBar' = BoundBar \cup {b}
    <2>1. BoundBar' = {BindingOf(rows'[i]) : i \in DOMAIN rows'}
        BY DEF BoundBar, Binding, Issue, BindingOf
    <2> QED BY <1>2, <1>3, <1>4, <2>1 DEF BoundBar
  <1>6. LiveBar' = LiveBar \cup {b}
    <2>1. rows'[nextId].revoked = Live
        BY <1>2 DEF NewRow
    <2>2. LiveBar' = {BindingOf(rows'[i]) :
                          i \in {j \in DOMAIN rows' : rows'[j].revoked = Live}}
        BY DEF LiveBar, Binding, Issue, BindingOf
    <2>3. {j \in DOMAIN rows' : rows'[j].revoked = Live}
             = {j \in DOMAIN rows : rows[j].revoked = Live} \cup {nextId}
        BY <1>2, <2>1
    <2> QED BY <1>3, <1>4, <2>2, <2>3 DEF LiveBar
  <1> USE DEF b
  <1>7. arg[p] \in TokenizeArgs
      BY <1>1, NewRowTyped DEF VaultInv
  <1>8. ~ \E a \in LiveBar : /\ a.session = b.session /\ a.etype = b.etype
                              /\ a.value = b.value
    <2> SUFFICES ASSUME NEW i \in DOMAIN rows, rows[i].revoked = Live,
                        rows[i].session = Uuid[arg[p].raw],
                        rows[i].etype = arg[p].etype,
                        rows[i].cipher = arg[p].value
                 PROVE  FALSE
        BY DEF LiveBar, Binding, Issue
    <2>1. rows[i].hash = Hash(arg[p])
        BY <1>7, HashTellsValuesApart DEF VaultInv
    <2> QED BY <1>1, <2>1 DEF ActiveWithHash
  <1>9. \/ {a \in BoundBar : /\ a.session = b.session
                             /\ a.etype = b.etype /\ a.n = b.n} = {}
        \/ <<b.session, b.etype>> \in erased
    <2> SUFFICES ASSUME <<b.session, b.etype>> \notin erased,
                        NEW i \in DOMAIN rows,
                        rows[i].session = Uuid[arg[p].raw],
                        rows[i].etype = arg[p].etype,
                        rows[i].n = cnt[p] + 1
                 PROVE  FALSE
        BY DEF BoundBar, Binding, Issue
    <2>1. Settled(Uuid[arg[p].raw], arg[p].etype)
        BY DEF Settled, Unshared, NobodyShares
    <2>2. i \in OfSession(Uuid[arg[p].raw], arg[p].etype)
        BY DEF OfSession
    <2>3. rows[i].n # NewRow(p).n
        BY <1>1, <2>1, <2>2, NumberFresh
    <2> QED BY <2>3 DEF NewRow
  <1>10. b \in Registry!Binding
    <2>1. nextId \in DOMAIN rows'
        BY <1>2
    <2>2. rows'[nextId] \in Row /\ rows'[nextId].n <= MaxRows
        BY <2>1 DEF TypeOK, TableTypeOK, RoomInv
    <2>3. rows'[nextId].n \in 1 .. MaxRows
        BY <2>2, BoundsAssumption DEF Row
    <2>4. BindingOf(rows'[nextId]) \in Registry!Binding
        BY <2>2, <2>3 DEF BindingOf, Registry!Binding, Row
    <2> QED BY <1>3, <2>4
  <1> HIDE DEF b
  <1>11. issued' \in {issued, issued \cup {b}}
      BY <1>1
  <1>12. ASSUME NEW d \in Registry!Binding, d = b
         PROVE  Registry!Bind(d)
      BY <1>1, <1>5, <1>6, <1>8, <1>9, <1>11, <1>12
      DEF Registry!Bind, Registry!Labelled, BoundBar, LiveBar
  <1> QED BY <1>10, <1>12

(* An answer read from an active row is a Tell.                            *)
LEMMA AnswerTells ==
  ASSUME VaultInv, RoomInv, NEW c, NEW i \in DOMAIN rows,
         i \in ActiveWithHash(c), UNCHANGED <<rows, erased>>,
         issued' = issued \cup {Issue(i, c.value)}
  PROVE  \E b \in Registry!Binding : Registry!Tell(b)
  <1>1. Issue(i, c.value) = Binding(i)
    <2>1. rows[i].cipher = c.value
        BY IssueFaithful DEF VaultInv, Issue
    <2> QED BY <2>1 DEF Binding
  <1>2. Binding(i) \in LiveBar
      BY DEF LiveBar, ActiveWithHash
  <1>3. UNCHANGED <<BoundBar, LiveBar>>
      BY DEF BoundBar, LiveBar, Binding, Issue
  <1>4. Registry!Tell(Binding(i))
      BY <1>1, <1>2, <1>3 DEF Registry!Tell, BoundBar, LiveBar
  <1>5. Binding(i) \in Registry!Binding
      BY BindingTyped DEF VaultInv
  <1> QED BY <1>4, <1>5

(* Revocation and purge retire bindings.                                   *)
LEMMA WeedingRetires ==
  ASSUME TypeOK, TypeOK', TableKept, Weeds
  PROVE  Registry!Retire
  <1>1. \A i \in DOMAIN rows' : i \in DOMAIN rows /\ Binding(i)' = Binding(i)
      BY DEF TableKept, SameLabel, Binding, Issue
  <1>2. BoundBar' \in SUBSET BoundBar
      BY <1>1 DEF BoundBar
  <1>3. LiveBar' \in SUBSET (LiveBar \cap BoundBar')
      BY <1>1 DEF LiveBar, BoundBar, Weeds
  <1>4. /\ erased' \in SUBSET (Uuids \X Types)
        /\ erased \subseteq erased'
      BY DEF TypeOK, HistoryTypeOK, TableKept
  <1>5. ASSUME NEW b \in BoundBar \ BoundBar'
        PROVE  b \notin LiveBar /\ <<b.session, b.etype>> \in erased'
    <2>1. \A i \in DOMAIN rows : Binding(i) = b => i \notin DOMAIN rows'
        BY <1>1, <1>5 DEF BoundBar
    <2>2. b \notin LiveBar
        BY <2>1 DEF LiveBar, Weeds
    <2>3. PICK i \in DOMAIN rows : Binding(i) = b
        BY <1>5 DEF BoundBar
    <2>4. <<rows[i].session, rows[i].etype>> \in erased'
        BY <2>1, <2>3 DEF TableKept
    <2>5. rows[i].session = b.session /\ rows[i].etype = b.etype
        BY <2>3 DEF Binding, Issue
    <2> QED BY <2>2, <2>4, <2>5
  <1> QED BY <1>2, <1>3, <1>4, <1>5
          DEF Registry!Retire, Weeds, BoundBar, LiveBar

LEMMA StepRefines ==
  ASSUME NobodyShares, VaultInv, RoomInv, RoomInv', TypeOK', HashOfSession,
         [Next]_vars
  PROVE  [Registry!Next]_<<BoundBar, LiveBar, issued, erased>>
  <1>1. CASE UNCHANGED <<rows, issued, erased>>
      BY <1>1 DEF BoundBar, LiveBar, Binding, Issue
  <1>2. ASSUME NEW p \in Procs, Inserts(p) PROVE Registry!Next
      BY <1>2, InsertBinds DEF Registry!Next
  <1>3. ASSUME NEW c, NEW i \in DOMAIN rows, i \in ActiveWithHash(c),
               UNCHANGED <<rows, erased>>,
               issued' = issued \cup {Issue(i, c.value)}
        PROVE  Registry!Next
      BY <1>3, AnswerTells DEF Registry!Next
  <1>4. ASSUME TableKept, Weeds PROVE Registry!Next
      BY <1>4, WeedingRetires DEF Registry!Next, VaultInv
  <1> QED BY <1>1, <1>2, <1>3, <1>4, StepKinds DEF VaultInv

LEMMA InitRefines == Init => Registry!Init
  BY DEF Init, Registry!Init, Binding

(* When no two raw session ids share a UUID, the vault, with its           *)
(* transactions, its lock, its races and its failures, implements the      *)
(* registry: labels are bound afresh, a value has one live label, callers  *)
(* are told live bindings only, and nothing but a purge makes a number     *)
(* available again.                                                        *)
THEOREM VaultImplementsRegistry ==
  ASSUME NobodyShares
  PROVE  Spec => ImplementsRegistry
  <1>1. Init => RoomInv /\ HashOfSession
    <2> SUFFICES ASSUME Init PROVE RoomInv /\ HashOfSession
        OBVIOUS
    <2>1. InFlight = {}
        BY DEF Init, InFlight, Tokenizing
    <2>2. Cardinality(InFlight) = 0
        BY <2>1, FS_EmptySet
    <2> QED BY <2>2, BoundsAssumption DEF Init, RoomInv, HashOfSession
  <1>2. TypeOK /\ RoomInv /\ HashOfSession /\ [Next]_vars
            => RoomInv' /\ HashOfSession'
      BY NextRoom, NextHashOfSession
  <1>3. Spec => [](RoomInv /\ HashOfSession)
      BY <1>1, <1>2, TypeCorrect, PTL DEF Spec
  <1>4. VaultInv /\ VaultInv' /\ RoomInv /\ RoomInv' /\ HashOfSession
        /\ [Next]_vars
            => [Registry!Next]_<<BoundBar, LiveBar, issued, erased>>
      BY StepRefines DEF VaultInv
  <1>5. [][Registry!Next]_<<BoundBar, LiveBar, issued, erased>> /\ Registry!Init
            => ImplementsRegistry
      BY PTL DEF ImplementsRegistry, Registry!Spec, BoundBar, LiveBar
  <1> QED BY <1>3, <1>4, <1>5, InitRefines, InvariantHolds, PTL DEF Spec
=============================================================================
