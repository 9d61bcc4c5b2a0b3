----------------------------- MODULE TokenVault -----------------------------
(***************************************************************************)
(* The reversible token vault (app/transform/vault.py) on the PostgreSQL   *)
(* table token_vault (db/schema.sql).                                      *)
(*                                                                         *)
(* tokenize runs as one READ COMMITTED transaction of several statements;  *)
(* every statement is an action of its own, because another worker thread  *)
(* may commit between two of them.  A row becomes visible, and the         *)
(* transaction's advisory lock is released, in the step that commits.      *)
(* detokenize is a SELECT, the INSERT of its access-log row, the commit    *)
(* and the return, each an action too.  revoke_session and purge_expired   *)
(* are single transactions.                                                *)
(*                                                                         *)
(* Data is abstracted as follows.  sha256(session | type | value) is the   *)
(* triple itself, cipher_value is the value, and a label "<PII:type:n>" is *)
(* the pair of its type and its number.                                    *)
(***************************************************************************)
EXTENDS Integers, FiniteSets, Sequences

CONSTANTS
    Procs,        \* worker threads (the gRPC server runs eight of them)
    RawIds,       \* session ids as the proxy sends them
    Uuids,        \* values of the UUID column
    Uuid,         \* coerce_session_uuid, as a function
    TypeNames,    \* entity types callers pass
    EntityTypes,  \* the white list ENTITY_TYPES
    Unknown,      \* the fallback type "UNKNOWN"
    Values,       \* original values
    Roles,        \* roles of the requesters
    Purposes,     \* purposes of the requests
    Wildcard,     \* the wildcard "*" of an access scope
    None,         \* Python's None and SQL's absent row
    Scopes,       \* access scopes callers pass
    Ttl,          \* vault_ttl_sec
    Grace,        \* "interval '1 day'" of purge_expired
    MaxTime,      \* bound on the clock
    MaxRows,      \* bound on the rows ever inserted
    MaxAttempts   \* bound on the detokenize calls

ASSUME ProcsAssumption == IsFiniteSet(Procs)
ASSUME UuidAssumption == Uuid \in [RawIds -> Uuids]
ASSUME BoundsAssumption ==
    /\ Ttl \in Nat /\ Grace \in Nat /\ MaxTime \in Nat
    /\ MaxRows \in Nat /\ MaxAttempts \in Nat
ASSUME ScopesAssumption ==
    Scopes \subseteq [roles : SUBSET (Roles \cup {Wildcard}),
                      purposes : SUBSET (Purposes \cup {Wildcard})]
ASSUME NoneAssumption == None \notin Procs \cup Roles \cup Purposes

VARIABLES
    rows,      \* token_vault: primary key -> row
    nextId,    \* the next fresh token_id
    now,       \* the database clock
    lock,      \* advisory locks: <<raw session id, type>> -> holder
    pc,        \* per thread, the next statement of its call
    arg,       \* per thread, the arguments of its call
    start,     \* per thread, now() of its transaction
    cnt,       \* per thread, the count(*) it read
    found,     \* per thread, the row its detokenize read
    log,       \* token_vault_access_log, its committed rows
    attempts,  \* history: detokenize calls begun
    issued,    \* history: labels tokenize returned, with the caller's value
    restored,  \* history: values detokenize returned
    erased     \* history: <<session, type>> of rows hard-deleted so far

vars == <<rows, nextId, now, lock, pc, arg, start, cnt, found, log,
          attempts, issued, restored, erased>>

-----------------------------------------------------------------------------
Types == EntityTypes \cup {Unknown}
Live == -1          \* revoked_at IS NULL
NilId == 0          \* _NIL_UUID

Normalize(name) == IF name \in EntityTypes THEN name ELSE Unknown

TokenizeArgs == [raw : RawIds, etype : Types, value : Values, scope : Scopes]
DetokenizeArgs == [raw : RawIds, etype : Types, n : Nat,
                   role : Roles \cup {None}, purpose : Purposes \cup {None},
                   attempt : Nat]
LockKeys == RawIds \X Types

Row == [session : Uuids, etype : Types, n : Nat \ {0}, cipher : Values,
        hash : RawIds \X Types \X Values, scope : Scopes,
        expires : Nat, revoked : Nat \cup {Live}]

FoundRow == [id : Nat \ {0}, cipher : Values, scope : Scopes,
             expired : BOOLEAN]

Hash(c) == <<c.raw, c.etype, c.value>>
LockKey(c) == <<c.raw, c.etype>>

(* Mutant: the revoked_at test of the SELECT by hash is missing.           *)
AnyWithHash(c) ==
    {i \in DOMAIN rows : /\ rows[i].session = Uuid[c.raw]
                         /\ rows[i].hash = Hash(c)}

(* The rows the partial indexes of the schema hold: not revoked.           *)
ActiveWithHash(c) ==
    {i \in DOMAIN rows : /\ rows[i].revoked = Live
                         /\ rows[i].session = Uuid[c.raw]
                         /\ rows[i].hash = Hash(c)}
(* Mutant: the SELECT by label compares the number only.                   *)
ActiveWithNumber(c) ==
    {i \in DOMAIN rows : /\ rows[i].revoked = Live
                         /\ rows[i].session = Uuid[c.raw]
                         /\ rows[i].n = c.n}
ActiveWithLabel(c) ==
    {i \in DOMAIN rows : /\ rows[i].revoked = Live
                         /\ rows[i].session = Uuid[c.raw]
                         /\ rows[i].etype = c.etype
                         /\ rows[i].n = c.n}
(* Mutant: the count leaves the revoked rows out.                          *)
ActiveOfSession(u, t) ==
    {i \in DOMAIN rows : /\ rows[i].session = u /\ rows[i].etype = t
                         /\ rows[i].revoked = Live}

(* What count( * ) counts: revoked rows too, deleted rows not.             *)
OfSession(u, t) ==
    {i \in DOMAIN rows : rows[i].session = u /\ rows[i].etype = t}

Issue(i, value) == [session |-> rows[i].session, etype |-> rows[i].etype,
                    n |-> rows[i].n, value |-> value]

(* _scope_allows: each axis holds the request or the wildcard.             *)
AxisAllows(axis, who) == Wildcard \in axis \/ (who # None /\ who \in axis)
DeniedReason(row, c) ==
    IF row = None THEN "unknown_or_revoked"
    ELSE IF row.expired THEN "expired"
    ELSE IF ~AxisAllows(row.scope.roles, c.role) THEN "role_not_in_scope"
    ELSE IF ~AxisAllows(row.scope.purposes, c.purpose)
         THEN "purpose_not_in_scope"
    ELSE "granted"

(* attempt, the number of the call that writes the row, is history.        *)
AccessLogRow(c, row, reason) ==
    [token |-> IF row = None THEN NilId ELSE row.id, session |-> Uuid[c.raw],
     etype |-> c.etype, n |-> c.n, role |-> c.role, purpose |-> c.purpose,
     reason |-> reason, attempt |-> c.attempt]

-----------------------------------------------------------------------------
Init ==
    /\ rows = [i \in {} |-> None]
    /\ nextId = 1
    /\ now = 0
    /\ lock = [k \in LockKeys |-> None]
    /\ pc = [p \in Procs |-> "idle"]
    /\ arg = [p \in Procs |-> None]
    /\ start = [p \in Procs |-> 0]
    /\ cnt = [p \in Procs |-> 0]
    /\ found = [p \in Procs |-> None]
    /\ log = <<>>
    /\ attempts = 0
    /\ issued = {}
    /\ restored = {}
    /\ erased = {}

Tokenizing == {"lock", "count", "insert", "reselect"}
Locked == {"count", "insert", "reselect"}
Restoring == {"decide", "commit", "return"}

(* The bound MaxRows counts the insertions in flight, so that no call that *)
(* has begun is ever held up by it.                                        *)
RoomForRow ==
    nextId + Cardinality({q \in Procs : pc[q] \in Tokenizing}) <= MaxRows

(* Mutant: the lock is not released at the end of the transaction.         *)
FinishHolding(p) ==
    /\ pc' = [pc EXCEPT ![p] = "idle"]
    /\ arg' = [arg EXCEPT ![p] = None]
    /\ start' = [start EXCEPT ![p] = 0]
    /\ cnt' = [cnt EXCEPT ![p] = 0]
    /\ found' = [found EXCEPT ![p] = None]
    /\ UNCHANGED lock

(* The call returns or raises: the thread forgets the call, and the end of *)
(* its transaction releases the advisory lock it holds.                    *)
Finish(p) ==
    /\ pc' = [pc EXCEPT ![p] = "idle"]
    /\ arg' = [arg EXCEPT ![p] = None]
    /\ start' = [start EXCEPT ![p] = 0]
    /\ cnt' = [cnt EXCEPT ![p] = 0]
    /\ found' = [found EXCEPT ![p] = None]
    /\ lock' = [k \in LockKeys |-> IF lock[k] = p THEN None ELSE lock[k]]

(* tokenize, the first SELECT finds an active row: its label is returned.  *)
TokenizeExisting(p, c) ==
    /\ pc[p] = "idle"
    /\ \E i \in ActiveWithHash(c) : issued' = issued \cup {Issue(i, c.value)}
    /\ UNCHANGED <<rows, nextId, now, lock, pc, arg, start, cnt, found, log,
                   attempts, restored, erased>>

(* tokenize, the first SELECT finds none: the transaction goes on.         *)
TokenizeNew(p, c) ==
    /\ pc[p] = "idle"
    /\ RoomForRow
    /\ ActiveWithHash(c) = {}
    /\ pc' = [pc EXCEPT ![p] = "lock"]
    /\ arg' = [arg EXCEPT ![p] = c]
    /\ start' = [start EXCEPT ![p] = now]
    /\ UNCHANGED <<rows, nextId, now, lock, cnt, found, log, attempts,
                   issued, restored, erased>>

(* Mutant: the advisory lock is not taken before the count.                *)
SkipLock(p) ==
    /\ pc[p] = "lock"
    /\ pc' = [pc EXCEPT ![p] = "count"]
    /\ UNCHANGED <<rows, nextId, now, lock, arg, start, cnt, found, log,
                   attempts, issued, restored, erased>>

(* pg_advisory_xact_lock on the raw session id and the type.               *)
AcquireLock(p) ==
    /\ pc[p] = "lock"
    /\ lock[LockKey(arg[p])] = None
    /\ lock' = [lock EXCEPT ![LockKey(arg[p])] = p]
    /\ pc' = [pc EXCEPT ![p] = "count"]
    /\ UNCHANGED <<rows, nextId, now, arg, start, cnt, found, log, attempts,
                   issued, restored, erased>>

CountRows(p) ==
    /\ pc[p] = "count"
    /\ cnt' = [cnt EXCEPT ![p] =
                  Cardinality(OfSession(Uuid[arg[p].raw], arg[p].etype))]
    /\ pc' = [pc EXCEPT ![p] = "insert"]
    /\ UNCHANGED <<rows, nextId, now, lock, arg, start, found, log, attempts,
                   issued, restored, erased>>

NewRow(p) ==
    [session |-> Uuid[arg[p].raw], etype |-> arg[p].etype, n |-> cnt[p] + 1,
     cipher |-> arg[p].value, hash |-> Hash(arg[p]), scope |-> arg[p].scope,
     expires |-> start[p] + Ttl, revoked |-> Live]

WithRow(i, row) ==
    [j \in DOMAIN rows \cup {i} |-> IF j = i THEN row ELSE rows[j]]

(* Mutant: the INSERT has no ON CONFLICT and the schema no unique index.   *)
InsertAnyway(p) ==
    /\ pc[p] = "insert"
    /\ rows' = WithRow(nextId, NewRow(p))
    /\ nextId' = nextId + 1
    /\ issued' = issued \cup
         {[session |-> Uuid[arg[p].raw], etype |-> arg[p].etype,
           n |-> cnt[p] + 1, value |-> arg[p].value]}
    /\ Finish(p)
    /\ UNCHANGED <<now, log, attempts, restored, erased>>

(* INSERT ... ON CONFLICT DO NOTHING inserts, and the commit succeeds.     *)
InsertRow(p) ==
    /\ pc[p] = "insert"
    /\ ActiveWithHash(arg[p]) = {}
    /\ rows' = WithRow(nextId, NewRow(p))
    /\ nextId' = nextId + 1
    /\ issued' = issued \cup
         {[session |-> Uuid[arg[p].raw], etype |-> arg[p].etype,
           n |-> cnt[p] + 1, value |-> arg[p].value]}
    /\ Finish(p)
    /\ UNCHANGED <<now, log, attempts, restored, erased>>

(* The same, but the answer to COMMIT is lost: the row is there, and the   *)
(* caller sees an exception.                                               *)
InsertUnacknowledged(p) ==
    /\ pc[p] = "insert"
    /\ ActiveWithHash(arg[p]) = {}
    /\ rows' = WithRow(nextId, NewRow(p))
    /\ nextId' = nextId + 1
    /\ Finish(p)
    /\ UNCHANGED <<now, log, attempts, issued, restored, erased>>

(* ON CONFLICT DO NOTHING: the same value was committed by another thread. *)
InsertConflict(p) ==
    /\ pc[p] = "insert"
    /\ ActiveWithHash(arg[p]) # {}
    /\ pc' = [pc EXCEPT ![p] = "reselect"]
    /\ UNCHANGED <<rows, nextId, now, lock, arg, start, cnt, found, log,
                   attempts, issued, restored, erased>>

(* The second SELECT: the winner's label.                                  *)
Reselect(p) ==
    /\ pc[p] = "reselect"
    /\ \E i \in ActiveWithHash(arg[p]) :
           issued' = issued \cup {Issue(i, arg[p].value)}
    /\ Finish(p)
    /\ UNCHANGED <<rows, nextId, now, log, attempts, restored, erased>>

(* The winner's row was revoked in between: existing[0] raises TypeError.  *)
ReselectVanished(p) ==
    /\ pc[p] = "reselect"
    /\ ActiveWithHash(arg[p]) = {}
    /\ Finish(p)
    /\ UNCHANGED <<rows, nextId, now, log, attempts, issued, restored, erased>>

(* Any statement of the transaction may raise (a lost connection, a        *)
(* missing key): it is rolled back and the exception reaches the caller.   *)
TokenizeFails(p) ==
    /\ pc[p] \in Tokenizing
    /\ Finish(p)
    /\ UNCHANGED <<rows, nextId, now, log, attempts, issued, restored, erased>>

-----------------------------------------------------------------------------
(* detokenize, the SELECT: any active row with the label may come first.   *)
ReadRow(p, c) ==
    /\ pc[p] = "idle"
    /\ attempts < MaxAttempts
    /\ attempts' = attempts + 1
    /\ pc' = [pc EXCEPT ![p] = "decide"]
    /\ arg' = [arg EXCEPT ![p] = c]
    /\ \/ /\ ActiveWithLabel(c) = {}
          /\ found' = [found EXCEPT ![p] = None]
       \/ \E i \in ActiveWithLabel(c) :
            found' = [found EXCEPT ![p] =
                        [id |-> i, cipher |-> rows[i].cipher,
                         scope |-> rows[i].scope,
                         expired |-> rows[i].expires <= now]]
    /\ UNCHANGED <<rows, nextId, now, lock, start, cnt, log, issued, restored,
                   erased>>

Verdict(p) == DeniedReason(found[p], arg[p])

Restoration(p) ==
    [token |-> found[p].id, session |-> Uuid[arg[p].raw],
     etype |-> arg[p].etype, n |-> arg[p].n, role |-> arg[p].role,
     purpose |-> arg[p].purpose, attempt |-> arg[p].attempt,
     value |-> found[p].cipher]

Attempt(p) == AccessLogRow(arg[p], found[p], Verdict(p))

(* The value is decrypted if it may be restored, and _log_access inserts   *)
(* the row of the attempt: nobody sees it before the commit.               *)
LogAccess(p) ==
    /\ pc[p] = "decide"
    /\ pc' = [pc EXCEPT ![p] = "commit"]
    /\ UNCHANGED <<rows, nextId, now, lock, arg, start, cnt, found, log,
                   attempts, issued, restored, erased>>

(* The end of the with block commits.                                      *)
CommitAccess(p) ==
    /\ pc[p] = "commit"
    /\ log' = Append(log, Attempt(p))
    /\ pc' = [pc EXCEPT ![p] = "return"]
    /\ UNCHANGED <<rows, nextId, now, lock, arg, start, cnt, found, attempts,
                   issued, restored, erased>>

(* Mutant: an attempt that could not be logged is answered all the same.   *)
LogFailureIgnored(p) ==
    /\ pc[p] \in {"decide", "commit"}
    /\ pc' = [pc EXCEPT ![p] = "return"]
    /\ UNCHANGED <<rows, nextId, now, lock, arg, start, cnt, found, log,
                   attempts, issued, restored, erased>>

(* Decryption, the INSERT or the COMMIT raises: the transaction is rolled  *)
(* back, with the log row if it was written, and None is returned.         *)
DetokenizeFails(p) ==
    /\ pc[p] \in {"decide", "commit"}
    /\ Finish(p)
    /\ UNCHANGED <<rows, nextId, now, log, attempts, issued, restored, erased>>

(* The log row is committed but the answer to COMMIT is lost: None.        *)
LogUnacknowledged(p) ==
    /\ pc[p] = "commit"
    /\ log' = Append(log, Attempt(p))
    /\ Finish(p)
    /\ UNCHANGED <<rows, nextId, now, attempts, issued, restored, erased>>

(* One of the four refusals: None, and the caller keeps the label.         *)
Deny(p) ==
    /\ pc[p] = "return"
    /\ Verdict(p) # "granted"
    /\ Finish(p)
    /\ UNCHANGED <<rows, nextId, now, log, attempts, issued, restored, erased>>

(* The value is returned.                                                  *)
Grant(p) ==
    /\ pc[p] = "return"
    /\ Verdict(p) = "granted"
    /\ restored' = restored \cup {Restoration(p)}
    /\ Finish(p)
    /\ UNCHANGED <<rows, nextId, now, log, attempts, issued, erased>>

-----------------------------------------------------------------------------
Revoked(S) ==
    [i \in DOMAIN rows |->
        IF i \in S /\ rows[i].revoked = Live
        THEN [rows[i] EXCEPT !.revoked = now] ELSE rows[i]]

(* revoke_session: every active row of the session, expired or not.        *)
RevokeSession(raw) ==
    /\ rows' = Revoked({i \in DOMAIN rows : rows[i].session = Uuid[raw]})
    /\ UNCHANGED <<nextId, now, lock, pc, arg, start, cnt, found, log,
                   attempts, issued, restored, erased>>

(* purge_expired: revoke what has expired, then delete what was revoked    *)
(* longer ago than the grace period.                                       *)
PurgeExpired ==
    LET swept == Revoked({i \in DOMAIN rows : rows[i].expires < now})
        gone  == {i \in DOMAIN rows : /\ swept[i].revoked # Live
                                      /\ swept[i].revoked < now - Grace}
    IN  /\ rows' = [i \in DOMAIN rows \ gone |-> swept[i]]
        /\ erased' = erased \cup
             {<<rows[i].session, rows[i].etype>> : i \in gone}
        /\ UNCHANGED <<nextId, now, lock, pc, arg, start, cnt, found, log,
                       attempts, issued, restored>>

Tick ==
    /\ now < MaxTime
    /\ now' = now + 1
    /\ UNCHANGED <<rows, nextId, lock, pc, arg, start, cnt, found, log,
                   attempts, issued, restored, erased>>

-----------------------------------------------------------------------------
Tokenize(p) ==
    \E raw \in RawIds, name \in TypeNames, value \in Values, scope \in Scopes :
        LET c == [raw |-> raw, etype |-> Normalize(name), value |-> value,
                  scope |-> scope]
        IN  TokenizeExisting(p, c) \/ TokenizeNew(p, c)

(* The labels asked for are those a client has been shown, or one more:    *)
(* an unknown label.                                                       *)
Detokenize(p) ==
    \E raw \in RawIds, t \in Types, n \in 1 .. MaxRows,
       role \in Roles \cup {None}, purpose \in Purposes \cup {None} :
        ReadRow(p, [raw |-> raw, etype |-> t, n |-> n, role |-> role,
                    purpose |-> purpose, attempt |-> attempts + 1])

Continue(p) ==
    \/ AcquireLock(p) \/ CountRows(p) \/ InsertRow(p)
    \/ InsertUnacknowledged(p) \/ InsertConflict(p) \/ Reselect(p)
    \/ ReselectVanished(p) \/ TokenizeFails(p)
    \/ LogAccess(p) \/ CommitAccess(p) \/ Deny(p) \/ Grant(p)
    \/ DetokenizeFails(p) \/ LogUnacknowledged(p)

Next ==
    \/ \E p \in Procs : Tokenize(p) \/ Detokenize(p) \/ Continue(p)
    \/ \E raw \in RawIds : RevokeSession(raw)
    \/ PurgeExpired
    \/ Tick

Spec == Init /\ [][Next]_vars

(* A thread that has begun a call goes on with it, and PostgreSQL grants a *)
(* contended lock in the order of its queue: a waiter is not passed over   *)
(* for ever.  The failures are not fair: nothing makes one happen.         *)
Answer(p) ==
    \/ CountRows(p) \/ InsertRow(p) \/ InsertConflict(p) \/ Reselect(p)
    \/ ReselectVanished(p) \/ LogAccess(p) \/ CommitAccess(p)
    \/ Deny(p) \/ Grant(p)
Fairness == \A p \in Procs : WF_vars(Answer(p)) /\ SF_vars(AcquireLock(p))
FairSpec == Spec /\ Fairness
-----------------------------------------------------------------------------
(* Type correctness: the columns, and what each statement of a call finds  *)
(* in its thread's local variables.                                        *)
TableTypeOK ==
    /\ rows \in [DOMAIN rows -> Row]
    /\ nextId \in Nat \ {0}
    /\ DOMAIN rows \subseteq 1 .. nextId - 1
    /\ now \in Nat
ThreadTypeOK ==
    /\ lock \in [LockKeys -> Procs \cup {None}]
    /\ pc \in [Procs -> Tokenizing \cup Restoring \cup {"idle"}]
    /\ arg \in [Procs -> TokenizeArgs \cup DetokenizeArgs \cup {None}]
    /\ \A p \in Procs : /\ pc[p] \in Tokenizing => arg[p] \in TokenizeArgs
                        /\ pc[p] \in Restoring => arg[p] \in DetokenizeArgs
    /\ start \in [Procs -> Nat]
    /\ cnt \in [Procs -> Nat]
    /\ found \in [Procs -> FoundRow \cup {None}]
HistoryTypeOK ==
    /\ attempts \in Nat
    /\ issued \subseteq [session : Uuids, etype : Types, n : Nat \ {0},
                         value : Values]
    /\ erased \subseteq Uuids \X Types
TypeOK == TableTypeOK /\ ThreadTypeOK /\ HistoryTypeOK

(* A session whose UUID no other raw id is mapped to, of whose rows of     *)
(* this type purge_expired has hard-deleted none.                          *)
Unshared(u) ==
    \A r, s \in RawIds : Uuid[r] = u /\ Uuid[s] = u => r = s
Settled(u, t) == Unshared(u) /\ <<u, t>> \notin erased

SameLabel(a, b) == a.session = b.session /\ a.etype = b.etype /\ a.n = b.n

(* The inductive invariant behind the label properties.  A thread in the   *)
(* counter section holds its lock; the count it read is still the number   *)
(* of rows when it inserts; the rows of a settled session and type are     *)
(* numbered without repetition up to their count; a row's hash is that of  *)
(* its value; and a label that was issued is still in the table.           *)
LockHeld ==
    \A p \in Procs : pc[p] \in Locked => lock[LockKey(arg[p])] = p
CountCurrent ==
    \A p \in Procs, u \in Uuids, t \in Types :
        (/\ pc[p] = "insert"
         /\ u = Uuid[arg[p].raw] /\ t = arg[p].etype
         /\ Settled(u, t)) => cnt[p] = Cardinality(OfSession(u, t))
NumberedOnce ==
    \A u \in Uuids, t \in Types :
        Settled(u, t) =>
            \A i, j \in OfSession(u, t) :
                /\ rows[i].n <= Cardinality(OfSession(u, t))
                /\ rows[i].n = rows[j].n => i = j
HashOfValue ==
    \A i \in DOMAIN rows :
        /\ rows[i].hash[2] = rows[i].etype
        /\ rows[i].hash[3] = rows[i].cipher
IssuedInTable ==
    \A b \in issued :
        Settled(b.session, b.etype) =>
            \E i \in DOMAIN rows : /\ SameLabel(b, rows[i])
                                   /\ rows[i].cipher = b.value
VaultInv ==
    /\ TypeOK /\ LockHeld /\ CountCurrent /\ NumberedOnce
    /\ HashOfValue /\ IssuedInTable

(* The invariant behind restoration: the row a detokenize read, and every  *)
(* value handed out, is still that of a row with the label asked for,      *)
(* revoked in the meantime or not, while the session is settled.           *)
FoundInTable ==
    \A p \in Procs, u \in Uuids, t \in Types :
        (/\ pc[p] \in Restoring /\ found[p] # None
         /\ u = Uuid[arg[p].raw] /\ t = arg[p].etype
         /\ Settled(u, t)) =>
            \E i \in OfSession(u, t) : /\ rows[i].n = arg[p].n
                                       /\ rows[i].cipher = found[p].cipher
RestoredInTable ==
    \A h \in restored :
        /\ h.session \in Uuids /\ h.etype \in Types
        /\ Settled(h.session, h.etype) =>
            \E i \in OfSession(h.session, h.etype) :
                rows[i].n = h.n /\ rows[i].cipher = h.value
RestoreInv == FoundInTable /\ RestoredInTable

(* vault.py:74, "the same value of a session always has the same label":   *)
(* at most one active row holds a value, whoever raced to insert it.       *)
OneLiveLabelPerValue ==
    \A i, j \in DOMAIN rows :
        (/\ rows[i].revoked = Live /\ rows[j].revoked = Live
         /\ rows[i].session = rows[j].session
         /\ rows[i].hash = rows[j].hash) => i = j

(* No two rows, revoked ones included, carry one label: the advisory lock  *)
(* and the count over revoked rows never give a number twice (vault.py:94  *)
(* to 105), in a settled session.  No index of the schema enforces it.     *)
LabelsUnambiguous ==
    \A i, j \in DOMAIN rows :
        SameLabel(rows[i], rows[j]) /\ Settled(rows[i].session, rows[i].etype)
            => i = j

(* A label stands for one value for ever: two callers that were given the  *)
(* same label in a settled session tokenized the same value, also when the *)
(* first row has been revoked since.                                       *)
LabelDenotesOneValue ==
    \A a, b \in issued :
        SameLabel(a, b) /\ Settled(a.session, a.etype) => a.value = b.value

(* detokenize gives back what was tokenized: a value restored for a label  *)
(* is the value some caller got that label for (vault.py:100, against the  *)
(* mis-restoration of old labels).                                         *)
RestoresTheTokenizedValue ==
    \A h \in restored, b \in issued :
        SameLabel(h, b) /\ Settled(h.session, h.etype) => h.value = b.value

(* Every value handed out left a committed row of its own in the access    *)
(* log, granted for the same token, role and purpose, whatever failed      *)
(* between the INSERT, the COMMIT and the return (vault.py:190-200).       *)
RestorationsAudited ==
    \A h \in restored :
        \E k \in DOMAIN log :
            /\ log[k].attempt = h.attempt /\ log[k].reason = "granted"
            /\ log[k].token = h.token
            /\ log[k].role = h.role /\ log[k].purpose = h.purpose
            /\ SameLabel(log[k], h)

(* A label whose row was revoked never becomes restorable again in a       *)
(* settled session: no step activates a row under it.                      *)
RevokedLabelsStayDead ==
    [][\A i \in DOMAIN rows, j \in DOMAIN rows' :
          (/\ rows[i].revoked # Live
           /\ rows'[j].revoked = Live
           /\ SameLabel(rows[i], rows'[j]))
              => ~Settled(rows[i].session, rows[i].etype)]_vars

(* Every call ends: no statement waits for ever, the contended lock        *)
(* included, whichever thread failed while it held it.                     *)
CallsEnd == \A p \in Procs : pc[p] # "idle" ~> pc[p] = "idle"

(* vault.py:100 as the comment states it, with no condition: "revoked      *)
(* included, so that a label number is not reused".                        *)
LabelsNeverReused ==
    \A a, b \in issued : SameLabel(a, b) => a.value = b.value

-----------------------------------------------------------------------------
(* The registry this vault implements when no two raw ids share a UUID:    *)
(* bound are the table's rows, live its active ones.                       *)
Binding(i) == Issue(i, rows[i].cipher)
Registry == INSTANCE LabelRegistry WITH
    Sessions <- Uuids, Numbers <- 1 .. MaxRows,
    bound <- {Binding(i) : i \in DOMAIN rows},
    live <- {Binding(i) : i \in {j \in DOMAIN rows : rows[j].revoked = Live}},
    told <- issued

(* The vault implements the registry of LabelRegistry.tla.                 *)
ImplementsRegistry == Registry!Spec
=============================================================================
