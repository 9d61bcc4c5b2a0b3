-------------------------- MODULE MultiturnSession --------------------------
(***************************************************************************)
(* The multi-turn context of sessions: the in-memory session store         *)
(* (app/context/store.py), the stages that use it (app/context/stage.py)   *)
(* and accumulate (app/context/accumulator.py), run by the worker threads  *)
(* of the gRPC server.                                                     *)
(*                                                                         *)
(* An input call loads the state of its session, or makes a new one,       *)
(* accumulates its turn, saves the state, reads the score, passes the      *)
(* policy, loads and saves again to remember its purpose, and tokenizes.   *)
(* An output call loads the state and reads the purpose.  The store hands  *)
(* out the state object itself: every thread that loaded it reads and      *)
(* writes the same heap object, and the store's lock covers the dictionary *)
(* operations only.  An action is one access to an object two threads may  *)
(* share, except that the scan and the scores read the records, and the    *)
(* stamps, in one action each: between two actions the interpreter may     *)
(* switch threads.                                                         *)
(*                                                                         *)
(* External to this module: the policy, which may block a turn, and the    *)
(* vault, of which only the live tokens of a session are kept.             *)
(***************************************************************************)
EXTENDS RiskScore

CONSTANTS
    Threads,      \* worker threads
    Sids,         \* session ids
    Inputs,       \* the turns explored: [spans, purpose], a sequence of
                  \* keys and what classify makes of the text
    Ttl,          \* session.ttl_seconds, in ticks of the clock
    TickSeconds,  \* seconds of one tick
    Settings,     \* the settings explored, see Setting
    None,         \* Python's None
    MaxCalls      \* bound on the calls

(* How a deployment uses the store: whether the calls of one session       *)
(* overlap freely ("any"), no two of its input calls do ("input"), or no   *)
(* two calls at all ("call"); whether start_sweeper has been called; and a *)
(* bound on the clock.                                                     *)
Setting ==
    [calls : {"any", "input", "call"}, sweeping : BOOLEAN, until : Nat]

ASSUME StoreAssumption ==
    /\ Ttl \in Nat \ {0} /\ TickSeconds \in Nat
    /\ MaxCalls \in Nat
    /\ Settings \subseteq Setting
    /\ None \notin Nat /\ None \notin Sids

VARIABLES
    setting,  \* the setting of this behaviour
    now,      \* the clock
    heap,     \* the SessionState objects ever made, in order
    states,   \* store._states: session id -> object, or None
    pc,       \* per thread, its next step
    loc,      \* per thread, its call and local variables
    swept,    \* objects the sweeper has popped and not yet reported
    tokens,   \* live tokens in the vault
    calls,    \* history: calls begun
    turns,    \* history: per session, turns accumulated since it expired
    purpose,  \* history: per session, purpose saved last since it expired
    mentions, \* history: per object, the turns' keys registered in it
    missed    \* history: objects whose on_expire hook failed

vars == <<setting, now, heap, states, pc, loc, swept, tokens, calls, turns, purpose,
          mentions, missed>>
history == <<turns, purpose, mentions, missed>>

-----------------------------------------------------------------------------
(* The dictionary of a state's entities: the EntityRecord objects ever made *)
(* for it, in order, and under each key the number of the one it holds.    *)
NoEntities == [index |-> [k \in {} |-> 0], records |-> <<>>]
Record(key, turn) == [key |-> key, last |-> turn, count |-> 1]
Inserted(es, key, turn) ==
    [index |-> [k \in DOMAIN es.index \cup {key} |->
                   IF k = key THEN Len(es.records) + 1 ELSE es.index[k]],
     records |-> Append(es.records, Record(key, turn))]
Entities(o) ==
    LET es == heap[o].entities
    IN  [k \in DOMAIN es.index |-> es.records[es.index[k]]]

NewState(sid) ==
    [sid |-> sid, expires |-> now + Ttl, turn_count |-> 0,
     entities |-> NoEntities, stamps |-> <<>>, risk_score |-> 0, purpose |-> None]

Expired(o) == now >= heap[o].expires

(* The local variables of a thread: its call, the stage it is in, the      *)
(* state object it holds, its turn_index, the time of accumulate, the      *)
(* spans left to register, the record it updates, the last value it read,  *)
(* the active nodes, which are records under their keys, the score it      *)
(* computed, ctx.risk_score and the object of an expiry.                   *)
Idle == [stage |-> "none", sid |-> None, spans |-> <<>>, purpose |-> None,
         obj |-> None, turn |-> 0, at |-> 0, rec |-> 0, read |-> 0,
         active |-> [k \in {} |-> 0],
         score |-> 0, risk |-> 0, expiring |-> None, call |-> 0]

Init ==
    /\ setting \in Settings
    /\ now = 0
    /\ heap = <<>>
    /\ states = [s \in Sids |-> None]
    /\ pc = [p \in Threads |-> "idle"]
    /\ loc = [p \in Threads |-> Idle]
    /\ swept = {}
    /\ tokens = {}
    /\ calls = 0
    /\ turns = [s \in Sids |-> 0]
    /\ purpose = [s \in Sids |-> None]
    /\ mentions = <<>>
    /\ missed = {}

Goto(p, label) == pc' = [pc EXCEPT ![p] = label]
Finish(p) == /\ Goto(p, "idle")
             /\ loc' = [loc EXCEPT ![p] = Idle]

Sid(p) == loc[p].sid
Obj(p) == loc[p].obj

(* Input calls are in the stage "turn" or "purpose", output calls in the   *)
(* stage "answer".                                                         *)
Busy(s, stages) == \E q \in Threads : Sid(q) = s /\ loc[q].stage \in stages
Admitted(s, stage) ==
    CASE setting.calls = "any"   -> TRUE
      [] setting.calls = "input" ->
             stage = "turn" => ~Busy(s, {"turn", "purpose"})
      [] setting.calls = "call"  -> ~Busy(s, {"turn", "purpose", "answer"})

Begin(p, s, stage, spans, what) ==
    /\ pc[p] = "idle"
    /\ calls < MaxCalls
    /\ Admitted(s, stage)
    /\ calls' = calls + 1
    /\ Goto(p, "load")
    /\ loc' = [loc EXCEPT ![p] = [Idle EXCEPT
                  !.sid = s, !.stage = stage, !.spans = spans,
                  !.purpose = what, !.call = calls + 1]]
    /\ UNCHANGED <<setting, now, heap, states, swept, tokens, history>>

-----------------------------------------------------------------------------
(* store.load, under the lock: none, an expired state that it removes, or  *)
(* a live one.                                                             *)
LoadNone(p) ==
    /\ pc[p] = "load"
    /\ states[Sid(p)] = None
    /\ Goto(p, "loaded")
    /\ loc' = [loc EXCEPT ![p].obj = None]
    /\ UNCHANGED <<setting, now, heap, states, swept, tokens, calls, history>>

(* Mutant: a state is removed, and its tokens revoked, a tick early.       *)
LoadExpiredEarly(p) ==
    LET o == states[Sid(p)] IN
    /\ pc[p] = "load"
    /\ o # None /\ now + 1 >= heap[o].expires
    /\ states' = [states EXCEPT ![Sid(p)] = None]
    /\ Goto(p, "expire")
    /\ loc' = [loc EXCEPT ![p].expiring = o]
    /\ turns' = [turns EXCEPT ![Sid(p)] = 0]
    /\ purpose' = [purpose EXCEPT ![Sid(p)] = None]
    /\ UNCHANGED <<setting, now, heap, swept, tokens, calls, mentions, missed>>

LoadExpired(p) ==
    LET o == states[Sid(p)] IN
    /\ pc[p] = "load"
    /\ o # None /\ Expired(o)
    /\ states' = [states EXCEPT ![Sid(p)] = None]
    /\ Goto(p, "expire")
    /\ loc' = [loc EXCEPT ![p].expiring = o]
    /\ turns' = [turns EXCEPT ![Sid(p)] = 0]
    /\ purpose' = [purpose EXCEPT ![Sid(p)] = None]
    /\ UNCHANGED <<setting, now, heap, swept, tokens, calls, mentions, missed>>

LoadLive(p) ==
    LET o == states[Sid(p)] IN
    /\ pc[p] = "load"
    /\ o # None /\ ~Expired(o)
    /\ Goto(p, "loaded")
    /\ loc' = [loc EXCEPT ![p].obj = o]
    /\ UNCHANGED <<setting, now, heap, states, swept, tokens, calls, history>>

(* on_expire, outside the lock: vault.revoke_session revokes every token   *)
(* of the session, or fails, which the hook logs and swallows.             *)

RevokeTokens(s) == tokens' = {t \in tokens : t.sid # s}

(* Mutant: the store was configured without the hook.                      *)
ExpireNoHook(p) ==
    /\ pc[p] = "expire"
    /\ Goto(p, "loaded")
    /\ loc' = [loc EXCEPT ![p].obj = None, ![p].expiring = None]
    /\ UNCHANGED <<setting, now, heap, states, swept, tokens, calls, history>>

ExpireHook(p) ==
    /\ pc[p] = "expire"
    /\ RevokeTokens(Sid(p))
    /\ Goto(p, "loaded")
    /\ loc' = [loc EXCEPT ![p].obj = None, ![p].expiring = None]
    /\ UNCHANGED <<setting, now, heap, states, swept, calls, history>>

ExpireHookFails(p) ==
    /\ pc[p] = "expire"
    /\ missed' = missed \cup {loc[p].expiring}
    /\ Goto(p, "loaded")
    /\ loc' = [loc EXCEPT ![p].obj = None, ![p].expiring = None]
    /\ UNCHANGED <<setting, now, heap, states, swept, tokens, calls, turns,
                   purpose, mentions>>

-----------------------------------------------------------------------------
(* Mutant: turn_index is the turn_count itself.                            *)
TakeSameTurn(p) ==
    /\ pc[p] = "loaded" /\ loc[p].stage = "turn"
    /\ Goto(p, "max")
    /\ IF Obj(p) = None
       THEN /\ heap' = Append(heap, NewState(Sid(p)))
            /\ mentions' = Append(mentions, <<>>)
            /\ loc' = [loc EXCEPT ![p].obj = Len(heap) + 1, ![p].turn = 1]
       ELSE /\ loc' = [loc EXCEPT ![p].turn = heap[Obj(p)].turn_count]
            /\ UNCHANGED <<setting, heap, mentions>>
    /\ UNCHANGED <<setting, now, states, swept, tokens, calls, turns, purpose,
                   missed>>

(* multiturn_stage: a new state when load returned None, and turn_index.   *)
TakeTurn(p) ==
    /\ pc[p] = "loaded" /\ loc[p].stage = "turn"
    /\ Goto(p, "max")
    /\ IF Obj(p) = None
       THEN /\ heap' = Append(heap, NewState(Sid(p)))
            /\ mentions' = Append(mentions, <<>>)
            /\ loc' = [loc EXCEPT ![p].obj = Len(heap) + 1, ![p].turn = 1]
       ELSE /\ loc' = [loc EXCEPT ![p].turn = heap[Obj(p)].turn_count + 1]
            /\ UNCHANGED <<setting, heap, mentions>>
    /\ UNCHANGED <<setting, now, states, swept, tokens, calls, turns, purpose,
                   missed>>

(* accumulate: turn_count = max(turn_count, turn_index), a read and a      *)
(* write; the time was taken just before.                                  *)
ReadTurnCount(p) ==
    /\ pc[p] = "max"
    /\ Goto(p, "count")
    /\ loc' = [loc EXCEPT ![p].at = now * TickSeconds,
                          ![p].read = Max({heap[Obj(p)].turn_count,
                                           loc[p].turn})]
    /\ UNCHANGED <<setting, now, heap, states, swept, tokens, calls, history>>

StoreTurnCount(p) ==
    /\ pc[p] = "count"
    /\ Goto(p, "stamp")
    /\ heap' = [heap EXCEPT ![Obj(p)].turn_count = loc[p].read]
    /\ turns' = [turns EXCEPT ![Sid(p)] = @ + 1]
    /\ UNCHANGED <<setting, now, states, loc, swept, tokens, calls, purpose,
                   mentions, missed>>

Stamp(p) ==
    /\ pc[p] = "stamp"
    /\ Goto(p, "register")
    /\ heap' = [heap EXCEPT ![Obj(p)].stamps = Append(@, loc[p].at)]
    /\ UNCHANGED <<setting, now, states, loc, swept, tokens, calls, history>>

(* _register_spans, span by span: entities.get finds the record of the     *)
(* key, of which last_turn is written, then count read and written back,   *)
(* or finds none, and a record is inserted in a later step, over whatever  *)
(* another thread has put there meanwhile.                                 *)
Key(p) == Head(loc[p].spans)

(* Mutant: an entity that has left the window is looked up in vain.        *)
FoundInWindow(p) == Key(p) \in ActiveNodes(Entities(Obj(p)), loc[p].turn)
Found(p) == Key(p) \in DOMAIN heap[Obj(p)].entities.index

Get(p) ==
    /\ pc[p] = "register" /\ loc[p].spans # <<>> /\ Found(p)
    /\ Goto(p, "last")
    /\ loc' = [loc EXCEPT ![p].rec = heap[Obj(p)].entities.index[Key(p)]]
    /\ UNCHANGED <<setting, now, heap, states, swept, tokens, calls, history>>

Miss(p) ==
    /\ pc[p] = "register" /\ loc[p].spans # <<>> /\ ~Found(p)
    /\ Goto(p, "insert")
    /\ UNCHANGED <<setting, now, heap, states, loc, swept, tokens, calls,
                   history>>

WriteLast(p) ==
    /\ pc[p] = "last"
    /\ Goto(p, "read")
    /\ heap' = [heap EXCEPT ![Obj(p)].entities.records[loc[p].rec].last =
                               loc[p].turn]
    /\ UNCHANGED <<setting, now, states, loc, swept, tokens, calls, history>>

ReadCount(p) ==
    /\ pc[p] = "read"
    /\ Goto(p, "add")
    /\ loc' = [loc EXCEPT ![p].read =
                  heap[Obj(p)].entities.records[loc[p].rec].count]
    /\ UNCHANGED <<setting, now, heap, states, swept, tokens, calls, history>>

(* Either way the span has been mentioned.                                 *)
Mentioned(p) ==
    /\ Goto(p, "register")
    /\ mentions' = [mentions EXCEPT ![Obj(p)] = Append(@, Key(p))]
    /\ loc' = [loc EXCEPT ![p].spans = Tail(@)]
    /\ UNCHANGED <<setting, now, states, swept, tokens, calls, turns, purpose,
                   missed>>

WriteCount(p) ==
    /\ pc[p] = "add"
    /\ heap' = [heap EXCEPT ![Obj(p)].entities.records[loc[p].rec].count =
                               loc[p].read + 1]
    /\ Mentioned(p)

Insert(p) ==
    /\ pc[p] = "insert"
    /\ heap' = [heap EXCEPT ![Obj(p)].entities = Inserted(@, Key(p), loc[p].turn)]
    /\ Mentioned(p)

(* _active_nodes iterates over entities.values(): an iterator is made, and *)
(* the dictionary must not grow before it is exhausted.                    *)
StartScan(p) ==
    /\ pc[p] = "register" /\ loc[p].spans = <<>>
    /\ Goto(p, "scan")
    /\ loc' = [loc EXCEPT ![p].read =
                  Cardinality(DOMAIN heap[Obj(p)].entities.index)]
    /\ UNCHANGED <<setting, now, heap, states, swept, tokens, calls, history>>

Grown(p) == loc[p].read # Cardinality(DOMAIN heap[Obj(p)].entities.index)

Scan(p) ==
    /\ pc[p] = "scan" /\ ~Grown(p)
    /\ Goto(p, "score")
    /\ loc' = [loc EXCEPT ![p].active =
                  [k \in ActiveNodes(Entities(Obj(p)), loc[p].turn) |->
                      heap[Obj(p)].entities.index[k]]]
    /\ UNCHANGED <<setting, now, heap, states, swept, tokens, calls, history>>

(* RuntimeError: the pipeline answers with fail_action; what accumulate    *)
(* has written to the shared object stays.                                 *)
ScanRaises(p) ==
    /\ pc[p] = "scan" /\ Grown(p)
    /\ Finish(p)
    /\ UNCHANGED <<setting, now, heap, states, swept, tokens, calls, history>>

(* The three scores, from what the active records hold by now.             *)
Score(p) ==
    LET active == loc[p].active
        nodes == [k \in DOMAIN active |-> heap[Obj(p)].entities.records[active[k]]]
    IN
    /\ pc[p] = "score"
    /\ Goto(p, "write")
    /\ loc' = [loc EXCEPT ![p].score =
                  Risk(DOMAIN active, nodes, heap[Obj(p)].stamps, loc[p].turn,
                       loc[p].at)]
    /\ UNCHANGED <<setting, now, heap, states, swept, tokens, calls, history>>

(* Mutant: the score of a session never falls.                             *)
WriteHigherScore(p) ==
    /\ pc[p] = "write"
    /\ Goto(p, "save")
    /\ heap' = [heap EXCEPT ![Obj(p)].risk_score = Max({@, loc[p].score})]
    /\ UNCHANGED <<setting, now, states, loc, swept, tokens, calls, history>>

WriteScore(p) ==
    /\ pc[p] = "write"
    /\ Goto(p, "save")
    /\ heap' = [heap EXCEPT ![Obj(p)].risk_score = loc[p].score]
    /\ UNCHANGED <<setting, now, states, loc, swept, tokens, calls, history>>

(* store.save: the object becomes the session's state, whatever was there  *)
(* and expired or not.                                                     *)
SaveTurn(p) ==
    /\ pc[p] = "save" /\ loc[p].stage = "turn"
    /\ Goto(p, "risk")
    /\ states' = [states EXCEPT ![heap[Obj(p)].sid] = Obj(p)]
    /\ UNCHANGED <<setting, now, heap, loc, swept, tokens, calls, history>>

ReadRisk(p) ==
    /\ pc[p] = "risk"
    /\ Goto(p, "policy")
    /\ loc' = [loc EXCEPT ![p].risk = heap[Obj(p)].risk_score]
    /\ UNCHANGED <<setting, now, heap, states, swept, tokens, calls, history>>

-----------------------------------------------------------------------------
(* purpose_policy_stage blocks the turn: the later stages are skipped.     *)
PolicyBlocks(p) ==
    /\ pc[p] = "policy"
    /\ Finish(p)
    /\ UNCHANGED <<setting, now, heap, states, swept, tokens, calls, history>>

PolicyPasses(p) ==
    /\ pc[p] = "policy"
    /\ Goto(p, "load")
    /\ loc' = [loc EXCEPT ![p] = [Idle EXCEPT
                  !.sid = Sid(p), !.stage = "purpose",
                  !.purpose = loc[p].purpose, !.call = loc[p].call]]
    /\ UNCHANGED <<setting, now, heap, states, swept, tokens, calls, history>>

(* remember_purpose_stage, once it has loaded the session again.           *)
RememberPurpose(p) ==
    /\ pc[p] = "loaded" /\ loc[p].stage = "purpose"
    /\ Goto(p, "save")
    /\ IF Obj(p) = None
       THEN /\ heap' = Append(heap, [NewState(Sid(p)) EXCEPT
                                        !.purpose = loc[p].purpose])
            /\ mentions' = Append(mentions, <<>>)
            /\ loc' = [loc EXCEPT ![p].obj = Len(heap) + 1]
       ELSE /\ heap' = [heap EXCEPT ![Obj(p)].purpose = loc[p].purpose]
            /\ UNCHANGED <<setting, mentions, loc>>
    /\ UNCHANGED <<setting, now, states, swept, tokens, calls, turns, purpose,
                   missed>>

(* Mutant: no save, since the object loaded is the one that was written.   *)
SavePurposeNowhere(p) ==
    /\ pc[p] = "save" /\ loc[p].stage = "purpose"
    /\ Goto(p, "transform")
    /\ purpose' = [purpose EXCEPT ![Sid(p)] = loc[p].purpose]
    /\ UNCHANGED <<setting, now, heap, states, loc, swept, tokens, calls,
                   turns, mentions, missed>>

SavePurpose(p) ==
    /\ pc[p] = "save" /\ loc[p].stage = "purpose"
    /\ Goto(p, "transform")
    /\ states' = [states EXCEPT ![heap[Obj(p)].sid] = Obj(p)]
    /\ purpose' = [purpose EXCEPT ![Sid(p)] = loc[p].purpose]
    /\ UNCHANGED <<setting, now, heap, loc, swept, tokens, calls, turns,
                   mentions, missed>>

(* transform_stage, which the policy may have told to tokenize; nothing of *)
(* it depends on the session state.                                        *)
Token(p) == [sid |-> Sid(p), obj |-> Obj(p), call |-> loc[p].call]
Transform(p) ==
    /\ pc[p] = "transform"
    /\ tokens' \in {tokens, tokens \cup {Token(p)}}
    /\ Finish(p)
    /\ UNCHANGED <<setting, now, heap, states, swept, calls, history>>

(* get_last_purpose, for detokenize_stage of an output call.               *)
Answer(p) ==
    /\ pc[p] = "loaded" /\ loc[p].stage = "answer"
    /\ Finish(p)
    /\ UNCHANGED <<setting, now, heap, states, swept, tokens, calls, history>>

-----------------------------------------------------------------------------
(* The sweeper thread: it pops what has expired under the lock, and fires  *)
(* the hook for each outside it.                                           *)
SweepPop ==
    LET gone == {s \in Sids : states[s] # None /\ Expired(states[s])} IN
    /\ setting.sweeping /\ swept = {} /\ gone # {}
    /\ swept' = {states[s] : s \in gone}
    /\ states' = [s \in Sids |-> IF s \in gone THEN None ELSE states[s]]
    /\ turns' = [s \in Sids |-> IF s \in gone THEN 0 ELSE turns[s]]
    /\ purpose' = [s \in Sids |-> IF s \in gone THEN None ELSE purpose[s]]
    /\ UNCHANGED <<setting, now, heap, pc, loc, tokens, calls, mentions,
                   missed>>

SweepHook(o) ==
    /\ o \in swept
    /\ swept' = swept \ {o}
    /\ RevokeTokens(heap[o].sid)
    /\ UNCHANGED <<setting, now, heap, states, pc, loc, calls, history>>

SweepHookFails(o) ==
    /\ o \in swept
    /\ swept' = swept \ {o}
    /\ missed' = missed \cup {o}
    /\ UNCHANGED <<setting, now, heap, states, pc, loc, tokens, calls, turns,
                   purpose, mentions>>

Tick ==
    /\ now < setting.until
    /\ now' = now + 1
    /\ UNCHANGED <<setting, heap, states, pc, loc, swept, tokens, calls,
                   history>>

-----------------------------------------------------------------------------
Input(p) ==
    \E s \in Sids, i \in Inputs : Begin(p, s, "turn", i.spans, i.purpose)
Output(p) == \E s \in Sids : Begin(p, s, "answer", <<>>, None)

Continue(p) ==
    \/ LoadNone(p) \/ LoadExpired(p) \/ LoadLive(p) \/ ExpireHook(p)
    \/ TakeTurn(p) \/ ReadTurnCount(p) \/ StoreTurnCount(p) \/ Stamp(p)
    \/ Get(p) \/ WriteLast(p) \/ ReadCount(p) \/ WriteCount(p)
    \/ Miss(p) \/ Insert(p)
    \/ StartScan(p) \/ Scan(p) \/ ScanRaises(p) \/ Score(p) \/ WriteScore(p)
    \/ SaveTurn(p) \/ ReadRisk(p) \/ PolicyPasses(p) \/ RememberPurpose(p)
    \/ SavePurpose(p) \/ Transform(p) \/ Answer(p)

Next ==
    \/ \E p \in Threads : \/ Input(p) \/ Output(p) \/ Continue(p)
                          \/ ExpireHookFails(p) \/ PolicyBlocks(p)
    \/ SweepPop
    \/ \E o \in swept : SweepHook(o) \/ SweepHookFails(o)
    \/ Tick

Spec == Init /\ [][Next]_vars
-----------------------------------------------------------------------------
(* The object load would return now.                                       *)
LiveState(s) == states[s] # None /\ ~Expired(states[s])

(* When no turn of a session is between counting and saving, its live      *)
(* state has counted every turn since the session last expired.            *)
Unsaved == {"stamp", "register", "last", "read", "add", "insert", "scan",
            "score", "write", "save"}
TurnsAreCounted ==
    \A s \in Sids :
        (/\ LiveState(s)
         /\ \A p \in Threads : ~(/\ Sid(p) = s /\ pc[p] \in Unsaved
                                 /\ loc[p].stage = "turn"))
            => heap[states[s]].turn_count = turns[s]

(* No turn is lost or counted twice while the input calls of a session     *)
(* come one after the other, whatever output calls, expiries and sweeps    *)
(* fall between their steps (stage.py:130-136).                            *)
TurnsCounted == setting.calls # "any" => TurnsAreCounted

(* tests/test_accumulator.py:225, "if the lock did not hold, increments    *)
(* would be lost", of threads that load, count and save one session at the *)
(* same time: the lock of the store keeps every turn.                      *)
LockKeepsTurns == TurnsAreCounted

(* stage.py:161-163: the state an output call would load holds the purpose *)
(* that was saved last since the session expired, unless a turn is just    *)
(* between writing it and saving it.                                       *)
PurposeOfLastTurn ==
    \A s \in Sids :
        (/\ setting.calls # "any" /\ LiveState(s)
         /\ \A p \in Threads : ~(/\ Sid(p) = s /\ pc[p] = "save"
                                 /\ loc[p].stage = "purpose"))
            => heap[states[s]].purpose = purpose[s]

(* The score a turn is judged by (stage.py:138, pipeline.py:182) is the    *)
(* one its own accumulate computed, while no two input calls overlap.      *)
RiskOfOwnTurn ==
    \A p \in Threads :
        setting.calls # "any" /\ pc[p] = "policy" => loc[p].risk = loc[p].score

(* Whatever calls overlap, no entity of a turn is forgotten and none is    *)
(* counted more often than it was mentioned, though two turns may count a  *)
(* mention once (accumulator.py:149-163); while no two input calls of a    *)
(* session overlap every mention is counted, also one after its entity has *)
(* left the window (accumulator.py:143-147).                               *)
TimesMentioned(o, k) ==
    Cardinality({i \in DOMAIN mentions[o] : mentions[o][i] = k})
EntitiesKept ==
    \A o \in DOMAIN heap :
        /\ DOMAIN Entities(o) = Range(mentions[o])
        /\ \A k \in DOMAIN Entities(o) :
               /\ Entities(o)[k].count <= TimesMentioned(o, k)
               /\ setting.calls # "any" =>
                      Entities(o)[k].count = TimesMentioned(o, k)

(* store.py:141-142, "when a session's TTL expires, the vault of that      *)
(* session is cleaned up with it": while nothing of a session overlaps, an *)
(* expiry revokes the tokens of what has expired, never those of the       *)
(* session that follows under the same id...                               *)
OneAtATime == setting.calls = "call" /\ ~setting.sweeping
OnlyExpiredRevoked ==
    [][OneAtATime => \A t \in tokens \ tokens' : Expired(t.obj)]_vars

(* ...and all of them: once a session has been replaced after its expiry,  *)
(* none of its tokens is live, unless its hook failed.                     *)
ExpiredTokensRevoked ==
    \A t \in tokens :
        OneAtATime /\ states[t.sid] \notin {None, t.obj} => t.obj \in missed
=============================================================================
