------------------------------- MODULE Server -------------------------------
(***************************************************************************)
(* The life of the process: main (app/main.py) warms the NER model up,     *)
(* serves gRPC calls and the dashboard, and stops on a signal; meanwhile   *)
(* its threads make what the process has one of: the NER engine and its    *)
(* model (app/detect/ner.py, under locks), the session store               *)
(* (app/context/stage.py) and the connection pool (app/db.py, both         *)
(* without one).                                                           *)
(*                                                                         *)
(* A worker's call detects, saves its turn in the session store and uses   *)
(* the database; a reader's call, of the dashboard, only uses the          *)
(* database.  Session stores and pools are numbered as they are made.      *)
(***************************************************************************)
EXTENDS Naturals, Sequences, FiniteSets

CONSTANTS
    Workers,  \* threads of the gRPC server (max_workers)
    Readers,  \* threads that serve the dashboard
    Main,     \* the main thread
    None,     \* Python's None
    PoolMax,  \* db.pool_max
    MaxCalls  \* bound on the calls begun

ASSUME ServerAssumption ==
    /\ PoolMax \in Nat \ {0} /\ MaxCalls \in Nat
    /\ Main \notin Workers \cup Readers
    /\ Workers \cap Readers = {}
    /\ None \notin Workers \cup Readers \cup {Main} \cup {"configured", "default"}
    /\ None \notin Nat

VARIABLES
    main,    \* the line main() is at
    stop,    \* the event the signal handler sets
    grpc,    \* the gRPC server: "off", "serving", "stopped"
    api,     \* uvicorn: "off", "serving", "exiting", "ended"
    stream,  \* a client holds an event stream open
    engine,  \* ner._engine: None, "configured", "default"
    loads,   \* how often the model of the engine has been loaded
    lock,    \* NEREngine._lock: its holder
    store,   \* stage._store: None or the number of a store
    stores,  \* how many session stores have been made
    pool,    \* db._pool: None or the number of a pool
    pools,   \* per pool made, [open, alone]: alone unless it replaced a pool
             \* or was made after db.close
    pc,      \* per thread, the next step of its call
    handle,  \* per thread, the store or the pool it was returned
    begun,   \* how many calls have begun
    turns,   \* history: [store, settled]: the store each turn is saved
             \* in, and whether it was then sure to be the last
    failed   \* history: [why, main] of the calls the database failed

nerVars == <<engine, loads, lock>>
storeVars == <<store, stores, turns>>
poolVars == <<pool, pools, failed>>
mainVars == <<main, stop, grpc, api, stream>>
vars == <<mainVars, nerVars, storeVars, poolVars, pc, handle, begun>>

Threads == Workers \cup Readers
Procs == Threads \cup {Main}

Goto(t, step) == pc' = [pc EXCEPT ![t] = step]
Ends(t) == Goto(t, "idle") /\ handle' = [handle EXCEPT ![t] = None]

Init ==
    /\ main = "engine" /\ stop = FALSE
    /\ grpc = "off" /\ api = "off" /\ stream = FALSE
    /\ engine = None /\ loads = 0 /\ lock = None
    /\ store = None /\ stores = 0 /\ turns = {}
    /\ pool = None /\ pools = <<>> /\ failed = {}
    /\ pc = [t \in Procs |-> "idle"]
    /\ handle = [t \in Procs |-> None]
    /\ begun = 0

-----------------------------------------------------------------------------
(* ner.py.                                                                 *)

(* get_ner_engine: made under its lock by the first call, whose arguments  *)
(* count; the later calls' are ignored.                                    *)
GetEngine(t, arguments) ==
    /\ engine' = IF engine = None THEN arguments ELSE engine
    /\ Goto(t, "model")
    /\ UNCHANGED <<loads, lock>>

(* What follows the model's load: main goes on, a call goes on to the      *)
(* accumulation, with no findings of the layer if it failed.               *)
AfterModel(t) == IF t = Main THEN "idle" ELSE "store"

(* _ensure_loaded: the check without the lock.                             *)
CheckModel(t) ==
    /\ pc[t] = "model"
    /\ Goto(t, IF loads > 0 THEN AfterModel(t) ELSE "lock")
    /\ UNCHANGED <<mainVars, nerVars, storeVars, poolVars, handle, begun>>

LockModel(t) ==
    /\ pc[t] = "lock" /\ lock = None
    /\ lock' = t
    /\ Goto(t, "check")
    /\ UNCHANGED <<mainVars, engine, loads, storeVars, poolVars, handle, begun>>

(* The second check: a model loaded in the meantime is taken.              *)
(* Mutant: no second check.                                                *)
LoadUnchecked(t) ==
    /\ pc[t] = "check"
    /\ Goto(t, "load")
    /\ UNCHANGED <<mainVars, nerVars, storeVars, poolVars, handle, begun>>
CheckAgain(t) ==
    /\ pc[t] = "check"
    /\ Goto(t, IF loads > 0 THEN AfterModel(t) ELSE "load")
    /\ lock' = IF loads > 0 THEN None ELSE lock
    /\ UNCHANGED <<mainVars, engine, loads, storeVars, poolVars, handle, begun>>

(* The load and the release.  A load that raises leaves the model to the   *)
(* next call.                                                              *)
(* Mutant: a load that raises keeps the lock.                              *)
LoadKeepsLock(t) ==
    /\ pc[t] = "load"
    /\ \/ loads' = loads + 1 /\ lock' = None
       \/ UNCHANGED <<loads, lock>>
    /\ Goto(t, AfterModel(t))
    /\ UNCHANGED <<mainVars, engine, storeVars, poolVars, handle, begun>>
Load(t) ==
    /\ pc[t] = "load"
    /\ loads' \in {loads, loads + 1}
    /\ lock' = None
    /\ Goto(t, AfterModel(t))
    /\ UNCHANGED <<mainVars, engine, storeVars, poolVars, handle, begun>>

-----------------------------------------------------------------------------
(* _get_store: a check and an assignment that other threads come between,  *)
(* and the global read again.                                              *)

(* Mutant: every call makes a store.                                       *)
AlwaysMakeStore(t) ==
    /\ pc[t] = "store"
    /\ Goto(t, "make store")
    /\ UNCHANGED <<mainVars, nerVars, storeVars, poolVars, handle, begun>>
CheckStore(t) ==
    /\ pc[t] = "store"
    /\ Goto(t, IF store = None THEN "make store" ELSE "get store")
    /\ UNCHANGED <<mainVars, nerVars, storeVars, poolVars, handle, begun>>

MakeStore(t) ==
    /\ pc[t] = "make store"
    /\ stores' = stores + 1 /\ store' = stores'
    /\ Goto(t, "get store")
    /\ UNCHANGED <<mainVars, nerVars, turns, poolVars, handle, begun>>

(* No call is about to make a store any more.                              *)
StoreSettled == store # None /\ \A t \in Threads : pc[t] # "make store"

ReturnStore(t) ==
    /\ pc[t] = "get store"
    /\ handle' = [handle EXCEPT ![t] = [store |-> store, settled |-> StoreSettled]]
    /\ Goto(t, "save")
    /\ UNCHANGED <<mainVars, nerVars, storeVars, poolVars, begun>>

SaveTurn(t) ==
    /\ pc[t] = "save"
    /\ turns' = turns \cup {handle[t]}
    /\ handle' = [handle EXCEPT ![t] = None]
    /\ Goto(t, "pool")
    /\ UNCHANGED <<mainVars, nerVars, store, stores, poolVars, begun>>

-----------------------------------------------------------------------------
(* db.py.                                                                  *)

CheckPool(t) ==
    /\ pc[t] = "pool"
    /\ Goto(t, IF pool = None THEN "make pool" ELSE "get pool")
    /\ UNCHANGED <<mainVars, nerVars, storeVars, poolVars, handle, begun>>

Closed(p) == [q \in DOMAIN pools |->
                 IF q = p THEN [pools[q] EXCEPT !.open = FALSE] ELSE pools[q]]
NewPool == [open |-> TRUE, alone |-> pool = None /\ main \notin {"drop", "done"}]

(* Mutant: the pool that is replaced is closed.                            *)
MakePoolClosingOther(t) ==
    /\ pc[t] = "make pool"
    /\ pools' = Append(Closed(pool), NewPool)
    /\ pool' = Len(pools')
    /\ Goto(t, "get pool")
    /\ UNCHANGED <<mainVars, nerVars, storeVars, failed, handle, begun>>
MakePool(t) ==
    /\ pc[t] = "make pool"
    /\ pools' = Append(pools, NewPool) /\ pool' = Len(pools')
    /\ Goto(t, "get pool")
    /\ UNCHANGED <<mainVars, nerVars, storeVars, failed, handle, begun>>

ReturnPool(t) ==
    /\ pc[t] = "get pool"
    /\ handle' = [handle EXCEPT ![t] = pool]
    /\ Goto(t, "borrow")
    /\ UNCHANGED <<mainVars, nerVars, storeVars, poolVars, begun>>

Held(p) == {t \in Threads : pc[t] = "held" /\ handle[t] = p}
Usable(p) == p # None /\ pools[p].open

Borrow(t) ==
    /\ pc[t] = "borrow"
    /\ Usable(handle[t]) /\ Cardinality(Held(handle[t])) < PoolMax
    /\ Goto(t, "held")
    /\ UNCHANGED <<mainVars, nerVars, storeVars, poolVars, handle, begun>>

(* The call gets no connection: pool() returned None, the pool is closed,  *)
(* or none came free in time.  The caller answers with its fail action.    *)
WhyFailed(p) ==
    IF p = None THEN "no pool" ELSE IF ~pools[p].open THEN "closed" ELSE "exhausted"
BorrowFails(t) ==
    /\ pc[t] = "borrow"
    /\ ~(Usable(handle[t]) /\ Cardinality(Held(handle[t])) < PoolMax)
    /\ failed' = failed \cup {[why |-> WhyFailed(handle[t]), main |-> main]}
    /\ Ends(t)
    /\ UNCHANGED <<mainVars, nerVars, storeVars, pool, pools, begun>>

(* The end of the with block.                                              *)
Return(t) ==
    /\ pc[t] = "held"
    /\ Ends(t)
    /\ UNCHANGED <<mainVars, nerVars, storeVars, poolVars, begun>>

-----------------------------------------------------------------------------
(* Inspect, and a route of the dashboard.                                  *)
Inspect(t) ==
    /\ t \in Workers /\ grpc = "serving"
    /\ pc[t] = "idle" /\ begun < MaxCalls
    /\ GetEngine(t, "default")
    /\ begun' = begun + 1
    /\ UNCHANGED <<mainVars, storeVars, poolVars, handle>>

ReadEvents(t) ==
    /\ t \in Readers /\ api = "serving"
    /\ pc[t] = "idle" /\ begun < MaxCalls
    /\ Goto(t, "pool")
    /\ begun' = begun + 1
    /\ UNCHANGED <<mainVars, nerVars, storeVars, poolVars, handle>>

Step(t) ==
    \/ CheckModel(t) \/ LockModel(t) \/ CheckAgain(t) \/ Load(t)
    \/ CheckStore(t) \/ MakeStore(t) \/ ReturnStore(t) \/ SaveTurn(t)
    \/ CheckPool(t) \/ MakePool(t) \/ ReturnPool(t)
    \/ Borrow(t) \/ BorrowFails(t) \/ Return(t)

-----------------------------------------------------------------------------
(* main().                                                                 *)
OnlyMain == UNCHANGED <<nerVars, storeVars, poolVars, pc, handle, begun>>

(* The warm-up, with the configuration's model and threshold...            *)
WarmUp ==
    /\ main = "engine"
    /\ main' = "preload"
    /\ GetEngine(Main, "configured")
    /\ UNCHANGED <<stop, grpc, api, stream, storeVars, poolVars, handle, begun>>

(* ...has ended, whether or not the model could be loaded.                 *)
StartGrpc ==
    /\ main = "preload" /\ pc[Main] = "idle"
    /\ main' = "start" /\ grpc' = "serving"
    /\ UNCHANGED <<stop, api, stream>> /\ OnlyMain

(* The handlers are installed and uvicorn started; it ends at once where   *)
(* it cannot bind its port.                                                *)
StartApi ==
    /\ main = "start"
    /\ main' = "wait" /\ api' \in {"serving", "ended"}
    /\ UNCHANGED <<stop, grpc, stream>> /\ OnlyMain

StopServing ==
    /\ main = "wait" /\ stop
    /\ main' = "join"
    /\ api' = IF api = "serving" THEN "exiting" ELSE api
    /\ grpc' = "stopped"   \* stop(grace) does not wait for the calls
    /\ UNCHANGED <<stop, stream>> /\ OnlyMain

(* Mutant: join without its timeout.                                       *)
JoinForever ==
    /\ main = "join" /\ api = "ended"
    /\ main' = "close"
    /\ UNCHANGED <<stop, grpc, api, stream>> /\ OnlyMain
(* join returns when uvicorn has ended, or after its timeout.              *)
JoinApi ==
    /\ main = "join"
    /\ main' = "close"
    /\ UNCHANGED <<stop, grpc, api, stream>> /\ OnlyMain

(* Mutant: the pool is dropped but not closed.                             *)
LeavePoolOpen ==
    /\ main = "close"
    /\ main' = IF pool = None THEN "done" ELSE "drop"
    /\ UNCHANGED <<pools, stop, grpc, api, stream, nerVars, storeVars, pool,
                   failed, pc, handle, begun>>
(* db.close(): the pool is closed...                                       *)
ClosePool ==
    /\ main = "close"
    /\ main' = IF pool = None THEN "done" ELSE "drop"
    /\ pools' = Closed(pool)
    /\ UNCHANGED <<stop, grpc, api, stream, nerVars, storeVars, pool, failed,
                   pc, handle, begun>>

(* ...and forgotten.                                                       *)
DropPool ==
    /\ main = "drop"
    /\ main' = "done" /\ pool' = None
    /\ UNCHANGED <<stop, grpc, api, stream, nerVars, storeVars, pools, failed,
                   pc, handle, begun>>

MainStep ==
    WarmUp \/ StartGrpc \/ StartApi \/ StopServing \/ JoinApi \/ ClosePool \/ DropPool

-----------------------------------------------------------------------------
(* What comes from outside: the signal, a client of the event stream, and  *)
(* uvicorn, which ends when no connection is left.                         *)
Signal ==
    /\ main = "wait" /\ ~stop /\ stop' = TRUE
    /\ UNCHANGED <<main, grpc, api, stream>> /\ OnlyMain

StreamOpens ==
    /\ api = "serving" /\ ~stream /\ stream' = TRUE
    /\ UNCHANGED <<main, stop, grpc, api>> /\ OnlyMain
StreamCloses ==
    /\ stream /\ stream' = FALSE
    /\ UNCHANGED <<main, stop, grpc, api>> /\ OnlyMain

ApiEnds ==
    /\ api = "exiting" /\ ~stream
    /\ \A t \in Readers : pc[t] = "idle"
    /\ api' = "ended"
    /\ UNCHANGED <<main, stop, grpc, stream>> /\ OnlyMain

Next ==
    \/ MainStep \/ Signal \/ StreamOpens \/ StreamCloses \/ ApiEnds
    \/ \E t \in Procs : Step(t)
    \/ \E t \in Threads : Inspect(t) \/ ReadEvents(t)

Spec == Init /\ [][Next]_vars

(* The operating system runs every thread that can run; a lock, an open    *)
(* connection or a client promises nothing.                                *)
FairSpec ==
    /\ Spec
    /\ WF_vars(MainStep)
    /\ \A t \in Procs : WF_vars(Step(t))
-----------------------------------------------------------------------------
(* The model is that of the configuration and is loaded once, however many *)
(* first calls and the warm-up overlap and however often a load fails: no  *)
(* call is early enough to make an engine of the default model and         *)
(* threshold (ner.py:79-81, 100-102, 171-181, main.py:34-46).              *)
ConfiguredModelLoadedOnce == engine # "default" /\ loads <= 1

(* Until the pool is closed at the end, a call fails on the database only  *)
(* because every connection is in use: first calls that each make a pool   *)
(* do not hurt each other (db.py:24-37).                                   *)
DatabaseReachedWhileServing ==
    \A f \in failed : f.why = "exhausted" \/ f.main \in {"drop", "done"}

(* A turn is lost with its store only if its call took the store while     *)
(* another first call was still to make one (stage.py:71-75).              *)
TurnsKept == \A x \in turns : x.settled => x.store = store

(* The pool is closed when the process ends (db.py:4-5), if no two first   *)
(* calls made one each and none was made by a call outlasting the stop.    *)
PoolsClosedAtExit ==
    main = "done" /\ (\A p \in DOMAIN pools : pools[p].alone) =>
        \A p \in DOMAIN pools : ~pools[p].open

(* Every call ends, though the loads of the model fail, the pool is empty  *)
(* or closed, or the server stops meanwhile.                               *)
CallsFinish == \A t \in Threads : pc[t] # "idle" ~> pc[t] = "idle"

(* A signal ends the process, though a client keeps its event stream open  *)
(* and calls are still running (main.py:70-74).                            *)
ServerStops == stop ~> main = "done"
=============================================================================
