--------------------------- MODULE Server_proofs ---------------------------
(***************************************************************************)
(* Proofs about Server, for any threads, pool size and number of calls:    *)
(* the configured model is loaded once, no race of first calls takes the   *)
(* database from a call, a turn saved in a store that no first call was    *)
(* still to replace is kept, and the pool is closed at the exit.           *)
(***************************************************************************)
EXTENDS Server, SequenceTheorems, TLAPS

(* main() and the threads: the main thread only loads the model, and calls *)
(* come when it has made the engine.                                       *)
MainPcs == {"idle", "model", "lock", "check", "load"}
ThreadsOK ==
    /\ DOMAIN pc = Procs /\ DOMAIN handle = Procs
    /\ pc[Main] \in MainPcs
    /\ lock \in Procs \cup {None}
    /\ main = "engine" => engine = None /\ grpc = "off"
    /\ main # "engine" => engine = "configured"

(* Who checks again or loads holds the lock, and the one who loads has     *)
(* found no model.                                                         *)
ModelInv ==
    /\ \A t \in Procs : pc[t] \in {"check", "load"} => lock = t
    /\ loads \in {0, 1}
    /\ \A t \in Procs : pc[t] = "load" => loads = 0

LEMMA InitThreads == Init => ThreadsOK /\ ModelInv
  BY DEF Init, ThreadsOK, ModelInv, MainPcs, Procs

(* A step of a call, or of the load, keeps what concerns the threads.      *)
LEMMA StepThreads ==
  ASSUME ThreadsOK, NEW t \in Procs, Step(t)
  PROVE  ThreadsOK'
  <1>1. UNCHANGED <<main, engine, grpc>>
      BY DEF Step, CheckModel, LockModel, CheckAgain, Load, CheckStore, MakeStore,
             ReturnStore, SaveTurn, CheckPool, MakePool, ReturnPool, Borrow,
             BorrowFails, Return, mainVars, nerVars
  <1>2. lock' \in Procs \cup {None}
      BY DEF Step, CheckModel, LockModel, CheckAgain, Load, CheckStore, MakeStore,
             ReturnStore, SaveTurn, CheckPool, MakePool, ReturnPool, Borrow,
             BorrowFails, Return, nerVars, ThreadsOK
  <1>3. DOMAIN pc' = Procs /\ DOMAIN handle' = Procs
      BY DEF Step, CheckModel, LockModel, CheckAgain, Load, CheckStore, MakeStore,
             ReturnStore, SaveTurn, CheckPool, MakePool, ReturnPool, Borrow,
             BorrowFails, Return, Goto, Ends, ThreadsOK
  <1>4. pc'[Main] \in MainPcs
      <2>1. CASE t # Main
          BY <2>1 DEF Step, CheckModel, LockModel, CheckAgain, Load, CheckStore,
                      MakeStore, ReturnStore, SaveTurn, CheckPool, MakePool,
                      ReturnPool, Borrow, BorrowFails, Return, Goto, Ends,
                      ThreadsOK, Procs
      <2>2. CASE t = Main
          BY <2>2 DEF Step, CheckModel, LockModel, CheckAgain, Load, CheckStore,
                      MakeStore, ReturnStore, SaveTurn, CheckPool, MakePool,
                      ReturnPool, Borrow, BorrowFails, Return, Goto, AfterModel,
                      ThreadsOK, MainPcs, Procs
      <2> QED BY <2>1, <2>2
  <1> QED BY <1>1, <1>2, <1>3, <1>4 DEF ThreadsOK

LEMMA NextThreads == ThreadsOK /\ [Next]_vars => ThreadsOK'
  <1> SUFFICES ASSUME ThreadsOK, [Next]_vars PROVE ThreadsOK'
      OBVIOUS
  <1>1. CASE UNCHANGED vars
      BY <1>1 DEF vars, mainVars, nerVars, ThreadsOK
  <1>2. CASE \E t \in Procs : Step(t)
      BY <1>2, StepThreads
  <1>3. CASE WarmUp
      BY <1>3 DEF WarmUp, GetEngine, Goto, ThreadsOK, MainPcs, Procs
  <1>4. CASE \/ StartGrpc \/ StartApi \/ StopServing \/ JoinApi \/ ClosePool
             \/ DropPool \/ Signal \/ StreamOpens \/ StreamCloses \/ ApiEnds
      BY <1>4 DEF StartGrpc, StartApi, StopServing, JoinApi, ClosePool, DropPool,
                  Signal, StreamOpens, StreamCloses, ApiEnds, OnlyMain, nerVars,
                  ThreadsOK
  <1>5. CASE \E t \in Threads : Inspect(t) \/ ReadEvents(t)
      <2>1. PICK t \in Threads : Inspect(t) \/ ReadEvents(t)
          BY <1>5
      <2>2. t # Main
          BY ServerAssumption DEF Threads
      <2> QED BY <2>1, <2>2, ServerAssumption
              DEF Inspect, ReadEvents, GetEngine, Goto, mainVars, nerVars,
                  ThreadsOK, Procs
  <1> QED BY <1>1, <1>2, <1>3, <1>4, <1>5 DEF Next, MainStep

-----------------------------------------------------------------------------
(* The model.                                                              *)

LEMMA StepModel ==
  ASSUME ThreadsOK, ModelInv, NEW t \in Procs, Step(t)
  PROVE  ModelInv'
  <1> USE ServerAssumption DEF Procs, Threads
  <1>1. CASE CheckModel(t)
      BY <1>1 DEF CheckModel, Goto, AfterModel, nerVars, ThreadsOK, ModelInv
  <1>2. CASE LockModel(t)
      BY <1>2 DEF LockModel, Goto, ThreadsOK, ModelInv
  <1>3. CASE CheckAgain(t)
      BY <1>3 DEF CheckAgain, Goto, AfterModel, ThreadsOK, ModelInv
  <1>4. CASE Load(t)
      BY <1>4 DEF Load, Goto, AfterModel, ThreadsOK, ModelInv
  <1>5. CASE \/ CheckStore(t) \/ MakeStore(t) \/ ReturnStore(t) \/ SaveTurn(t)
             \/ CheckPool(t) \/ MakePool(t) \/ ReturnPool(t)
             \/ Borrow(t) \/ BorrowFails(t) \/ Return(t)
      <2>1. UNCHANGED nerVars
          BY <1>5 DEF CheckStore, MakeStore, ReturnStore, SaveTurn, CheckPool,
                      MakePool, ReturnPool, Borrow, BorrowFails, Return
      <2>2. \A s \in Procs : pc'[s] \in {"check", "load"} => pc'[s] = pc[s]
          BY <1>5 DEF CheckStore, MakeStore, ReturnStore, SaveTurn, CheckPool,
                      MakePool, ReturnPool, Borrow, BorrowFails, Return, Goto, Ends,
                      ThreadsOK
      <2> QED BY <2>1, <2>2 DEF nerVars, ModelInv
  <1> QED BY <1>1, <1>2, <1>3, <1>4, <1>5 DEF Step

LEMMA NextModel == ThreadsOK /\ ModelInv /\ [Next]_vars => ModelInv'
  <1> SUFFICES ASSUME ThreadsOK, ModelInv, [Next]_vars PROVE ModelInv'
      OBVIOUS
  <1>1. CASE UNCHANGED vars
      BY <1>1 DEF vars, nerVars, ModelInv
  <1>2. CASE \E t \in Procs : Step(t)
      BY <1>2, StepModel
  <1>3. CASE WarmUp
      BY <1>3 DEF WarmUp, GetEngine, Goto, ThreadsOK, ModelInv
  <1>4. CASE \/ StartGrpc \/ StartApi \/ StopServing \/ JoinApi \/ ClosePool
             \/ DropPool \/ Signal \/ StreamOpens \/ StreamCloses \/ ApiEnds
      BY <1>4 DEF StartGrpc, StartApi, StopServing, JoinApi, ClosePool, DropPool,
                  Signal, StreamOpens, StreamCloses, ApiEnds, OnlyMain, nerVars,
                  ModelInv
  <1>5. CASE \E t \in Threads : Inspect(t) \/ ReadEvents(t)
      BY <1>5 DEF Inspect, ReadEvents, GetEngine, Goto, nerVars, ThreadsOK,
                  ModelInv, Procs
  <1> QED BY <1>1, <1>2, <1>3, <1>4, <1>5 DEF Next, MainStep

(* However many calls begin before the model is there, it is loaded once,  *)
(* and with the configuration's settings.                                  *)
THEOREM ModelIsLoadedOnce == Spec => []ConfiguredModelLoadedOnce
  <1>1. ThreadsOK /\ ModelInv => ConfiguredModelLoadedOnce
      BY ServerAssumption DEF ThreadsOK, ModelInv, ConfiguredModelLoadedOnce
  <1> QED BY <1>1, InitThreads, NextThreads, NextModel, PTL DEF Spec

-----------------------------------------------------------------------------
(* The session store.                                                      *)

(* A store that is settled is the last: nobody makes one any more.         *)
Sure(x) == x.settled => x.store = store /\ StoreSettled
StoreInv ==
    /\ \A x \in turns : Sure(x)
    /\ \A t \in Threads : pc[t] = "save" => Sure(handle[t])

(* Where no store is made, and nobody decides to make one, what is settled *)
(* remains so.                                                             *)
LEMMA StillSettled ==
  ASSUME store' = store,
         \A t \in Threads : pc'[t] = "make store" => pc[t] = "make store"
  PROVE  StoreSettled => StoreSettled'
  BY DEF StoreSettled

LEMMA StepStore ==
  ASSUME ThreadsOK, StoreInv, NEW t \in Threads, Step(t)
  PROVE  StoreInv'
  <1>1. CASE CheckStore(t)
      <2>1. StoreSettled => StoreSettled'
          BY <1>1 DEF CheckStore, storeVars, StoreSettled, Goto, ThreadsOK, Procs
      <2>2. /\ store' = store /\ turns' = turns /\ handle' = handle
            /\ \A s \in Threads : pc'[s] = "save" => pc[s] = "save"
          BY <1>1 DEF CheckStore, storeVars, Goto, ThreadsOK, Procs
      <2> QED BY <2>1, <2>2 DEF StoreInv, Sure
  <1>2. CASE MakeStore(t)
      <2>1. ~ StoreSettled
          BY <1>2 DEF MakeStore, StoreSettled
      <2>2. /\ turns' = turns /\ handle' = handle
            /\ \A s \in Threads : pc'[s] = "save" => pc[s] = "save"
          BY <1>2 DEF MakeStore, Goto, ThreadsOK, Procs
      <2> QED BY <2>1, <2>2 DEF StoreInv, Sure
  <1>3. CASE ReturnStore(t)
      <2>1. store' = store /\ turns' = turns
          BY <1>3 DEF ReturnStore, storeVars
      <2>2. \A s \in Threads : pc'[s] = "make store" => pc[s] = "make store"
          BY <1>3 DEF ReturnStore, Goto, ThreadsOK, Procs
      <2>3. StoreSettled => StoreSettled'
          BY <2>1, <2>2, StillSettled
      <2>4. handle'[t] = [store |-> store, settled |-> StoreSettled]
          BY <1>3 DEF ReturnStore, ThreadsOK, Procs
      <2>5. \A s \in Threads \ {t} : handle'[s] = handle[s] /\ pc'[s] = pc[s]
          BY <1>3 DEF ReturnStore, Goto, ThreadsOK, Procs
      <2>6. Sure(handle[t])'
          BY <2>1, <2>3, <2>4 DEF Sure
      <2> QED BY <2>1, <2>3, <2>5, <2>6 DEF StoreInv, Sure
  <1>4. CASE SaveTurn(t)
      <2>1. store' = store /\ turns' = turns \cup {handle[t]}
          BY <1>4 DEF SaveTurn
      <2>2. \A s \in Threads : pc'[s] = "make store" => pc[s] = "make store"
          BY <1>4 DEF SaveTurn, Goto, ThreadsOK, Procs
      <2>3. StoreSettled => StoreSettled'
          BY <2>1, <2>2, StillSettled
      <2>4. pc'[t] # "save"
            /\ \A s \in Threads \ {t} : handle'[s] = handle[s] /\ pc'[s] = pc[s]
          BY <1>4 DEF SaveTurn, Goto, ThreadsOK, Procs
      <2>5. Sure(handle[t])
          BY <1>4 DEF SaveTurn, StoreInv
      <2> QED BY <2>1, <2>3, <2>4, <2>5 DEF StoreInv, Sure
  <1>5. CASE \/ CheckModel(t) \/ LockModel(t) \/ CheckAgain(t) \/ Load(t)
             \/ CheckPool(t) \/ MakePool(t) \/ ReturnPool(t)
             \/ Borrow(t) \/ BorrowFails(t) \/ Return(t)
      <2>1. UNCHANGED storeVars
          BY <1>5 DEF CheckModel, LockModel, CheckAgain, Load, CheckPool, MakePool,
                      ReturnPool, Borrow, BorrowFails, Return
      <2>2. \A s \in Threads : /\ pc'[s] = "make store" => pc[s] = "make store"
                               /\ pc'[s] = "save" => pc[s] = "save"
                                                     /\ handle'[s] = handle[s]
          BY <1>5 DEF CheckModel, LockModel, CheckAgain, Load, AfterModel, CheckPool,
                      MakePool, ReturnPool, Borrow, BorrowFails, Return, Goto, Ends,
                      ThreadsOK, Procs
      <2>3. StoreSettled => StoreSettled'
          BY <2>1, <2>2, StillSettled DEF storeVars
      <2> QED BY <2>1, <2>2, <2>3 DEF StoreInv, Sure, storeVars
  <1> QED BY <1>1, <1>2, <1>3, <1>4, <1>5 DEF Step

(* The main thread and the world outside neither make nor use a store.     *)
LEMMA OthersKeepStore ==
  ASSUME ThreadsOK, StoreInv, UNCHANGED storeVars,
         \A t \in Threads : /\ handle'[t] = handle[t]
                            /\ pc'[t] \in {"make store", "save"} => pc'[t] = pc[t]
  PROVE  StoreInv'
  <1>1. StoreSettled => StoreSettled'
      BY StillSettled DEF storeVars
  <1> QED BY <1>1 DEF StoreInv, Sure, storeVars

(* The step of main's own that Step covers: the load of the model.         *)
LEMMA MainLoads ==
  ASSUME ThreadsOK, Step(Main)
  PROVE  CheckModel(Main) \/ LockModel(Main) \/ CheckAgain(Main) \/ Load(Main)
  BY DEF Step, CheckStore, MakeStore, ReturnStore, SaveTurn, CheckPool, MakePool,
         ReturnPool, Borrow, BorrowFails, Return, ThreadsOK, MainPcs

LEMMA NextStore == ThreadsOK /\ StoreInv /\ [Next]_vars => StoreInv'
  <1> SUFFICES ASSUME ThreadsOK, StoreInv, [Next]_vars PROVE StoreInv'
      OBVIOUS
  <1>1. CASE UNCHANGED vars
      BY <1>1, OthersKeepStore DEF vars
  <1>2. CASE \E t \in Threads : Step(t)
      BY <1>2, StepStore
  <1>3. CASE Step(Main)
      <2>1. UNCHANGED storeVars
          BY <1>3, MainLoads DEF CheckModel, LockModel, CheckAgain, Load
      <2>2. \A t \in Threads : handle'[t] = handle[t] /\ pc'[t] = pc[t]
          BY <1>3, MainLoads, ServerAssumption
             DEF CheckModel, LockModel, CheckAgain, Load, Goto, ThreadsOK, Threads,
                 Procs
      <2> QED BY <2>1, <2>2, OthersKeepStore
  <1>4. CASE WarmUp
      <2>1. UNCHANGED storeVars
          BY <1>4 DEF WarmUp
      <2>2. \A t \in Threads : handle'[t] = handle[t] /\ pc'[t] = pc[t]
          BY <1>4, ServerAssumption DEF WarmUp, GetEngine, Goto, ThreadsOK, Threads,
                                        Procs
      <2> QED BY <2>1, <2>2, OthersKeepStore
  <1>5. CASE \/ StartGrpc \/ StartApi \/ StopServing \/ JoinApi \/ ClosePool
             \/ DropPool \/ Signal \/ StreamOpens \/ StreamCloses \/ ApiEnds
      <2>1. UNCHANGED <<storeVars, pc, handle>>
          BY <1>5 DEF StartGrpc, StartApi, StopServing, JoinApi, ClosePool, DropPool,
                      Signal, StreamOpens, StreamCloses, ApiEnds, OnlyMain
      <2> QED BY <2>1, OthersKeepStore
  <1>6. CASE \E t \in Threads : Inspect(t) \/ ReadEvents(t)
      <2>1. UNCHANGED <<storeVars, handle>>
          BY <1>6 DEF Inspect, ReadEvents
      <2>2. \A t \in Threads : pc'[t] \in {"make store", "save"} => pc'[t] = pc[t]
          BY <1>6 DEF Inspect, ReadEvents, GetEngine, Goto, ThreadsOK, Procs
      <2> QED BY <2>1, <2>2, OthersKeepStore
  <1> QED BY <1>1, <1>2, <1>3, <1>4, <1>5, <1>6 DEF Next, MainStep, Procs

(* A turn saved in a store that was sure to be the last stays in the store *)
(* of the process.                                                         *)
THEOREM TurnsStay == Spec => []TurnsKept
  <1>1. Init => StoreInv
      BY DEF Init, StoreInv, Procs
  <1>2. StoreInv => TurnsKept
      BY DEF StoreInv, Sure, TurnsKept
  <1> QED BY <1>1, <1>2, InitThreads, NextThreads, NextStore, PTL DEF Spec

-----------------------------------------------------------------------------
(* The connection pool.                                                    *)

Serving == main \notin {"drop", "done"}
PoolState == [open: BOOLEAN, alone: BOOLEAN]

(* Until main() closes the pool, every pool ever made is open, replaced or *)
(* not, and who asks for one is given one.                                 *)
PoolsServe ==
    /\ pools \in Seq(PoolState)
    /\ \A p \in DOMAIN pools : pools[p].open
    /\ pool \in DOMAIN pools \cup {None}
    /\ \A t \in Threads : pc[t] = "get pool" => pool \in DOMAIN pools
    /\ \A t \in Threads : pc[t] = "borrow" => handle[t] \in DOMAIN pools

PoolInv == (Serving => PoolsServe) /\ DatabaseReachedWhileServing

(* The steps that leave the pools alone, and send nobody to one.           *)
LEMMA OthersKeepPools ==
  ASSUME PoolInv, UNCHANGED poolVars, Serving' => Serving,
         \A t \in Threads : pc'[t] \in {"get pool", "borrow"} =>
                               pc'[t] = pc[t] /\ handle'[t] = handle[t]
  PROVE  PoolInv'
  BY DEF PoolInv, poolVars, PoolsServe, DatabaseReachedWhileServing

LEMMA StepPool ==
  ASSUME ThreadsOK, PoolInv, NEW t \in Threads, Step(t)
  PROVE  PoolInv'
  <1>1. CASE \/ CheckModel(t) \/ LockModel(t) \/ CheckAgain(t) \/ Load(t)
             \/ CheckStore(t) \/ MakeStore(t) \/ ReturnStore(t) \/ SaveTurn(t)
             \/ Borrow(t) \/ Return(t)
      <2>1. UNCHANGED <<poolVars, main>>
          BY <1>1 DEF CheckModel, LockModel, CheckAgain, Load, CheckStore, MakeStore,
                      ReturnStore, SaveTurn, Borrow, Return, mainVars
      <2>2. \A s \in Threads : pc'[s] \in {"get pool", "borrow"} =>
                                  pc'[s] = pc[s] /\ handle'[s] = handle[s]
          BY <1>1 DEF CheckModel, LockModel, CheckAgain, Load, AfterModel, CheckStore,
                      MakeStore, ReturnStore, SaveTurn, Borrow, Return, Goto, Ends,
                      ThreadsOK, Procs
      <2> QED BY <2>1, <2>2, OthersKeepPools DEF Serving
  <1>2. CASE CheckPool(t)
      <2>1. UNCHANGED <<poolVars, main, handle>>
          BY <1>2 DEF CheckPool, mainVars
      <2>2. \A s \in Threads \ {t} : pc'[s] = pc[s]
          BY <1>2 DEF CheckPool, Goto, ThreadsOK, Procs
      <2>3. pc'[t] = IF pool = None THEN "make pool" ELSE "get pool"
          BY <1>2 DEF CheckPool, Goto, ThreadsOK, Procs
      <2> QED BY <2>1, <2>2, <2>3
              DEF PoolInv, poolVars, PoolsServe, Serving, DatabaseReachedWhileServing
  <1>3. CASE MakePool(t)
      <2>1. UNCHANGED <<main, failed, handle>> /\ pc'[t] = "get pool"
            /\ \A s \in Threads \ {t} : pc'[s] = pc[s]
          BY <1>3 DEF MakePool, mainVars, Goto, ThreadsOK, Procs
      <2>2. SUFFICES ASSUME Serving PROVE PoolsServe'
          BY <2>1 DEF PoolInv, Serving, DatabaseReachedWhileServing
      <2>3. PoolsServe
          BY <2>2 DEF PoolInv
      <2>4. pools \in Seq(PoolState) /\ NewPool \in PoolState /\ NewPool.open
          BY <2>3 DEF PoolsServe, NewPool, PoolState
      <2>5. pools' = Append(pools, NewPool) /\ pool' = Len(pools')
          BY <1>3 DEF MakePool
      <2>6. /\ pools' \in Seq(PoolState)
            /\ Len(pools') = Len(pools) + 1
            /\ \A p \in 1 .. Len(pools) : pools'[p] = pools[p]
            /\ pools'[Len(pools')] = NewPool
          BY <2>4, <2>5, AppendProperties
      <2>7. /\ DOMAIN pools = 1 .. Len(pools)
            /\ DOMAIN pools' = DOMAIN pools \cup {Len(pools')}
          <3>1. Len(pools) \in Nat /\ DOMAIN pools = 1 .. Len(pools)
              BY <2>4, LenProperties
          <3>2. DOMAIN pools' = 1 .. Len(pools')
              BY <2>6, LenProperties
          <3> QED BY <3>1, <3>2, <2>6
      <2> QED BY <2>1, <2>3, <2>4, <2>5, <2>6, <2>7 DEF PoolsServe
  <1>4. CASE ReturnPool(t)
      <2>1. UNCHANGED <<poolVars, main>>
          BY <1>4 DEF ReturnPool, mainVars
      <2>2. pc[t] = "get pool" /\ pc'[t] = "borrow" /\ handle'[t] = pool
          BY <1>4 DEF ReturnPool, Goto, ThreadsOK, Procs
      <2>3. \A s \in Threads \ {t} : pc'[s] = pc[s] /\ handle'[s] = handle[s]
          BY <1>4 DEF ReturnPool, Goto, ThreadsOK, Procs
      <2> QED BY <2>1, <2>2, <2>3
              DEF PoolInv, poolVars, PoolsServe, Serving, DatabaseReachedWhileServing
  <1>5. CASE BorrowFails(t)
      <2>1. UNCHANGED <<pool, pools, main>> /\ pc[t] = "borrow"
          BY <1>5 DEF BorrowFails, mainVars
      <2>2. \A s \in Threads : pc'[s] \in {"get pool", "borrow"} =>
                                  pc'[s] = pc[s] /\ handle'[s] = handle[s]
          BY <1>5 DEF BorrowFails, Ends, Goto, ThreadsOK, Procs
      <2>3. failed' = failed \cup {[why |-> WhyFailed(handle[t]), main |-> main]}
          BY <1>5 DEF BorrowFails
      <2>4. Serving => WhyFailed(handle[t]) = "exhausted"
          <3> SUFFICES ASSUME Serving PROVE WhyFailed(handle[t]) = "exhausted"
              OBVIOUS
          <3>1. handle[t] \in DOMAIN pools /\ pools[handle[t]].open
              BY <2>1 DEF PoolInv, PoolsServe
          <3>2. pools \in Seq(PoolState)
              BY DEF PoolInv, PoolsServe
          <3>3. Len(pools) \in Nat /\ DOMAIN pools = 1 .. Len(pools)
              BY <3>2, LenProperties
          <3>4. handle[t] # None
              BY <3>1, <3>3, ServerAssumption
          <3> QED BY <3>1, <3>4 DEF WhyFailed
      <2>5. (Serving => PoolsServe)'
          BY <2>1, <2>2 DEF PoolInv, PoolsServe, Serving
      <2>6. DatabaseReachedWhileServing'
          BY <2>3, <2>4 DEF PoolInv, Serving, DatabaseReachedWhileServing
      <2> QED BY <2>5, <2>6 DEF PoolInv
  <1> QED BY <1>1, <1>2, <1>3, <1>4, <1>5 DEF Step

LEMMA NextPool == ThreadsOK /\ PoolInv /\ [Next]_vars => PoolInv'
  <1> SUFFICES ASSUME ThreadsOK, PoolInv, [Next]_vars PROVE PoolInv'
      OBVIOUS
  <1>1. CASE UNCHANGED vars
      BY <1>1, OthersKeepPools DEF vars, mainVars, Serving
  <1>2. CASE \E t \in Threads : Step(t)
      BY <1>2, StepPool
  <1>3. CASE Step(Main)
      <2>1. UNCHANGED <<poolVars, main>>
          BY <1>3, MainLoads DEF CheckModel, LockModel, CheckAgain, Load, mainVars
      <2>2. \A t \in Threads : handle'[t] = handle[t] /\ pc'[t] = pc[t]
          BY <1>3, MainLoads, ServerAssumption
             DEF CheckModel, LockModel, CheckAgain, Load, Goto, ThreadsOK, Threads,
                 Procs
      <2> QED BY <2>1, <2>2, OthersKeepPools DEF Serving
  <1>4. CASE WarmUp
      <2>1. UNCHANGED poolVars /\ Serving
          BY <1>4 DEF WarmUp, Serving
      <2>2. \A t \in Threads : handle'[t] = handle[t] /\ pc'[t] = pc[t]
          BY <1>4, ServerAssumption DEF WarmUp, GetEngine, Goto, ThreadsOK, Threads,
                                        Procs
      <2> QED BY <2>1, <2>2, OthersKeepPools
  <1>5. CASE \/ StartGrpc \/ StartApi \/ StopServing \/ JoinApi
             \/ Signal \/ StreamOpens \/ StreamCloses \/ ApiEnds
      <2>1. UNCHANGED <<poolVars, pc, handle>> /\ (Serving' => Serving)
          BY <1>5 DEF StartGrpc, StartApi, StopServing, JoinApi, Signal, StreamOpens,
                      StreamCloses, ApiEnds, OnlyMain, Serving
      <2> QED BY <2>1, OthersKeepPools
  <1>6. CASE ClosePool \/ DropPool
      <2>1. failed' = failed /\ ~ Serving'
          BY <1>6 DEF ClosePool, DropPool, Serving
      <2> QED BY <2>1 DEF PoolInv, DatabaseReachedWhileServing
  <1>7. CASE \E t \in Threads : Inspect(t) \/ ReadEvents(t)
      <2>1. UNCHANGED <<poolVars, handle, main>>
          BY <1>7 DEF Inspect, ReadEvents, mainVars
      <2>2. \A t \in Threads : pc'[t] \in {"get pool", "borrow"} => pc'[t] = pc[t]
          BY <1>7 DEF Inspect, ReadEvents, GetEngine, Goto, ThreadsOK, Procs
      <2> QED BY <2>1, <2>2, OthersKeepPools DEF Serving
  <1> QED BY <1>1, <1>2, <1>3, <1>4, <1>5, <1>6, <1>7 DEF Next, MainStep, Procs

(* A call that the database fails before the stop has met every connection *)
(* in use, however many pools the first calls have made.                   *)
THEOREM DatabaseIsReached == Spec => []DatabaseReachedWhileServing
  <1>1. Init => PoolInv
      BY DEF Init, PoolInv, PoolsServe, Serving, DatabaseReachedWhileServing, Procs
  <1>2. PoolInv => DatabaseReachedWhileServing
      BY DEF PoolInv
  <1> QED BY <1>1, <1>2, InitThreads, NextThreads, NextPool, PTL DEF Spec

-----------------------------------------------------------------------------
(* The end of the process.                                                 *)

(* While the server serves, there are no pools but the one it uses, unless *)
(* two first calls made one each; when main() has closed that one, none is *)
(* open, unless a call that outlasted the stop has made another.           *)
AllAlone == \A p \in DOMAIN pools : pools[p].alone
ExitInv ==
    /\ pools \in Seq(PoolState)
    /\ Serving /\ pool = None => DOMAIN pools = {}
    /\ Serving /\ AllAlone => DOMAIN pools \subseteq {pool}
    /\ ~Serving /\ AllAlone => \A p \in DOMAIN pools : ~pools[p].open

LEMMA PoolAdded ==
  ASSUME ExitInv, NEW t \in Procs, MakePool(t)
  PROVE  ExitInv'
  <1>1. PICK new : new = NewPool
      OBVIOUS
  <1>2. new \in PoolState /\ new.alone = (pool = None /\ Serving)
      BY <1>1 DEF NewPool, PoolState, Serving
  <1>3. pools' = Append(pools, new) /\ pool' = Len(pools') /\ main' = main
      BY <1>1 DEF MakePool, mainVars
  <1>4. /\ pools' \in Seq(PoolState) /\ Len(pools') = Len(pools) + 1
        /\ pools'[Len(pools) + 1] = new
      BY <1>2, <1>3, AppendProperties DEF ExitInv
  <1>5. /\ Len(pools) \in Nat /\ DOMAIN pools = 1 .. Len(pools)
        /\ DOMAIN pools' = 1 .. Len(pools')
      BY <1>4, LenProperties DEF ExitInv
  <1>6. Len(pools') \in DOMAIN pools' /\ pools'[Len(pools')] = new /\ pool' # None
      BY <1>3, <1>4, <1>5, ServerAssumption
  <1>7. AllAlone' => pool = None /\ Serving
      BY <1>2, <1>6, Zenon DEF AllAlone
  <1>8. AllAlone' => DOMAIN pools' \subseteq {pool'}
    <2>1. AllAlone' => DOMAIN pools = {}
        BY <1>7 DEF ExitInv
    <2>2. AllAlone' => Len(pools) = 0
        BY <1>5, <2>1
    <2> QED BY <1>3, <1>4, <1>5, <2>2
  <1>9. Serving' = Serving
      BY <1>3 DEF Serving
  <1> QED BY <1>4, <1>6, <1>7, <1>8, <1>9 DEF ExitInv

LEMMA PoolClosed ==
  ASSUME ExitInv, ClosePool
  PROVE  ExitInv'
  <1>1. Serving /\ ~Serving' /\ pools' = Closed(pool)
      BY DEF ClosePool, Serving
  <1>2. /\ DOMAIN pools' = DOMAIN pools
        /\ \A p \in DOMAIN pools : /\ pools'[p] \in PoolState
                                   /\ pools'[p].alone = pools[p].alone
                                   /\ p = pool => ~pools'[p].open
    <2>1. \A p \in DOMAIN pools : pools[p] \in PoolState
        BY LenProperties, ElementOfSeq DEF ExitInv
    <2> QED BY <1>1, <2>1 DEF Closed, PoolState
  <1>3. pools' \in Seq(PoolState)
    <2>1. Len(pools) \in Nat /\ DOMAIN pools = 1 .. Len(pools)
        BY LenProperties DEF ExitInv
    <2>2. pools' \in [1 .. Len(pools) -> PoolState]
        BY <1>1, <1>2, <2>1 DEF Closed
    <2> QED BY <2>1, <2>2, SeqDef
  <1>4. AllAlone' => AllAlone
      BY <1>2 DEF AllAlone
  <1>5. AllAlone' => \A p \in DOMAIN pools' : ~pools'[p].open
      BY <1>1, <1>2, <1>4 DEF ExitInv
  <1> QED BY <1>1, <1>3, <1>5 DEF ExitInv

LEMMA NextExit == ExitInv /\ [Next]_vars => ExitInv'
  <1> SUFFICES ASSUME ExitInv, [Next]_vars PROVE ExitInv'
      OBVIOUS
  <1>1. ASSUME pools' = pools, pool' = pool, Serving' <=> Serving
        PROVE  ExitInv'
      BY <1>1 DEF ExitInv, AllAlone
  <1>2. ASSUME NEW t \in Procs, Step(t), ~MakePool(t)
        PROVE  ExitInv'
    <2>1. UNCHANGED <<pools, pool, main>>
        BY <1>2 DEF Step, CheckModel, LockModel, CheckAgain, Load, CheckStore,
               MakeStore, ReturnStore, SaveTurn, CheckPool, ReturnPool, Borrow,
               BorrowFails, Return, mainVars, poolVars
    <2> QED BY <1>1, <2>1 DEF Serving
  <1>3. CASE DropPool
    <2>1. pools' = pools /\ ~Serving /\ ~Serving'
        BY <1>3 DEF DropPool, Serving
    <2> QED BY <2>1 DEF ExitInv, AllAlone
  <1>4. CASE \/ WarmUp \/ StartGrpc \/ StartApi \/ StopServing \/ JoinApi
             \/ Signal \/ StreamOpens \/ StreamCloses \/ ApiEnds
             \/ (\E t \in Threads : Inspect(t) \/ ReadEvents(t))
             \/ UNCHANGED vars
    <2>1. UNCHANGED poolVars /\ (Serving' <=> Serving)
        BY <1>4 DEF WarmUp, StartGrpc, StartApi, StopServing, JoinApi, Signal,
               StreamOpens, StreamCloses, ApiEnds, Inspect, ReadEvents, OnlyMain,
               Serving, mainVars, vars
    <2> QED BY <1>1, <2>1 DEF poolVars
  <1> QED BY <1>2, <1>3, <1>4, PoolAdded, PoolClosed DEF Next, MainStep

(* When the process has ended, every pool it made has been closed, if only *)
(* one call made one, and none did after the stop.                         *)
THEOREM PoolsAreClosed == Spec => []PoolsClosedAtExit
  <1>1. Init => ExitInv
      BY EmptySeq DEF Init, ExitInv, AllAlone, Serving
  <1>2. ExitInv => PoolsClosedAtExit
      BY DEF ExitInv, AllAlone, Serving, PoolsClosedAtExit
  <1> QED BY <1>1, <1>2, NextExit, PTL DEF Spec
=============================================================================
