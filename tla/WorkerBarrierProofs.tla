------------------------- MODULE WorkerBarrierProofs -------------------------
(***************************************************************************)
(* Proofs about WorkerBarrier, for any number of workers and blocks and    *)
(* any threads that are not created: the two mutexes of each worker keep   *)
(* the main thread and the workers apart, and the file is the signal.      *)
(***************************************************************************)
EXTENDS WorkerBarrier, TLAPS

USE BarrierAssumption DEF Workers

(* The loops over the workers stay inside of them.                         *)
LEMMA TurnTyped ==
  ASSUME iThread \in Workers, NEW next, Turn(next)
  PROVE  /\ iThread' \in Workers
         /\ \/ pcMain' = pcMain /\ iThread' = iThread + 1
            \/ pcMain' = next /\ iThread' = 0 /\ iThread = NumThreads - 1
  BY DEF Turn

(* A part of a block that was asked for has its type.                      *)
LEMMA PartTyped ==
  ASSUME NEW n \in 0 .. NumBlocks, NEW p \in Nat PROVE Part(n, p) \in Parts
  BY DEF Part, Parts

(* What a worker has done while the threads are created.                   *)
LEMMA CreatedSoFar ==
  ASSUME IInv, pcMain = "create", NEW k \in Workers
  PROVE  pc[k] \in {"none", "lock", "failed"} /\ computed[k] = 0
<1>1. k \in Int /\ iThread \in Int
  BY DEF IInv, TypeOK
<1>2. k < iThread \/ k >= iThread
  BY <1>1
<1> QED  BY <1>2 DEF IInv, Created

LEMMA InitIInv == Init => IInv
<1> SUFFICES ASSUME Init PROVE IInv  OBVIOUS
<1>1. TypeOK
  BY DEF Init, TypeOK, Parts, Nothing, Part
<1>2. Created /\ Barrier /\ Farewell /\ Output
  BY DEF Init, Created, Barrier, Farewell, Output, Loop
<1> QED  BY <1>1, <1>2 DEF IInv

(* The steps of the main thread.                                           *)
LEMMA CreateCorrect == IInv /\ Create => IInv'
<1> SUFFICES ASSUME IInv, Create PROVE IInv'  OBVIOUS
<1> USE DEF IInv
<1>0. /\ iThread' \in Workers
      /\ \/ pcMain' = pcMain /\ iThread' = iThread + 1
         \/ pcMain' = LoopTest(1) /\ iThread' = 0 /\ iThread = NumThreads - 1
  BY TurnTyped DEF Create, TypeOK
<1>1. TypeOK'
  BY <1>0 DEF Create, TypeOK, workerVars, LoopTest
<1>2. Created'
  BY <1>0 DEF Create, TypeOK, Created, LoopTest
<1>3. Barrier'
  BY <1>0 DEF Create, TypeOK, Created, Barrier, Output, Delivered, Waits, Handshake, Missing,
     LoopTest
<1>4. Farewell'
  BY <1>0 DEF Create, TypeOK, Created, Farewell, Ending, Waits, Dismissed, LoopTest
<1>5. Output'
  BY <1>0 DEF Create, Output, Loop, Ending, LoopTest
<1> QED  BY <1>1, <1>2, <1>3, <1>4, <1>5

LEMMA PrepareCorrect == IInv /\ Prepare => IInv'
<1> SUFFICES ASSUME IInv, Prepare PROVE IInv'  OBVIOUS
<1> USE DEF IInv
<1>1. TypeOK'
  <2>1. iumd \in 0 .. NumBlocks
    BY DEF Prepare, TypeOK, Output, Loop
  <2> QED  BY <2>1 DEF Prepare, TypeOK, workerVars, syncVars
<1>2. Created'
  BY DEF Prepare, TypeOK, Created, workerVars
<1>3. Barrier'
  <2> SUFFICES ASSUME NEW k \in Workers, pcMain' \in Loop
               PROVE  IF pc[k]' = "failed" THEN Missing(k)' ELSE Handshake(k)'
    BY DEF Barrier
  <2>1. pc[k]' = pc[k] /\ IF pc[k] = "failed" THEN Missing(k) ELSE Handshake(k)
    BY DEF Prepare, Barrier, Loop, workerVars
  <2>2. CASE pc[k] = "failed"
    BY <2>1, <2>2 DEF Prepare, Missing, workerVars, syncVars
  <2>3. CASE pc[k] # "failed"
    BY <2>1, <2>3 DEF Prepare, Released, Delivered, Waits, Handshake, workerVars, syncVars
  <2> QED  BY <2>1, <2>2, <2>3
<1>4. Farewell'
  BY DEF Prepare, Farewell, Ending
<1>5. Output'
  BY DEF Prepare, Output, Loop, Ending
<1> QED  BY <1>1, <1>2, <1>3, <1>4, <1>5

LEMMA ReleaseCorrect == IInv /\ Release => IInv'
<1> SUFFICES ASSUME IInv, Release PROVE IInv'  OBVIOUS
<1> USE DEF IInv
<1>0. /\ iThread' \in Workers
      /\ \/ pcMain' = pcMain /\ iThread' = iThread + 1
         \/ pcMain' = "write" /\ iThread' = 0 /\ iThread = NumThreads - 1
  BY TurnTyped DEF Release, TypeOK
<1>1. TypeOK'
  BY <1>0 DEF Release, TypeOK, mainVars, workerVars
<1>2. Created'
  BY <1>0 DEF Release, TypeOK, Created, workerVars
<1>3. Barrier'
  <2> SUFFICES ASSUME NEW k \in Workers, pcMain' \in Loop
               PROVE  IF pc[k]' = "failed" THEN Missing(k)' ELSE Handshake(k)'
    BY DEF Barrier
  <2>1. pc[k]' = pc[k] /\ IF pc[k] = "failed" THEN Missing(k) ELSE Handshake(k)
    BY DEF Release, Barrier, Loop, workerVars
  <2>2. CASE pc[k] = "failed"
    BY <2>1, <2>2, <1>0 DEF Release, TypeOK, Missing, workerVars
  <2>3. CASE pc[k] # "failed"
    <3>1. /\ k \in Int /\ iThread \in Int /\ iumd \in Nat \ {0} /\ pcMain = "release"
          /\ iumd' = iumd /\ stopLocked' = stopLocked
          /\ seesRunning' = seesRunning /\ computed' = computed /\ accBuff' = accBuff
          /\ isRunning' = isRunning /\ pc' = pc
      BY DEF Release, TypeOK, workerVars
    <3>2. Released(k)' <=> (Released(k) \/ k = iThread)
      BY <1>0, <3>1 DEF Released
    <3>3. Handshake(k)
      BY <2>1, <2>3
    <3>4. CASE k = iThread
      <4>1. ~Released(k) /\ Delivered(k) = iumd - 1
        BY <3>1, <3>4 DEF Released, Delivered
      <4> QED  BY <3>1, <3>2, <3>3, <3>4, <4>1 DEF Handshake, Waits
    <3>5. CASE k # iThread
      <4>1. startLocked'[k] = startLocked[k]
        BY <3>5 DEF Release, TypeOK
      <4>2. Delivered(k)' = Delivered(k)
        BY <1>0, <3>1 DEF Delivered
      <4> QED  BY <3>1, <3>2, <3>3, <3>5, <4>1, <4>2 DEF Handshake, Waits, RightPart
    <3> QED  BY <3>4, <3>5
  <2> QED  BY <2>1, <2>2, <2>3
<1>4. Farewell'
  BY <1>0 DEF Release, Farewell, Ending
<1>5. Output'
  BY <1>0 DEF Release, Output, Loop, Ending
<1> QED  BY <1>1, <1>2, <1>3, <1>4, <1>5

LEMMA WriteCorrect == IInv /\ Write => IInv'
<1> SUFFICES ASSUME IInv, Write PROVE IInv'  OBVIOUS
<1> USE DEF IInv
<1>1. TypeOK'
  <2>1. BlockInSums \in Int
    BY DEF BlockInSums, TypeOK
  <2>2. file' \in Seq(Int)
    BY <2>1 DEF Write, TypeOK
  <2>3. accArr' \in [Workers -> Parts]
    BY PartTyped DEF Write, Nothing
  <2> QED  BY <2>2, <2>3 DEF Write, TypeOK, workerVars, syncVars
<1>2. Created'
  BY DEF Write, TypeOK, Created, workerVars
<1>3. Barrier'
  BY DEF Write, Barrier, Output, Loop, Released, Waits, Handshake, Missing, workerVars, syncVars
<1>4. Farewell'
  BY DEF Write, Farewell, Ending
<1>5. Output'
  BY DEF Write, TypeOK, Output, Ending
<1> QED  BY <1>1, <1>2, <1>3, <1>4, <1>5

LEMMA CollectCorrect == IInv /\ Collect => IInv'
<1> SUFFICES ASSUME IInv, Collect PROVE IInv'  OBVIOUS
<1> USE DEF IInv
<1>0. /\ iThread' \in Workers
      /\ \/ pcMain' = pcMain /\ iThread' = iThread + 1
         \/ pcMain' = "sum" /\ iThread' = 0 /\ iThread = NumThreads - 1
  BY TurnTyped DEF Collect, TypeOK
<1>1. TypeOK'
  BY <1>0 DEF Collect, TypeOK, mainVars, workerVars
<1>2. Created'
  BY <1>0 DEF Collect, TypeOK, Created, workerVars
<1>3. Barrier'
  <2> SUFFICES ASSUME NEW k \in Workers, pcMain' \in Loop
               PROVE  IF pc[k]' = "failed" THEN Missing(k)' ELSE Handshake(k)'
    BY DEF Barrier
  <2>1. pc[k]' = pc[k] /\ IF pc[k] = "failed" THEN Missing(k) ELSE Handshake(k)
    BY DEF Collect, Barrier, Loop, workerVars
  <2>2. CASE pc[k] = "failed"
    <3>1. /\ k \in Int /\ iThread \in 0 .. NumThreads - 1 /\ pcMain = "collect" /\ Missing(k)
          /\ iumd' = iumd /\ computed' = computed /\ ~stopLocked[iThread]
      BY <2>1, <2>2 DEF Collect, TypeOK, workerVars
    <3>2. k > iThread /\ stopLocked'[k]
      BY <3>1 DEF Missing, Collect, TypeOK
    <3>3. k >= iThread' /\ pcMain' = "collect"
      BY <1>0, <3>1, <3>2
    <3> QED  BY <1>0, <2>1, <2>2, <3>1, <3>2, <3>3 DEF Missing
  <2>3. CASE pc[k] # "failed"
    BY <2>1, <2>3, <1>0 DEF Collect, TypeOK, Released, Delivered, Waits, Handshake, workerVars
  <2> QED  BY <2>1, <2>2, <2>3
<1>4. Farewell'
  BY <1>0 DEF Collect, Farewell, Ending
<1>5. Output'
  BY SMTT(20), <1>0 DEF Collect, TypeOK, Output, Ending
<1> QED  BY <1>1, <1>2, <1>3, <1>4, <1>5

LEMMA SumCorrect == IInv /\ Sum => IInv'
<1> SUFFICES ASSUME IInv, Sum PROVE IInv'  OBVIOUS
<1> USE DEF IInv
<1>1. TypeOK'
  BY DEF Sum, TypeOK, workerVars, syncVars
<1>2. Created'
  BY DEF Sum, TypeOK, Created, workerVars
<1>3. Barrier'
  BY DEF Sum, Barrier, Loop, Released, Delivered, Waits, Handshake, Missing, workerVars, syncVars
<1>4. Farewell'
  BY DEF Sum, Farewell, Ending
<1>5. Output'
  BY DEF Sum, TypeOK, Barrier, Output, Loop, Ending, Released, Delivered, Handshake, Missing
<1> QED  BY <1>1, <1>2, <1>3, <1>4, <1>5

LEMMA RefreshCorrect == IInv /\ Refresh => IInv'
<1> SUFFICES ASSUME IInv, Refresh PROVE IInv'  OBVIOUS
<1> USE DEF IInv
<1>1. TypeOK'
  BY DEF Refresh, TypeOK, workerVars, syncVars, Output, Loop, LoopTest
<1>2. Created'
  BY DEF Refresh, TypeOK, Created, LoopTest
<1>3. Barrier'
  BY DEF Refresh, TypeOK, Barrier, Loop, Released, Delivered, Waits, Handshake, Missing,
     workerVars, syncVars, LoopTest
<1>4. Farewell'
  BY DEF Refresh, TypeOK, Barrier, Farewell, Output, Loop, Ending, Released, Delivered, Waits,
     Handshake, Missing, Dismissed, workerVars, syncVars, LoopTest
<1>5. Output'
  BY DEF Refresh, TypeOK, Output, Loop, Ending, LoopTest
<1> QED  BY <1>1, <1>2, <1>3, <1>4, <1>5

LEMMA EndFlagCorrect == IInv /\ EndFlag => IInv'
<1> SUFFICES ASSUME IInv, EndFlag PROVE IInv'  OBVIOUS
<1> USE DEF IInv
<1>1. TypeOK'
  BY DEF EndFlag, TypeOK, mainVars, workerVars
<1>2. Created'
  BY DEF EndFlag, TypeOK, Created, workerVars
<1>3. Barrier'
  BY DEF EndFlag, TypeOK, Barrier, Loop
<1>4. Farewell'
  BY DEF EndFlag, TypeOK, Farewell, Ending, Waits, Dismissed, workerVars
<1>5. Output'
  BY DEF EndFlag, Output, Loop, Ending
<1> QED  BY <1>1, <1>2, <1>3, <1>4, <1>5

LEMMA EndStartCorrect == IInv /\ EndStart => IInv'
<1> SUFFICES ASSUME IInv, EndStart PROVE IInv'  OBVIOUS
<1> USE DEF IInv
<1>1. TypeOK'
  BY DEF EndStart, TypeOK, mainVars, workerVars
<1>2. Created'
  BY DEF EndStart, TypeOK, Created, workerVars
<1>3. Barrier'
  BY DEF EndStart, TypeOK, Barrier, Loop
<1>4. Farewell'
  BY DEF EndStart, Farewell, Ending, Waits, Dismissed, workerVars
<1>5. Output'
  BY DEF EndStart, Output, Loop, Ending
<1> QED  BY <1>1, <1>2, <1>3, <1>4, <1>5

LEMMA EndStopCorrect == IInv /\ EndStop => IInv'
<1> SUFFICES ASSUME IInv, EndStop PROVE IInv'  OBVIOUS
<1> USE DEF IInv
<1>1. TypeOK'
  BY DEF EndStop, TypeOK, mainVars, workerVars
<1>2. Created'
  BY DEF EndStop, TypeOK, Created, workerVars
<1>3. Barrier'
  BY DEF EndStop, TypeOK, Barrier, Loop
<1>4. Farewell'
  <2>1. /\ iThread \in 0 .. NumThreads - 1 /\ pcMain = "end_stop" /\ workerVars' = workerVars
        /\ startLocked' = startLocked /\ isRunning' = isRunning /\ live' = live
    BY DEF EndStop, TypeOK, workerVars
  <2>2. ASSUME NEW k \in Workers
        PROVE  /\ Dismissed(k)' <=> Dismissed(k)
               /\ ~(k = iThread' /\ pcMain' = "end_start")
    BY <2>1 DEF EndStop, Dismissed
  <2> QED  BY <2>1, <2>2 DEF Farewell, Ending, Waits, workerVars
<1>5. Output'
  BY DEF EndStop, Output, Loop, Ending
<1> QED  BY <1>1, <1>2, <1>3, <1>4, <1>5

LEMMA JoinCorrect == IInv /\ Join => IInv'
<1> SUFFICES ASSUME IInv, Join PROVE IInv'  OBVIOUS
<1> USE DEF IInv
<1>1. TypeOK'
  BY DEF Join, TypeOK, workerVars, syncVars
<1>2. Created'
  BY DEF Join, TypeOK, Created, workerVars
<1>3. Barrier'
  BY DEF Join, TypeOK, Barrier, Loop
<1>4. Farewell'
  BY DEF Join, Farewell, Ending, Waits, Dismissed, workerVars, syncVars
<1>5. Output'
  BY DEF Join, Output, Loop, Ending
<1> QED  BY <1>1, <1>2, <1>3, <1>4, <1>5

LEMMA FreeCorrect == IInv /\ Free => IInv'
<1> SUFFICES ASSUME IInv, Free PROVE IInv'  OBVIOUS
<1> USE DEF IInv
<1>1. TypeOK'
  BY DEF Free, TypeOK, workerVars, syncVars
<1>2. Created'
  BY DEF Free, TypeOK, Created, workerVars
<1>3. Barrier'
  BY DEF Free, TypeOK, Barrier, Loop
<1>4. Farewell'
  BY DEF Free, Farewell, Ending, Waits, Dismissed, workerVars, syncVars
<1>5. Output'
  BY DEF Free, Output, Loop, Ending
<1> QED  BY <1>1, <1>2, <1>3, <1>4, <1>5

(* The steps of a worker.  They disturb Handshake of that worker only.     *)
LEMMA LockStartCorrect ==
  ASSUME IInv, NEW w \in Workers, LockStart(w) PROVE IInv'
<1> USE DEF IInv
<1>1. TypeOK'
  BY DEF LockStart, TypeOK, mainVars, workerVars
<1>2. Created'
  BY DEF LockStart, TypeOK, Created, mainVars
<1>3. Barrier'
  <2> SUFFICES ASSUME NEW k \in Workers, pcMain \in Loop
               PROVE  IF pc[k]' = "failed" THEN Missing(k)' ELSE Handshake(k)'
    BY DEF Barrier, LockStart, mainVars
  <2>1. IF pc[k] = "failed" THEN Missing(k) ELSE Handshake(k)
    BY DEF Barrier
  <2>2. CASE k = w
    BY <2>1, <2>2 DEF LockStart, TypeOK, Released, Handshake, mainVars
  <2>3. CASE k # w
    <3>1. /\ pc'[k] = pc[k] /\ startLocked'[k] = startLocked[k] /\ stopLocked'[k] = stopLocked[k]
          /\ isRunning'[k] = isRunning[k] /\ seesRunning'[k] = seesRunning[k]
          /\ computed'[k] = computed[k] /\ accBuff'[k] = accBuff[k] /\ UNCHANGED mainVars
      BY <2>3 DEF LockStart, TypeOK, mainVars, workerVars
    <3> QED  BY <2>1, <3>1 DEF Released, Delivered, Waits, Handshake, Missing, mainVars
  <2> QED  BY <2>2, <2>3
<1>4. Farewell'
  BY DEF LockStart, Created, Farewell, Waits, Dismissed, mainVars
<1>5. Output'
  BY DEF LockStart, Output, mainVars, workerVars
<1> QED  BY <1>1, <1>2, <1>3, <1>4, <1>5

LEMMA ReadRunningCorrect ==
  ASSUME IInv, NEW w \in Workers, ReadRunning(w) PROVE IInv'
<1> USE DEF IInv
<1>1. TypeOK'
  BY DEF ReadRunning, TypeOK, mainVars, syncVars
<1>2. Created'
  BY DEF ReadRunning, Created, mainVars, syncVars
<1>3. Barrier'
  <2> SUFFICES ASSUME NEW k \in Workers, pcMain \in Loop
               PROVE  IF pc[k]' = "failed" THEN Missing(k)' ELSE Handshake(k)'
    BY DEF Barrier, ReadRunning, mainVars
  <2>1. IF pc[k] = "failed" THEN Missing(k) ELSE Handshake(k)
    BY DEF Barrier
  <2>2. CASE k = w
    BY <2>1, <2>2 DEF ReadRunning, Released, Waits, Handshake, mainVars, syncVars
  <2>3. CASE k # w
    <3>1. /\ pc'[k] = pc[k] /\ startLocked'[k] = startLocked[k] /\ stopLocked'[k] = stopLocked[k]
          /\ isRunning'[k] = isRunning[k] /\ seesRunning'[k] = seesRunning[k]
          /\ computed'[k] = computed[k] /\ accBuff'[k] = accBuff[k] /\ UNCHANGED mainVars
      BY <2>3 DEF ReadRunning, TypeOK, workerVars, syncVars
    <3> QED  BY <2>1, <3>1 DEF Released, Delivered, Waits, Handshake, Missing, mainVars
  <2> QED  BY <2>2, <2>3
<1>4. Farewell'
  BY DEF ReadRunning, TypeOK, Farewell, Waits, Dismissed, mainVars, syncVars
<1>5. Output'
  BY DEF ReadRunning, Output, mainVars, workerVars
<1> QED  BY <1>1, <1>2, <1>3, <1>4, <1>5

LEMMA WorkCorrect ==
  ASSUME IInv, NEW w \in Workers, Work(w) PROVE IInv'
<1> USE DEF IInv
<1>1. TypeOK'
  <2>1. Part(prepared, computed[w]) \in Parts
    BY PartTyped DEF TypeOK
  <2> QED  BY <2>1 DEF Work, TypeOK, mainVars, syncVars
<1>2. Created'
  <2>1. pcMain # "create"
    BY CreatedSoFar DEF Work
  <2> QED  BY <2>1 DEF Work, Created, mainVars
<1>3. Barrier'
  <2> SUFFICES ASSUME NEW k \in Workers, pcMain \in Loop
               PROVE  IF pc[k]' = "failed" THEN Missing(k)' ELSE Handshake(k)'
    BY DEF Barrier, Work, mainVars
  <2>1. IF pc[k] = "failed" THEN Missing(k) ELSE Handshake(k)
    BY DEF Barrier
  <2>2. CASE k = w
    BY <2>1, <2>2 DEF Work, TypeOK, Output, Released, Waits, Handshake, RightPart, mainVars,
       syncVars
  <2>3. CASE k # w
    <3>1. /\ pc'[k] = pc[k] /\ startLocked'[k] = startLocked[k] /\ stopLocked'[k] = stopLocked[k]
          /\ isRunning'[k] = isRunning[k] /\ seesRunning'[k] = seesRunning[k]
          /\ computed'[k] = computed[k] /\ accBuff'[k] = accBuff[k] /\ UNCHANGED mainVars
      BY <2>3 DEF Work, TypeOK, workerVars, syncVars
    <3> QED  BY <2>1, <3>1 DEF Released, Delivered, Waits, Handshake, Missing, mainVars
  <2> QED  BY <2>2, <2>3
<1>4. Farewell'
  BY ZenonT(60) DEF Work, TypeOK, Farewell, Waits, Dismissed, mainVars, syncVars
<1>5. Output'
  BY DEF Work, Output, mainVars, workerVars
<1> QED  BY <1>1, <1>2, <1>3, <1>4, <1>5

LEMMA UnlockStopCorrect ==
  ASSUME IInv, NEW w \in Workers, UnlockStop(w) PROVE IInv'
<1> USE DEF IInv
<1>1. TypeOK'
  BY DEF UnlockStop, TypeOK, mainVars, workerVars
<1>2. Created'
  BY DEF UnlockStop, TypeOK, Created, mainVars
<1>3. Barrier'
  <2> SUFFICES ASSUME NEW k \in Workers, pcMain \in Loop
               PROVE  IF pc[k]' = "failed" THEN Missing(k)' ELSE Handshake(k)'
    BY DEF Barrier, UnlockStop, mainVars
  <2>1. IF pc[k] = "failed" THEN Missing(k) ELSE Handshake(k)
    BY DEF Barrier
  <2>2. CASE k = w
    BY <2>1, <2>2 DEF UnlockStop, TypeOK, Released, Waits, Handshake, mainVars
  <2>3. CASE k # w
    <3>1. /\ pc'[k] = pc[k] /\ startLocked'[k] = startLocked[k] /\ stopLocked'[k] = stopLocked[k]
          /\ isRunning'[k] = isRunning[k] /\ seesRunning'[k] = seesRunning[k]
          /\ computed'[k] = computed[k] /\ accBuff'[k] = accBuff[k] /\ UNCHANGED mainVars
      BY <2>3 DEF UnlockStop, TypeOK, mainVars, workerVars
    <3> QED  BY <2>1, <3>1 DEF Released, Delivered, Waits, Handshake, Missing, mainVars
  <2> QED  BY <2>2, <2>3
<1>4. Farewell'
  BY DEF UnlockStop, Farewell, Waits, Dismissed, mainVars
<1>5. Output'
  BY DEF UnlockStop, Output, mainVars, workerVars
<1> QED  BY <1>1, <1>2, <1>3, <1>4, <1>5

LEMMA LoopOrEndCorrect ==
  ASSUME IInv, NEW w \in Workers, LoopOrEnd(w) PROVE IInv'
<1> USE DEF IInv
<1>1. TypeOK'
  BY DEF LoopOrEnd, TypeOK, mainVars, syncVars
<1>2. Created'
  BY DEF LoopOrEnd, TypeOK, Created, mainVars
<1>3. Barrier'
  <2> SUFFICES ASSUME NEW k \in Workers, pcMain \in Loop
               PROVE  IF pc[k]' = "failed" THEN Missing(k)' ELSE Handshake(k)'
    BY DEF Barrier, LoopOrEnd, mainVars
  <2>1. IF pc[k] = "failed" THEN Missing(k) ELSE Handshake(k)
    BY DEF Barrier
  <2>2. CASE k = w
    BY <2>1, <2>2 DEF LoopOrEnd, Released, Delivered, Waits, Handshake, mainVars, syncVars
  <2>3. CASE k # w
    <3>1. /\ pc'[k] = pc[k] /\ startLocked'[k] = startLocked[k] /\ stopLocked'[k] = stopLocked[k]
          /\ isRunning'[k] = isRunning[k] /\ seesRunning'[k] = seesRunning[k]
          /\ computed'[k] = computed[k] /\ accBuff'[k] = accBuff[k] /\ UNCHANGED mainVars
      BY <2>3 DEF LoopOrEnd, TypeOK, workerVars, syncVars
    <3> QED  BY <2>1, <3>1 DEF Released, Delivered, Waits, Handshake, Missing, mainVars
  <2> QED  BY <2>2, <2>3
<1>4. Farewell'
  BY DEF LoopOrEnd, Farewell, Waits, Dismissed, mainVars, syncVars
<1>5. Output'
  BY DEF LoopOrEnd, Output, mainVars, workerVars
<1> QED  BY <1>1, <1>2, <1>3, <1>4, <1>5

LEMMA StrayCorrect ==
  ASSUME IInv, NEW w \in Workers, Stray(w) PROVE IInv'
<1> USE DEF IInv
<1>1. TypeOK'
  BY DEF Stray, TypeOK, mainVars, syncVars
<1>2. Created'
  BY DEF Stray, Created, mainVars, Output
<1>3. Barrier'
  <2> SUFFICES ASSUME NEW k \in Workers, pcMain \in Loop
               PROVE  IF pc[k]' = "failed" THEN Missing(k)' ELSE Handshake(k)'
    BY DEF Barrier, Stray, mainVars
  <2>1. IF pc[k] = "failed" THEN Missing(k) ELSE Handshake(k)
    BY DEF Barrier
  <2>2. CASE k = w
    BY <2>1, <2>2 DEF Stray, TypeOK, Output, Loop
  <2>3. CASE k # w
    <3>1. /\ pc'[k] = pc[k] /\ startLocked'[k] = startLocked[k] /\ stopLocked'[k] = stopLocked[k]
          /\ isRunning'[k] = isRunning[k] /\ seesRunning'[k] = seesRunning[k]
          /\ computed'[k] = computed[k] /\ accBuff'[k] = accBuff[k] /\ UNCHANGED mainVars
      BY <2>3 DEF Stray, TypeOK, workerVars, syncVars
    <3> QED  BY <2>1, <3>1 DEF Released, Delivered, Waits, Handshake, Missing, mainVars
  <2> QED  BY <2>2, <2>3
<1>4. Farewell'
  BY DEF Stray, Farewell, Waits, Dismissed, mainVars, syncVars
<1>5. Output'
  BY DEF Stray, Output, mainVars, workerVars
<1> QED  BY <1>1, <1>2, <1>3, <1>4, <1>5

(* Every step preserves the invariant.                                     *)
LEMMA NextIInv == IInv /\ [Next]_vars => IInv'
<1> SUFFICES ASSUME IInv, [Next]_vars PROVE IInv'  OBVIOUS
<1>1. CASE Main
  BY <1>1, CreateCorrect, PrepareCorrect, ReleaseCorrect, WriteCorrect, CollectCorrect, SumCorrect,
     RefreshCorrect, EndFlagCorrect, EndStartCorrect, EndStopCorrect, JoinCorrect, FreeCorrect DEF Main
<1>2. CASE \E k \in Workers : Worker(k)
  BY <1>2, LockStartCorrect, ReadRunningCorrect, WorkCorrect, UnlockStopCorrect, LoopOrEndCorrect,
     StrayCorrect DEF Worker
<1>3. CASE UNCHANGED vars
  <2> USE <1>3 DEF vars, mainVars, workerVars, syncVars, IInv
  <2>1. TypeOK'  BY DEF TypeOK
  <2>2. Created'  BY DEF Created
  <2>3. Barrier'
    BY DEF Barrier, Missing, Handshake, Released, Delivered, Waits
  <2>4. Farewell'  BY DEF Farewell, Ending, Dismissed, Waits
  <2>5. Output'  BY DEF Output, Loop, Ending
  <2> QED  BY <2>1, <2>2, <2>3, <2>4, <2>5
<1> QED  BY <1>1, <1>2, <1>3 DEF Next

-----------------------------------------------------------------------------
(* The theorems.                                                           *)

(* The invariant of the two barriers.                                      *)
THEOREM Invariance == Spec => []IInv
  BY InitIInv, NextIInv, PTL DEF Spec

(* Every variable has its type.                                            *)
THEOREM TypeCorrect == Spec => []TypeOK
<1>1. IInv => TypeOK
  BY DEF IInv
<1> QED  BY <1>1, Invariance, PTL

(* The main thread and the workers never use channels or buffers together. *)
THEOREM SharingCorrect == Spec => []ChannelsNotShared
<1>1. IInv => ChannelsNotShared
  BY DEF IInv, ChannelsNotShared, Barrier, Loop, Handshake, Released, Waits
<1> QED  BY <1>1, Invariance, PTL

(* Freed memory is touched only behind the last block.                     *)
THEOREM StrayCorrectly == Spec => []StrayOnlyAfterEnd
<1>1. IInv => StrayOnlyAfterEnd
  <2> SUFFICES ASSUME IInv, NEW k \in Workers
               PROVE  /\ computed[k] <= NumBlocks + 1
                      /\ pc[k] = "undefined" => computed[k] >= NumBlocks
    BY DEF StrayOnlyAfterEnd
  <2>1. CASE pcMain = "create"
    BY <2>1, CreatedSoFar
  <2>2. CASE pcMain \in Loop
    <3>1. /\ iumd \in Nat /\ iumd >= 1 /\ iumd <= NumBlocks /\ computed[k] \in Nat
          /\ IF pc[k] = "failed" THEN Missing(k) ELSE Handshake(k)
      BY <2>2 DEF IInv, TypeOK, Barrier, Output
    <3>2. computed[k] <= iumd
      BY <3>1 DEF Missing, Handshake, Delivered
    <3>3. pc[k] # "undefined"
      BY <3>1 DEF Missing, Handshake, Waits
    <3> QED  BY <3>1, <3>2, <3>3
  <2>3. CASE pcMain \in Ending
    BY <2>3 DEF IInv, Farewell, Waits
  <2> QED  BY <2>1, <2>2, <2>3 DEF IInv, TypeOK, Loop, Ending
<1> QED  BY <1>1, Invariance, PTL

(* What is written is the next block.                                      *)
LEMMA WritePlays == IInv /\ Write => [Stream!Next]_<<Summed, file>>
<1> SUFFICES ASSUME IInv, Write PROVE Stream!Play \/ UNCHANGED <<Summed, file>>
  BY DEF Stream!Next
<1>1. /\ pcMain = "write" /\ pcMain' = "collect" /\ iumd' = iumd /\ iumd \in Nat \ {0}
      /\ file \in Seq(Int)
  BY DEF Write, IInv, TypeOK
<1>2. Summed = iumd - 1 /\ Summed' = Summed
  BY <1>1 DEF Summed
<1>3. CASE iumd > 1
  <2>1. Len(file) = iumd - 2
    BY <1>1, <1>3 DEF IInv, Output
  <2>2. BlockInSums = iumd - 2
    BY <1>1, <1>3 DEF IInv, Output, BlockInSums
  <2>3. file' = Append(file, iumd - 2)
    BY <1>3, <2>2 DEF Write
  <2>4. file' = file \o [j \in 1 .. 1 |-> Len(file) + j - 1]
    BY <1>1, <2>1, <2>3
  <2> QED  BY <1>1, <1>2, <2>1, <2>4 DEF Stream!Play
<1>4. CASE ~(iumd > 1)
  BY <1>2, <1>4 DEF Write
<1> QED  BY <1>3, <1>4

(* The file is the gapless signal, whatever the interleaving.              *)
THEOREM FileCorrect == Spec => WritesTheSignal
<1>1. Init => Stream!Init
  BY DEF Init, Stream!Init, Summed
<1>2. IInv /\ [Next]_vars => [Stream!Next]_<<Summed, file>>
  <2> SUFFICES ASSUME IInv, [Next]_vars PROVE [Stream!Next]_<<Summed, file>>  OBVIOUS
  <2> USE DEF mainVars, workerVars, syncVars
  <2>1. CASE Write
    BY <2>1, WritePlays
  <2>2. CASE Sum
    <3>1. /\ pcMain = "sum" /\ pcMain' = "refresh" /\ iumd' = iumd /\ iumd \in Nat
          /\ file' = file /\ Len(file) = iumd - 1
      BY <2>2 DEF Sum, IInv, TypeOK, Output
    <3> QED  BY <3>1 DEF Stream!Next, Stream!Generate, Summed
  <2>3. CASE Main /\ ~Write /\ ~Sum
    BY <2>3 DEF Main, Create, Prepare, Release, Collect, Refresh, EndFlag, EndStart, EndStop, Join,
       Free, Turn, LoopTest, Summed, IInv, TypeOK
  <2>4. CASE \E k \in Workers : Worker(k)
    BY <2>4 DEF Worker, LockStart, ReadRunning, Work, UnlockStop, LoopOrEnd, Stray, Summed
  <2>5. CASE UNCHANGED vars
    BY <2>5 DEF vars, Summed
  <2> QED  BY <2>1, <2>2, <2>3, <2>4, <2>5 DEF Next
<1> QED  BY <1>1, <1>2, Invariance, PTL DEF Spec, Stream!Spec, WritesTheSignal
=============================================================================
