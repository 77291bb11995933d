--------------------------- MODULE FilmGrainProof ---------------------------
(***************************************************************************)
(* Proofs about FilmGrain, for any number of workers, pictures and rows.   *)
(***************************************************************************)
EXTENDS FilmGrain, FiniteSetTheorems, TLAPS

\* Worker w goes to `to`, and at most parked workers are woken besides.
Moves(w, to) ==
  /\ pc' \in [Worker -> WorkerPCs]
  /\ pc'[w] = to
  /\ \A u \in Worker \ {w} :
       pc'[u] = pc[u] \/ (pc[u] = "parked" /\ pc'[u] = "relock")

LEMMA MovesLemma ==
  ASSUME NEW w \in Worker, NEW to \in WorkerPCs,
         pc \in [Worker -> WorkerPCs], pc[w] # "parked",
         Goto(w, to) \/ GotoNotify(w, to)
  PROVE  Moves(w, to)
BY DEF Moves, Goto, GotoNotify, Parked, WorkerPCs, OwingPCs, InRows

\* The two sets that CountInv counts, after a step of one worker.
LEMMA CountLemma ==
  ASSUME NEW w \in Worker, NEW to \in WorkerPCs,
         pc \in [Worker -> WorkerPCs], Moves(w, to)
  PROVE  /\ Owing' = IF to \in OwingPCs THEN Owing \cup {w}
                                                 ELSE Owing \ {w}
         /\ Between' = IF to = "next1" THEN Between \cup {w} ELSE Between \ {w}
         /\ IsFiniteSet(Owing) /\ IsFiniteSet(Between)
         /\ Cardinality(Owing) \in Nat /\ Cardinality(Between) \in Nat
         /\ Cardinality(Owing') = Cardinality(Owing)
              + (IF to \in OwingPCs THEN 1 ELSE 0)
              - (IF pc[w] \in OwingPCs THEN 1 ELSE 0)
         /\ Cardinality(Between') = Cardinality(Between)
              + (IF to = "next1" THEN 1 ELSE 0) - (IF pc[w] = "next1" THEN 1 ELSE 0)
<1>1. /\ Owing' = IF to \in OwingPCs THEN Owing \cup {w} ELSE Owing \ {w}
      /\ Between' = IF to = "next1" THEN Between \cup {w} ELSE Between \ {w}
  BY DEF Moves, Owing, Between, OwingPCs, InRows
<1>2. Owing \in SUBSET Worker /\ Between \in SUBSET Worker
  BY DEF Owing, Between
<1>3. IsFiniteSet(Owing) /\ IsFiniteSet(Between)
  BY <1>2, FS_Subset, WorkerAssumption
<1>4. Cardinality(Owing) \in Nat /\ Cardinality(Between) \in Nat
  BY <1>3, FS_CardinalityType
<1>5. /\ Cardinality(Owing \cup {w}) =
           IF w \in Owing THEN Cardinality(Owing) ELSE Cardinality(Owing) + 1
      /\ Cardinality(Owing \ {w}) =
           IF w \in Owing THEN Cardinality(Owing) - 1 ELSE Cardinality(Owing)
  BY <1>3, FS_AddElement, FS_RemoveElement
<1>6. /\ Cardinality(Between \cup {w}) =
           IF w \in Between THEN Cardinality(Between) ELSE Cardinality(Between) + 1
      /\ Cardinality(Between \ {w}) =
           IF w \in Between THEN Cardinality(Between) - 1 ELSE Cardinality(Between)
  BY <1>3, FS_AddElement, FS_RemoveElement
<1>7. /\ w \in Owing <=> pc[w] \in OwingPCs
      /\ w \in Between <=> pc[w] = "next1"
  BY DEF Owing, Between
<1> QED BY <1>1, <1>3, <1>4, <1>5, <1>6, <1>7

LEMMA InitInv == Init => IInv
<1> SUFFICES ASSUME Init PROVE IInv
  OBVIOUS
<1>1. TypeOK
  BY BoundsAssumption DEF Init, TypeOK, MainPCs, WorkerPCs, OwingPCs, InRows
<1>2. /\ LockInv /\ PhaseInv /\ PrepInv /\ DoneInv
      /\ RowRange /\ RowDistinct /\ RowAccount /\ GrainComplete
  BY WorkerAssumption DEF Init, LockInv, LockPCs, PhaseInv, FgPCs, OwingPCs, InRows, PrepInv, DoneInv,
     RowRange, RowDistinct, RowAccount, Reading, Claims, GrainComplete
<1>3. Owing = {} /\ Between = {}
  BY DEF Init, Owing, Between, OwingPCs, InRows
<1>4. CountInv
  BY <1>3, FS_EmptySet DEF Init, CountInv
<1> QED BY <1>1, <1>2, <1>4 DEF IInv

\* Getting the lock.
LEMMA RelockInv ==
  ASSUME IInv, NEW w \in Worker, Relock(w)
  PROVE  IInv'
<1> USE DEF IInv
<1>a. PICK to \in {"loop"} : Moves(w, to)
  BY MovesLemma DEF Relock, TypeOK, WorkerPCs, OwingPCs, InRows
<1>1. TypeOK'
  BY <1>a DEF Relock, TypeOK, Moves, MainPCs, fgVars, budget, Acquire, Release, Holding
<1>2. LockInv'
  BY <1>a, WorkerAssumption DEF Relock, LockInv, LockPCs, Moves, Acquire, Release,
     Holding, TypeOK
<1>3. PhaseInv'
  BY <1>a, <1>1 DEF Relock, PhaseInv, PrepInv, LockInv, LockPCs, FgPCs, OwingPCs, InRows,
     Moves, fgVars, Release, Holding, TypeOK
<1>4. PrepInv'
  BY <1>a, <1>1, WorkerAssumption DEF Relock, PhaseInv, PrepInv, LockInv, LockPCs, FgPCs, OwingPCs, InRows,
     Moves, fgVars, Acquire, Release, Holding, TypeOK
<1>5. CountInv'
  <2>1. /\ Cardinality(Owing)' = Cardinality(Owing)
             + (IF to \in OwingPCs THEN 1 ELSE 0)
             - (IF pc[w] \in OwingPCs THEN 1 ELSE 0)
        /\ Cardinality(Between)' = Cardinality(Between)
             + (IF to = "next1" THEN 1 ELSE 0) - (IF pc[w] = "next1" THEN 1 ELSE 0)
        /\ Cardinality(Owing) \in Nat /\ Cardinality(Between) \in Nat
    BY <1>a, CountLemma DEF TypeOK, WorkerPCs, OwingPCs, InRows
  <2> QED
    BY <1>a, <2>1 DEF Relock, CountInv, PhaseInv, FgPCs, OwingPCs, InRows, Moves, fgVars, TypeOK
<1>b. DoneInv'
  BY <1>a, <1>1 DEF Relock, DoneInv, PhaseInv, FgPCs, OwingPCs, InRows, Moves, fgVars, TypeOK
<1>6. RowRange'
  BY <1>a, <1>1 DEF Relock, RowRange, Reading, OwingPCs, InRows, Moves, fgVars, TypeOK
<1>7. RowDistinct'
  BY <1>a DEF Relock, RowDistinct, Claims, Moves, fgVars
<1>8. RowAccount'
  <2>1. \A v \in Worker : Claims(v)' <=> Claims(v)
    BY <1>a DEF Relock, Claims, Moves
  <2> QED BY <2>1 DEF Relock, RowAccount, RowApplied, RowPending, fgVars
<1>9. GrainComplete'
  BY DEF Relock, GrainComplete, fgVars
<1> QED BY <1>1, <1>2, <1>3, <1>4, <1>5, <1>b, <1>6, <1>7, <1>8, <1>9

\* Leaving for a decode task.
LEMMA FindTaskInv ==
  ASSUME IInv, NEW w \in Worker, FindTask(w)
  PROVE  IInv'
<1> USE DEF IInv
<1>a. PICK to \in {"busy"} : Moves(w, to)
  BY MovesLemma DEF FindTask, TypeOK, WorkerPCs, OwingPCs, InRows
<1>1. TypeOK'
  BY <1>a DEF FindTask, TypeOK, Moves, MainPCs, fgVars, budget, Acquire, Release, Holding
<1>2. LockInv'
  BY <1>a, WorkerAssumption DEF FindTask, LockInv, LockPCs, Moves, Acquire, Release,
     Holding, TypeOK
<1>3. PhaseInv'
  BY <1>a, <1>1 DEF FindTask, PhaseInv, PrepInv, LockInv, LockPCs, FgPCs, OwingPCs, InRows,
     Moves, fgVars, Release, Holding, TypeOK
<1>4. PrepInv'
  BY <1>a, <1>1, WorkerAssumption DEF FindTask, PhaseInv, PrepInv, LockInv, LockPCs, FgPCs, OwingPCs, InRows,
     Moves, fgVars, Acquire, Release, Holding, TypeOK
<1>5. CountInv'
  <2>1. /\ Cardinality(Owing)' = Cardinality(Owing)
             + (IF to \in OwingPCs THEN 1 ELSE 0)
             - (IF pc[w] \in OwingPCs THEN 1 ELSE 0)
        /\ Cardinality(Between)' = Cardinality(Between)
             + (IF to = "next1" THEN 1 ELSE 0) - (IF pc[w] = "next1" THEN 1 ELSE 0)
        /\ Cardinality(Owing) \in Nat /\ Cardinality(Between) \in Nat
    BY <1>a, CountLemma DEF TypeOK, WorkerPCs, OwingPCs, InRows
  <2> QED
    BY <1>a, <2>1 DEF FindTask, CountInv, PhaseInv, FgPCs, OwingPCs, InRows, Moves, fgVars, TypeOK
<1>b. DoneInv'
  BY <1>a, <1>1 DEF FindTask, DoneInv, PhaseInv, FgPCs, OwingPCs, InRows, Moves, fgVars, TypeOK
<1>6. RowRange'
  BY <1>a, <1>1 DEF FindTask, RowRange, Reading, OwingPCs, InRows, Moves, fgVars, TypeOK
<1>7. RowDistinct'
  BY <1>a DEF FindTask, RowDistinct, Claims, Moves, fgVars
<1>8. RowAccount'
  <2>1. \A v \in Worker : Claims(v)' <=> Claims(v)
    BY <1>a DEF FindTask, Claims, Moves
  <2> QED BY <2>1 DEF FindTask, RowAccount, RowApplied, RowPending, fgVars
<1>9. GrainComplete'
  BY DEF FindTask, GrainComplete, fgVars
<1> QED BY <1>1, <1>2, <1>3, <1>4, <1>5, <1>b, <1>6, <1>7, <1>8, <1>9

\* Back from a decode task.
LEMMA FinishTaskInv ==
  ASSUME IInv, NEW w \in Worker, FinishTask(w)
  PROVE  IInv'
<1> USE DEF IInv
<1>a. PICK to \in {"relock"} : Moves(w, to)
  BY MovesLemma DEF FinishTask, TypeOK, WorkerPCs, OwingPCs, InRows
<1>1. TypeOK'
  BY <1>a DEF FinishTask, TypeOK, Moves, MainPCs, fgVars, budget, Acquire, Release, Holding
<1>2. LockInv'
  BY <1>a, WorkerAssumption DEF FinishTask, LockInv, LockPCs, Moves, Acquire, Release,
     Holding, TypeOK
<1>3. PhaseInv'
  BY <1>a, <1>1 DEF FinishTask, PhaseInv, PrepInv, LockInv, LockPCs, FgPCs, OwingPCs, InRows,
     Moves, fgVars, Release, Holding, TypeOK
<1>4. PrepInv'
  BY <1>a, <1>1, WorkerAssumption DEF FinishTask, PhaseInv, PrepInv, LockInv, LockPCs, FgPCs, OwingPCs, InRows,
     Moves, fgVars, Acquire, Release, Holding, TypeOK
<1>5. CountInv'
  <2>1. /\ Cardinality(Owing)' = Cardinality(Owing)
             + (IF to \in OwingPCs THEN 1 ELSE 0)
             - (IF pc[w] \in OwingPCs THEN 1 ELSE 0)
        /\ Cardinality(Between)' = Cardinality(Between)
             + (IF to = "next1" THEN 1 ELSE 0) - (IF pc[w] = "next1" THEN 1 ELSE 0)
        /\ Cardinality(Owing) \in Nat /\ Cardinality(Between) \in Nat
    BY <1>a, CountLemma DEF TypeOK, WorkerPCs, OwingPCs, InRows
  <2> QED
    BY <1>a, <2>1 DEF FinishTask, CountInv, PhaseInv, FgPCs, OwingPCs, InRows, Moves, fgVars, TypeOK
<1>b. DoneInv'
  BY <1>a, <1>1 DEF FinishTask, DoneInv, PhaseInv, FgPCs, OwingPCs, InRows, Moves, fgVars, TypeOK
<1>6. RowRange'
  BY <1>a, <1>1 DEF FinishTask, RowRange, Reading, OwingPCs, InRows, Moves, fgVars, TypeOK
<1>7. RowDistinct'
  BY <1>a DEF FinishTask, RowDistinct, Claims, Moves, fgVars
<1>8. RowAccount'
  <2>1. \A v \in Worker : Claims(v)' <=> Claims(v)
    BY <1>a DEF FinishTask, Claims, Moves
  <2> QED BY <2>1 DEF FinishTask, RowAccount, RowApplied, RowPending, fgVars
<1>9. GrainComplete'
  BY DEF FinishTask, GrainComplete, fgVars
<1> QED BY <1>1, <1>2, <1>3, <1>4, <1>5, <1>b, <1>6, <1>7, <1>8, <1>9

\* Going to sleep.
LEMMA ParkInv ==
  ASSUME IInv, NEW w \in Worker, Park(w)
  PROVE  IInv'
<1> USE DEF IInv
<1>a. PICK to \in {"parked"} : Moves(w, to)
  BY MovesLemma DEF Park, TypeOK, WorkerPCs, OwingPCs, InRows
<1>1. TypeOK'
  BY <1>a DEF Park, TypeOK, Moves, MainPCs, fgVars, budget, Acquire, Release, Holding
<1>2. LockInv'
  BY <1>a, WorkerAssumption DEF Park, LockInv, LockPCs, Moves, Acquire, Release,
     Holding, TypeOK
<1>3. PhaseInv'
  BY <1>a, <1>1 DEF Park, PhaseInv, PrepInv, LockInv, LockPCs, FgPCs, OwingPCs, InRows,
     Moves, fgVars, Release, Holding, TypeOK
<1>4. PrepInv'
  BY <1>a, <1>1, WorkerAssumption DEF Park, PhaseInv, PrepInv, LockInv, LockPCs, FgPCs, OwingPCs, InRows,
     Moves, fgVars, Acquire, Release, Holding, TypeOK
<1>5. CountInv'
  <2>1. /\ Cardinality(Owing)' = Cardinality(Owing)
             + (IF to \in OwingPCs THEN 1 ELSE 0)
             - (IF pc[w] \in OwingPCs THEN 1 ELSE 0)
        /\ Cardinality(Between)' = Cardinality(Between)
             + (IF to = "next1" THEN 1 ELSE 0) - (IF pc[w] = "next1" THEN 1 ELSE 0)
        /\ Cardinality(Owing) \in Nat /\ Cardinality(Between) \in Nat
    BY <1>a, CountLemma DEF TypeOK, WorkerPCs, OwingPCs, InRows
  <2> QED
    BY <1>a, <2>1 DEF Park, CountInv, PhaseInv, FgPCs, OwingPCs, InRows, Moves, fgVars, TypeOK
<1>b. DoneInv'
  BY <1>a, <1>1 DEF Park, DoneInv, PhaseInv, FgPCs, OwingPCs, InRows, Moves, fgVars, TypeOK
<1>6. RowRange'
  BY <1>a, <1>1 DEF Park, RowRange, Reading, OwingPCs, InRows, Moves, fgVars, TypeOK
<1>7. RowDistinct'
  BY <1>a DEF Park, RowDistinct, Claims, Moves, fgVars
<1>8. RowAccount'
  <2>1. \A v \in Worker : Claims(v)' <=> Claims(v)
    BY <1>a DEF Park, Claims, Moves
  <2> QED BY <2>1 DEF Park, RowAccount, RowApplied, RowPending, fgVars
<1>9. GrainComplete'
  BY DEF Park, GrainComplete, fgVars
<1> QED BY <1>1, <1>2, <1>3, <1>4, <1>5, <1>b, <1>6, <1>7, <1>8, <1>9

\* The preparation takes the write guard.
LEMMA StartPrepInv ==
  ASSUME IInv, NEW w \in Worker, StartPrep(w)
  PROVE  IInv'
<1> USE DEF IInv
<1>a. PICK to \in {"prep"} : Moves(w, to)
  BY MovesLemma DEF StartPrep, TypeOK, WorkerPCs, OwingPCs, InRows
<1>1. TypeOK'
  BY <1>a DEF StartPrep, TypeOK, Moves, MainPCs, fgVars, budget, Acquire, Release, Holding
<1>2. LockInv'
  BY <1>a, WorkerAssumption DEF StartPrep, LockInv, LockPCs, Moves, Acquire, Release,
     Holding, TypeOK
<1>3. PhaseInv'
  BY <1>a, <1>1 DEF StartPrep, PhaseInv, PrepInv, LockInv, LockPCs, FgPCs, OwingPCs, InRows,
     Moves, fgVars, Release, Holding, TypeOK
<1>4. PrepInv'
  BY <1>a, <1>1, WorkerAssumption DEF StartPrep, PhaseInv, PrepInv, LockInv, LockPCs, FgPCs, OwingPCs, InRows,
     Moves, fgVars, Acquire, Release, Holding, TypeOK
<1>5. CountInv'
  <2>1. /\ Cardinality(Owing)' = Cardinality(Owing)
             + (IF to \in OwingPCs THEN 1 ELSE 0)
             - (IF pc[w] \in OwingPCs THEN 1 ELSE 0)
        /\ Cardinality(Between)' = Cardinality(Between)
             + (IF to = "next1" THEN 1 ELSE 0) - (IF pc[w] = "next1" THEN 1 ELSE 0)
        /\ Cardinality(Owing) \in Nat /\ Cardinality(Between) \in Nat
    BY <1>a, CountLemma DEF TypeOK, WorkerPCs, OwingPCs, InRows
  <2> QED
    BY <1>a, <2>1 DEF StartPrep, CountInv, PhaseInv, FgPCs, OwingPCs, InRows, Moves, fgVars, TypeOK
<1>b. DoneInv'
  BY <1>a, <1>1 DEF StartPrep, DoneInv, PhaseInv, FgPCs, OwingPCs, InRows, Moves, fgVars, TypeOK
<1>6. RowRange'
  BY <1>a, <1>1 DEF StartPrep, RowRange, Reading, OwingPCs, InRows, Moves, fgVars, TypeOK
<1>7. RowDistinct'
  BY <1>a DEF StartPrep, RowDistinct, Claims, Moves, fgVars
<1>8. RowAccount'
  <2>1. \A v \in Worker : Claims(v)' <=> Claims(v)
    BY <1>a DEF StartPrep, Claims, Moves
  <2> QED BY <2>1 DEF StartPrep, RowAccount, RowApplied, RowPending, fgVars
<1>9. GrainComplete'
  BY DEF StartPrep, GrainComplete, fgVars
<1> QED BY <1>1, <1>2, <1>3, <1>4, <1>5, <1>b, <1>6, <1>7, <1>8, <1>9

\* The preparation ends.
LEMMA EndPrepInv ==
  ASSUME IInv, NEW w \in Worker, EndPrep(w)
  PROVE  IInv'
<1> USE DEF IInv
<1>a. PICK to \in {"enter"} : Moves(w, to)
  BY MovesLemma DEF EndPrep, TypeOK, WorkerPCs, OwingPCs, InRows
<1>1. TypeOK'
  BY <1>a DEF EndPrep, TypeOK, Moves, MainPCs, fgVars, budget, Acquire, Release, Holding
<1>2. LockInv'
  BY <1>a, WorkerAssumption DEF EndPrep, LockInv, LockPCs, Moves, Acquire, Release,
     Holding, TypeOK
<1>3. PhaseInv'
  BY <1>a, <1>1 DEF EndPrep, PhaseInv, PrepInv, LockInv, LockPCs, FgPCs, OwingPCs, InRows,
     Moves, fgVars, Release, Holding, TypeOK
<1>4. PrepInv'
  BY <1>a, <1>1, WorkerAssumption DEF EndPrep, PhaseInv, PrepInv, LockInv, LockPCs, FgPCs, OwingPCs, InRows,
     Moves, fgVars, Acquire, Release, Holding, TypeOK
<1>5. CountInv'
  <2>1. /\ Cardinality(Owing)' = Cardinality(Owing)
             + (IF to \in OwingPCs THEN 1 ELSE 0)
             - (IF pc[w] \in OwingPCs THEN 1 ELSE 0)
        /\ Cardinality(Between)' = Cardinality(Between)
             + (IF to = "next1" THEN 1 ELSE 0) - (IF pc[w] = "next1" THEN 1 ELSE 0)
        /\ Cardinality(Owing) \in Nat /\ Cardinality(Between) \in Nat
    BY <1>a, CountLemma DEF TypeOK, WorkerPCs, OwingPCs, InRows
  <2> QED
    BY <1>a, <2>1 DEF EndPrep, CountInv, PhaseInv, FgPCs, OwingPCs, InRows, Moves, fgVars, TypeOK
<1>b. DoneInv'
  BY <1>a, <1>1 DEF EndPrep, DoneInv, PhaseInv, FgPCs, OwingPCs, InRows, Moves, fgVars, TypeOK
<1>6. RowRange'
  BY <1>a, <1>1 DEF EndPrep, RowRange, Reading, OwingPCs, InRows, Moves, fgVars, TypeOK
<1>7. RowDistinct'
  BY <1>a DEF EndPrep, RowDistinct, Claims, Moves, fgVars
<1>8. RowAccount'
  <2>1. \A v \in Worker : Claims(v)' <=> Claims(v)
    BY <1>a DEF EndPrep, Claims, Moves
  <2> QED BY <2>1 DEF EndPrep, RowAccount, RowApplied, RowPending, fgVars
<1>9. GrainComplete'
  BY DEF EndPrep, GrainComplete, fgVars
<1> QED BY <1>1, <1>2, <1>3, <1>4, <1>5, <1>b, <1>6, <1>7, <1>8, <1>9

\* Joining.
LEMMA StartApplyInv ==
  ASSUME IInv, NEW w \in Worker, StartApply(w)
  PROVE  IInv'
<1> USE DEF IInv
<1>a. PICK to \in {"enter"} : Moves(w, to)
  BY MovesLemma DEF StartApply, TypeOK, WorkerPCs, OwingPCs, InRows
<1>1. TypeOK'
  BY <1>a DEF StartApply, TypeOK, Moves, MainPCs, fgVars, budget, Acquire, Release, Holding
<1>2. LockInv'
  BY <1>a, WorkerAssumption DEF StartApply, LockInv, LockPCs, Moves, Acquire, Release,
     Holding, TypeOK
<1>3. PhaseInv'
  BY <1>a, <1>1 DEF StartApply, PhaseInv, PrepInv, LockInv, LockPCs, FgPCs, OwingPCs, InRows,
     Moves, fgVars, Release, Holding, TypeOK
<1>4. PrepInv'
  BY <1>a, <1>1, WorkerAssumption DEF StartApply, PhaseInv, PrepInv, LockInv, LockPCs, FgPCs, OwingPCs, InRows,
     Moves, fgVars, Acquire, Release, Holding, TypeOK
<1>5. CountInv'
  <2>1. /\ Cardinality(Owing)' = Cardinality(Owing)
             + (IF to \in OwingPCs THEN 1 ELSE 0)
             - (IF pc[w] \in OwingPCs THEN 1 ELSE 0)
        /\ Cardinality(Between)' = Cardinality(Between)
             + (IF to = "next1" THEN 1 ELSE 0) - (IF pc[w] = "next1" THEN 1 ELSE 0)
        /\ Cardinality(Owing) \in Nat /\ Cardinality(Between) \in Nat
    BY <1>a, CountLemma DEF TypeOK, WorkerPCs, OwingPCs, InRows
  <2> QED
    BY <1>a, <2>1 DEF StartApply, CountInv, PhaseInv, FgPCs, OwingPCs, InRows, Moves, fgVars, TypeOK
<1>b. DoneInv'
  BY <1>a, <1>1 DEF StartApply, DoneInv, PhaseInv, FgPCs, OwingPCs, InRows, Moves, fgVars, TypeOK
<1>6. RowRange'
  BY <1>a, <1>1 DEF StartApply, RowRange, Reading, OwingPCs, InRows, Moves, fgVars, TypeOK
<1>7. RowDistinct'
  BY <1>a DEF StartApply, RowDistinct, Claims, Moves, fgVars
<1>8. RowAccount'
  <2>1. \A v \in Worker : Claims(v)' <=> Claims(v)
    BY <1>a DEF StartApply, Claims, Moves
  <2> QED BY <2>1 DEF StartApply, RowAccount, RowApplied, RowPending, fgVars
<1>9. GrainComplete'
  BY DEF StartApply, GrainComplete, fgVars
<1> QED BY <1>1, <1>2, <1>3, <1>4, <1>5, <1>b, <1>6, <1>7, <1>8, <1>9

\* The first row is handed out.
LEMMA EnterInv ==
  ASSUME IInv, NEW w \in Worker, Enter(w)
  PROVE  IInv'
<1> USE DEF IInv
<1>a. PICK to \in {"rows"} : Moves(w, to)
  BY MovesLemma DEF Enter, TypeOK, WorkerPCs, OwingPCs, InRows
<1>1. TypeOK'
  <2>1. progress0' \in Nat /\ row' \in [Worker -> Nat]
    BY DEF Enter, TypeOK
  <2> QED BY <1>a, <2>1 DEF Enter, TypeOK, Moves, budget, Acquire, Release, Holding
<1>2. LockInv'
  BY <1>a, WorkerAssumption DEF Enter, LockInv, LockPCs, Moves, Acquire, Release,
     Holding, TypeOK
<1>3. PhaseInv'
  BY <1>a, <1>1 DEF Enter, PhaseInv, PrepInv, LockInv, LockPCs, FgPCs, OwingPCs, InRows,
     Moves, fgVars, Release, Holding, TypeOK
<1>4. PrepInv'
  BY <1>a, <1>1, WorkerAssumption DEF Enter, PhaseInv, PrepInv, LockInv, LockPCs, FgPCs, OwingPCs, InRows,
     Moves, fgVars, Acquire, Release, Holding, TypeOK
<1>5. CountInv'
  <2>1. /\ Cardinality(Owing)' = Cardinality(Owing)
             + (IF to \in OwingPCs THEN 1 ELSE 0)
             - (IF pc[w] \in OwingPCs THEN 1 ELSE 0)
        /\ Cardinality(Between)' = Cardinality(Between)
             + (IF to = "next1" THEN 1 ELSE 0) - (IF pc[w] = "next1" THEN 1 ELSE 0)
        /\ Cardinality(Owing) \in Nat /\ Cardinality(Between) \in Nat
    BY <1>a, CountLemma DEF TypeOK, WorkerPCs, OwingPCs, InRows
  <2> QED
    BY <1>a, <2>1 DEF Enter, CountInv, PhaseInv, FgPCs, OwingPCs, InRows, Moves, fgVars, TypeOK
<1>b. DoneInv'
  BY <1>a, <1>1 DEF Enter, DoneInv, PhaseInv, FgPCs, OwingPCs, InRows, Moves, fgVars, TypeOK
<1>6. RowRange'
  BY <1>a, <1>1 DEF Enter, RowRange, Reading, OwingPCs, InRows, Moves, fgVars, TypeOK
<1>7. RowDistinct'
  <2>1. \A v \in Worker \ {w} : Claims(v)' => Claims(v) /\ row'[v] = row[v] /\ row[v] < progress0
    BY <1>a DEF Enter, RowRange, Reading, Claims, OwingPCs, InRows, Moves, TypeOK
  <2>2. row'[w] = progress0 /\ progress0 \in Nat /\ row \in [Worker -> Nat]
    BY DEF Enter, TypeOK
  <2> QED BY <2>1, <2>2 DEF RowDistinct
<1>8. RowAccount'
  <2>1. \A v \in Worker \ {w} : (Claims(v)' <=> Claims(v)) /\ row'[v] = row[v]
    BY <1>a DEF Enter, Claims, Moves, TypeOK
  <2>2. Claims(w)' /\ ~Claims(w) /\ row'[w] = progress0 /\ progress0' = progress0 + 1
    BY <1>a DEF Enter, Claims, Moves, TypeOK
  <2>3. ASSUME NEW r \in 0 .. height - 1, RowApplied(r) \/ RowPending(r)
        PROVE  (RowApplied(r) \/ RowPending(r))'
    BY <2>1, <2>2, <2>3 DEF Enter, RowApplied, RowPending, TypeOK
  <2> QED BY <2>3 DEF Enter, RowAccount
<1>9. GrainComplete'
  BY DEF Enter, GrainComplete, fgVars
<1> QED BY <1>1, <1>2, <1>3, <1>4, <1>5, <1>b, <1>6, <1>7, <1>8, <1>9

\* Another worker is invited.
LEMMA MoreRowsInv ==
  ASSUME IInv, NEW w \in Worker, MoreRows(w)
  PROVE  IInv'
<1> USE DEF IInv
<1>a. PICK to \in {"apply"} : Moves(w, to)
  BY MovesLemma DEF MoreRows, TypeOK, WorkerPCs, OwingPCs, InRows
<1>1. TypeOK'
  BY <1>a DEF MoreRows, TypeOK, Moves, MainPCs, fgVars, budget, Acquire, Release, Holding
<1>2. LockInv'
  BY <1>a, WorkerAssumption DEF MoreRows, LockInv, LockPCs, Moves, Acquire, Release,
     Holding, TypeOK
<1>3. PhaseInv'
  BY <1>a, <1>1 DEF MoreRows, PhaseInv, PrepInv, LockInv, LockPCs, FgPCs, OwingPCs, InRows,
     Moves, fgVars, Release, Holding, TypeOK
<1>4. PrepInv'
  BY <1>a, <1>1, WorkerAssumption DEF MoreRows, PhaseInv, PrepInv, LockInv, LockPCs, FgPCs, OwingPCs, InRows,
     Moves, fgVars, Acquire, Release, Holding, TypeOK
<1>5. CountInv'
  <2>1. /\ Cardinality(Owing)' = Cardinality(Owing)
             + (IF to \in OwingPCs THEN 1 ELSE 0)
             - (IF pc[w] \in OwingPCs THEN 1 ELSE 0)
        /\ Cardinality(Between)' = Cardinality(Between)
             + (IF to = "next1" THEN 1 ELSE 0) - (IF pc[w] = "next1" THEN 1 ELSE 0)
        /\ Cardinality(Owing) \in Nat /\ Cardinality(Between) \in Nat
    BY <1>a, CountLemma DEF TypeOK, WorkerPCs, OwingPCs, InRows
  <2> QED
    BY <1>a, <2>1 DEF MoreRows, CountInv, PhaseInv, FgPCs, OwingPCs, InRows, Moves, fgVars, TypeOK
<1>b. DoneInv'
  BY <1>a, <1>1 DEF MoreRows, DoneInv, PhaseInv, FgPCs, OwingPCs, InRows, Moves, fgVars, TypeOK
<1>6. RowRange'
  BY <1>a, <1>1 DEF MoreRows, RowRange, Reading, OwingPCs, InRows, Moves, fgVars, TypeOK
<1>7. RowDistinct'
  BY <1>a DEF MoreRows, RowDistinct, Claims, Moves, fgVars
<1>8. RowAccount'
  <2>1. \A v \in Worker : Claims(v)' <=> Claims(v)
    BY <1>a DEF MoreRows, Claims, Moves
  <2> QED BY <2>1 DEF MoreRows, RowAccount, RowApplied, RowPending, fgVars
<1>9. GrainComplete'
  BY DEF MoreRows, GrainComplete, fgVars
<1> QED BY <1>1, <1>2, <1>3, <1>4, <1>5, <1>b, <1>6, <1>7, <1>8, <1>9

\* No more rows.
LEMMA LastRowInv ==
  ASSUME IInv, NEW w \in Worker, LastRow(w)
  PROVE  IInv'
<1> USE DEF IInv
<1>a. PICK to \in {"last"} : Moves(w, to)
  BY MovesLemma DEF LastRow, TypeOK, WorkerPCs, OwingPCs, InRows
<1>1. TypeOK'
  BY <1>a DEF LastRow, TypeOK, Moves, MainPCs, fgVars, budget, Acquire, Release, Holding
<1>2. LockInv'
  BY <1>a, WorkerAssumption DEF LastRow, LockInv, LockPCs, Moves, Acquire, Release,
     Holding, TypeOK
<1>3. PhaseInv'
  BY <1>a, <1>1 DEF LastRow, PhaseInv, PrepInv, LockInv, LockPCs, FgPCs, OwingPCs, InRows,
     Moves, fgVars, Release, Holding, TypeOK
<1>4. PrepInv'
  BY <1>a, <1>1, WorkerAssumption DEF LastRow, PhaseInv, PrepInv, LockInv, LockPCs, FgPCs, OwingPCs, InRows,
     Moves, fgVars, Acquire, Release, Holding, TypeOK
<1>5. CountInv'
  <2>1. /\ Cardinality(Owing)' = Cardinality(Owing)
             + (IF to \in OwingPCs THEN 1 ELSE 0)
             - (IF pc[w] \in OwingPCs THEN 1 ELSE 0)
        /\ Cardinality(Between)' = Cardinality(Between)
             + (IF to = "next1" THEN 1 ELSE 0) - (IF pc[w] = "next1" THEN 1 ELSE 0)
        /\ Cardinality(Owing) \in Nat /\ Cardinality(Between) \in Nat
    BY <1>a, CountLemma DEF TypeOK, WorkerPCs, OwingPCs, InRows
  <2> QED
    BY <1>a, <2>1 DEF LastRow, CountInv, PhaseInv, FgPCs, OwingPCs, InRows, Moves, fgVars, TypeOK
<1>b. DoneInv'
  BY <1>a, <1>1 DEF LastRow, DoneInv, PhaseInv, FgPCs, OwingPCs, InRows, Moves, fgVars, TypeOK
<1>6. RowRange'
  BY <1>a, <1>1 DEF LastRow, RowRange, Reading, OwingPCs, InRows, Moves, fgVars, TypeOK
<1>7. RowDistinct'
  BY <1>a DEF LastRow, RowDistinct, Claims, Moves, fgVars
<1>8. RowAccount'
  <2>1. \A v \in Worker : Claims(v)' <=> Claims(v)
    BY <1>a DEF LastRow, Claims, Moves
  <2> QED BY <2>1 DEF LastRow, RowAccount, RowApplied, RowPending, fgVars
<1>9. GrainComplete'
  BY DEF LastRow, GrainComplete, fgVars
<1> QED BY <1>1, <1>2, <1>3, <1>4, <1>5, <1>b, <1>6, <1>7, <1>8, <1>9

\* The picture is closed to other workers.
LEMMA CloseRowsInv ==
  ASSUME IInv, NEW w \in Worker, CloseRows(w)
  PROVE  IInv'
<1> USE DEF IInv
<1>a. PICK to \in {"exit1", "apply"} : Moves(w, to)
  BY MovesLemma DEF CloseRows, TypeOK, WorkerPCs, OwingPCs, InRows
<1>c. \/ to = "exit1" /\ row[w] >= height /\ lock' = w
      \/ to = "apply" /\ row[w] < height /\ lock' = lock
  BY <1>a DEF CloseRows, Goto, Moves, TypeOK
<1>d. lock = NoOne /\ row[w] < progress0 /\ pc[w] = "last"
  BY DEF CloseRows, RowRange, Reading, OwingPCs, InRows
<1>1. TypeOK'
  BY <1>a DEF CloseRows, TypeOK, Moves, MainPCs, fgVars, budget, Acquire, Release, Holding
<1>2. LockInv'
  BY <1>a, <1>c, <1>d, WorkerAssumption DEF LockInv, LockPCs, Moves, TypeOK
<1>3. PhaseInv'
  BY <1>a, <1>1 DEF CloseRows, PhaseInv, PrepInv, LockInv, LockPCs, FgPCs, OwingPCs, InRows,
     Moves, fgVars, Release, Holding, TypeOK
<1>4. PrepInv'
  BY <1>a, <1>1, WorkerAssumption DEF CloseRows, PhaseInv, PrepInv, LockInv, LockPCs, FgPCs, OwingPCs, InRows,
     Moves, fgVars, Acquire, Release, Holding, TypeOK
<1>5. CountInv'
  <2>1. /\ Cardinality(Owing)' = Cardinality(Owing)
             + (IF to \in OwingPCs THEN 1 ELSE 0)
             - (IF pc[w] \in OwingPCs THEN 1 ELSE 0)
        /\ Cardinality(Between)' = Cardinality(Between)
             + (IF to = "next1" THEN 1 ELSE 0) - (IF pc[w] = "next1" THEN 1 ELSE 0)
        /\ Cardinality(Owing) \in Nat /\ Cardinality(Between) \in Nat
    BY <1>a, CountLemma DEF TypeOK, WorkerPCs, OwingPCs, InRows
  <2> QED
    BY <1>a, <2>1 DEF CloseRows, CountInv, PhaseInv, FgPCs, OwingPCs, InRows, Moves, fgVars, TypeOK
<1>b. DoneInv'
  BY <1>a, <1>1 DEF CloseRows, DoneInv, PhaseInv, FgPCs, OwingPCs, InRows, Moves, fgVars, TypeOK
<1>6. RowRange'
  <2>1. /\ row[w] \in Nat /\ height \in Nat /\ progress0 \in Nat
        /\ UNCHANGED <<row, height, progress0>>
    BY DEF CloseRows, fgVars, TypeOK
  <2> QED BY <1>a, <1>c, <1>d, <2>1 DEF RowRange, Reading, OwingPCs, InRows, Moves
<1>7. RowDistinct'
  BY <1>a DEF CloseRows, RowDistinct, Claims, Moves, fgVars
<1>8. RowAccount'
  <2>1. \A v \in Worker : Claims(v)' => Claims(v)
    BY <1>a DEF CloseRows, Claims, Moves
  <2>2. \A v \in Worker : Claims(v) /\ ~Claims(v)' => row[v] >= height
    BY <1>a, <1>c, <1>d DEF Claims, Moves
  <2>3. ASSUME NEW r \in 0 .. height - 1, RowApplied(r) \/ RowPending(r)
        PROVE  (RowApplied(r) \/ RowPending(r))'
    BY <2>1, <2>2, <2>3 DEF CloseRows, RowApplied, RowPending, fgVars, TypeOK
  <2> QED BY <2>3 DEF CloseRows, RowAccount, fgVars
<1>9. GrainComplete'
  BY DEF CloseRows, GrainComplete, fgVars
<1> QED BY <1>1, <1>2, <1>3, <1>4, <1>5, <1>b, <1>6, <1>7, <1>8, <1>9

\* A row gets its grain.
LEMMA ApplyRowInv ==
  ASSUME IInv, NEW w \in Worker, ApplyRow(w)
  PROVE  IInv'
<1> USE DEF IInv
<1>a. PICK to \in {"next0"} : Moves(w, to)
  BY MovesLemma DEF ApplyRow, TypeOK, WorkerPCs, OwingPCs, InRows
<1>1. TypeOK'
  <2>1. DOMAIN applied' = DOMAIN applied /\ \A r \in DOMAIN applied : applied'[r] \in Nat
    BY DEF ApplyRow, TypeOK
  <2> QED BY <1>a, <2>1 DEF ApplyRow, TypeOK, Moves, budget
<1>2. LockInv'
  BY <1>a, WorkerAssumption DEF ApplyRow, LockInv, LockPCs, Moves, Acquire, Release,
     Holding, TypeOK
<1>3. PhaseInv'
  BY <1>a, <1>1 DEF ApplyRow, PhaseInv, PrepInv, LockInv, LockPCs, FgPCs, OwingPCs, InRows,
     Moves, fgVars, Release, Holding, TypeOK
<1>4. PrepInv'
  BY <1>a, <1>1, WorkerAssumption DEF ApplyRow, PhaseInv, PrepInv, LockInv, LockPCs, FgPCs, OwingPCs, InRows,
     Moves, fgVars, Acquire, Release, Holding, TypeOK
<1>5. CountInv'
  <2>1. /\ Cardinality(Owing)' = Cardinality(Owing)
             + (IF to \in OwingPCs THEN 1 ELSE 0)
             - (IF pc[w] \in OwingPCs THEN 1 ELSE 0)
        /\ Cardinality(Between)' = Cardinality(Between)
             + (IF to = "next1" THEN 1 ELSE 0) - (IF pc[w] = "next1" THEN 1 ELSE 0)
        /\ Cardinality(Owing) \in Nat /\ Cardinality(Between) \in Nat
    BY <1>a, CountLemma DEF TypeOK, WorkerPCs, OwingPCs, InRows
  <2> QED
    BY <1>a, <2>1 DEF ApplyRow, CountInv, PhaseInv, FgPCs, OwingPCs, InRows, Moves, fgVars, TypeOK
<1>b. DoneInv'
  BY <1>a, <1>1 DEF ApplyRow, DoneInv, PhaseInv, FgPCs, OwingPCs, InRows, Moves, fgVars, TypeOK
<1>6. RowRange'
  BY <1>a, <1>1 DEF ApplyRow, RowRange, Reading, OwingPCs, InRows, Moves, fgVars, TypeOK
<1>7. RowDistinct'
  BY <1>a DEF ApplyRow, RowDistinct, Claims, Moves
<1>8. RowAccount'
  <2>1. \A v \in Worker : Claims(v)' <=> Claims(v) /\ v # w
    BY <1>a DEF ApplyRow, Claims, Moves
  <2>2. Claims(w) /\ row[w] < progress0 /\ row[w] \in 0 .. height - 1
    BY DEF ApplyRow, Claims, RowRange, Reading, OwingPCs, InRows, TypeOK
  <2>3. mpc = "waiting" /\ DOMAIN applied = 0 .. height - 1
    BY DEF ApplyRow, PhaseInv, FgPCs, OwingPCs, InRows
  <2>4. ASSUME NEW r \in 0 .. height - 1, RowApplied(r) \/ RowPending(r)
        PROVE  (RowApplied(r) \/ RowPending(r))'
    <3>1. CASE r = row[w]
      BY <2>1, <2>2, <2>3, <2>4, <3>1 DEF ApplyRow, RowApplied, RowPending, RowDistinct, TypeOK
    <3>2. CASE r # row[w]
      BY <2>1, <2>2, <2>3, <2>4, <3>2 DEF ApplyRow, RowApplied, RowPending, TypeOK
    <3> QED BY <3>1, <3>2
  <2> QED BY <2>3, <2>4 DEF ApplyRow, RowAccount
<1>9. GrainComplete'
  BY <1>3, <1>a DEF ApplyRow, GrainComplete, PhaseInv, FgPCs, OwingPCs, InRows, Moves, TypeOK
<1> QED BY <1>1, <1>2, <1>3, <1>4, <1>5, <1>b, <1>6, <1>7, <1>8, <1>9

\* The next row is handed out.
LEMMA NextRowInv ==
  ASSUME IInv, NEW w \in Worker, NextRow(w)
  PROVE  IInv'
<1> USE DEF IInv
<1>a. PICK to \in {"next1"} : Moves(w, to)
  BY MovesLemma DEF NextRow, TypeOK, WorkerPCs, OwingPCs, InRows
<1>1. TypeOK'
  <2>1. progress0' \in Nat /\ row' \in [Worker -> Nat]
    BY DEF NextRow, TypeOK
  <2> QED BY <1>a, <2>1 DEF NextRow, TypeOK, Moves, budget, Acquire, Release, Holding
<1>2. LockInv'
  BY <1>a, WorkerAssumption DEF NextRow, LockInv, LockPCs, Moves, Acquire, Release,
     Holding, TypeOK
<1>3. PhaseInv'
  BY <1>a, <1>1 DEF NextRow, PhaseInv, PrepInv, LockInv, LockPCs, FgPCs, OwingPCs, InRows,
     Moves, fgVars, Release, Holding, TypeOK
<1>4. PrepInv'
  BY <1>a, <1>1, WorkerAssumption DEF NextRow, PhaseInv, PrepInv, LockInv, LockPCs, FgPCs, OwingPCs, InRows,
     Moves, fgVars, Acquire, Release, Holding, TypeOK
<1>5. CountInv'
  <2>1. /\ Cardinality(Owing)' = Cardinality(Owing)
             + (IF to \in OwingPCs THEN 1 ELSE 0)
             - (IF pc[w] \in OwingPCs THEN 1 ELSE 0)
        /\ Cardinality(Between)' = Cardinality(Between)
             + (IF to = "next1" THEN 1 ELSE 0) - (IF pc[w] = "next1" THEN 1 ELSE 0)
        /\ Cardinality(Owing) \in Nat /\ Cardinality(Between) \in Nat
    BY <1>a, CountLemma DEF TypeOK, WorkerPCs, OwingPCs, InRows
  <2> QED
    BY <1>a, <2>1 DEF NextRow, CountInv, PhaseInv, FgPCs, OwingPCs, InRows, Moves, fgVars, TypeOK
<1>b. DoneInv'
  BY <1>a, <1>1 DEF NextRow, DoneInv, PhaseInv, FgPCs, OwingPCs, InRows, Moves, fgVars, TypeOK
<1>6. RowRange'
  BY <1>a, <1>1 DEF NextRow, RowRange, Reading, OwingPCs, InRows, Moves, fgVars, TypeOK
<1>7. RowDistinct'
  <2>1. \A v \in Worker \ {w} : Claims(v)' => Claims(v) /\ row'[v] = row[v] /\ row[v] < progress0
    BY <1>a DEF NextRow, RowRange, Reading, Claims, OwingPCs, InRows, Moves, TypeOK
  <2>2. row'[w] = progress0 /\ progress0 \in Nat /\ row \in [Worker -> Nat]
    BY DEF NextRow, TypeOK
  <2> QED BY <2>1, <2>2 DEF RowDistinct
<1>8. RowAccount'
  <2>1. \A v \in Worker \ {w} : (Claims(v)' <=> Claims(v)) /\ row'[v] = row[v]
    BY <1>a DEF NextRow, Claims, Moves, TypeOK
  <2>2. Claims(w)' /\ ~Claims(w) /\ row'[w] = progress0 /\ progress0' = progress0 + 1
    BY <1>a DEF NextRow, Claims, Moves, TypeOK
  <2>3. ASSUME NEW r \in 0 .. height - 1, RowApplied(r) \/ RowPending(r)
        PROVE  (RowApplied(r) \/ RowPending(r))'
    BY <2>1, <2>2, <2>3 DEF NextRow, RowApplied, RowPending, TypeOK
  <2> QED BY <2>3 DEF NextRow, RowAccount
<1>9. GrainComplete'
  BY DEF NextRow, GrainComplete, fgVars
<1> QED BY <1>1, <1>2, <1>3, <1>4, <1>5, <1>b, <1>6, <1>7, <1>8, <1>9

\* A hand-out is settled.
LEMMA RowDoneInv ==
  ASSUME IInv, NEW w \in Worker, RowDone(w)
  PROVE  IInv'
<1> USE DEF IInv
<1>a. PICK to \in {"rows", "finish"} : Moves(w, to)
  BY MovesLemma DEF RowDone, TypeOK, WorkerPCs, OwingPCs, InRows
<1>1. TypeOK'
  <2>1. progress1' \in Nat /\ done' \in [Worker -> Nat]
    BY DEF RowDone, TypeOK
  <2> QED BY <1>a, <2>1 DEF RowDone, TypeOK, Moves, budget, Acquire, Release, Holding
<1>2. LockInv'
  BY <1>a, WorkerAssumption DEF RowDone, LockInv, LockPCs, Moves, Acquire, Release,
     Holding, TypeOK
<1>3. PhaseInv'
  BY <1>a, <1>1 DEF RowDone, PhaseInv, PrepInv, LockInv, LockPCs, FgPCs, OwingPCs, InRows,
     Moves, fgVars, Release, Holding, TypeOK
<1>4. PrepInv'
  BY <1>a, <1>1, WorkerAssumption DEF RowDone, PhaseInv, PrepInv, LockInv, LockPCs, FgPCs, OwingPCs, InRows,
     Moves, fgVars, Acquire, Release, Holding, TypeOK
<1>5. CountInv'
  <2>1. /\ Cardinality(Owing)' = Cardinality(Owing)
             + (IF to \in OwingPCs THEN 1 ELSE 0)
             - (IF pc[w] \in OwingPCs THEN 1 ELSE 0)
        /\ Cardinality(Between)' = Cardinality(Between)
             + (IF to = "next1" THEN 1 ELSE 0) - (IF pc[w] = "next1" THEN 1 ELSE 0)
        /\ Cardinality(Owing) \in Nat /\ Cardinality(Between) \in Nat
    BY <1>a, CountLemma DEF TypeOK, WorkerPCs, OwingPCs, InRows
  <2>2. /\ to \in OwingPCs /\ to # "next1" /\ pc[w] = "next1"
        /\ pc[w] \in OwingPCs /\ mpc = "waiting"
    BY <1>a DEF RowDone, PhaseInv, FgPCs, OwingPCs, InRows
  <2>3. /\ Cardinality(Owing)' = Cardinality(Owing)
        /\ Cardinality(Between)' = Cardinality(Between) - 1
    BY <2>1, <2>2
  <2> QED
    BY <2>1, <2>2, <2>3 DEF RowDone, CountInv, PhaseInv, FgPCs, OwingPCs, InRows, Moves, fgVars, TypeOK
<1>b. DoneInv'
  BY <1>a, <1>1 DEF RowDone, DoneInv, PhaseInv, FgPCs, OwingPCs, InRows, Moves, fgVars, TypeOK
<1>6. RowRange'
  <2>1. /\ row[w] \in Nat /\ height \in Nat /\ progress0 \in Nat
        /\ UNCHANGED <<row, height, progress0>>
        /\ to = IF row[w] < height THEN "rows" ELSE "finish"
        /\ pc[w] = "next1"
    BY <1>a DEF RowDone, Goto, Moves, TypeOK
  <2>2. row[w] < progress0
    BY <2>1 DEF RowRange, Reading, OwingPCs, InRows
  <2> QED BY <1>a, <2>1, <2>2 DEF RowRange, Reading, OwingPCs, InRows, Moves
<1>7. RowDistinct'
  BY <1>a DEF RowDone, RowDistinct, Claims, Moves, fgVars
<1>8. RowAccount'
  <2>1. \A v \in Worker : Claims(v)' => Claims(v)
    BY <1>a DEF RowDone, Claims, Moves
  <2>2. \A v \in Worker : Claims(v) /\ ~Claims(v)' => row[v] >= height
    BY <1>a, <1>6 DEF RowDone, RowRange, Claims, Moves
  <2>3. ASSUME NEW r \in 0 .. height - 1, RowApplied(r) \/ RowPending(r)
        PROVE  (RowApplied(r) \/ RowPending(r))'
    BY <2>1, <2>2, <2>3 DEF RowDone, RowApplied, RowPending, fgVars, TypeOK
  <2> QED BY <2>3 DEF RowDone, RowAccount, fgVars
<1>9. GrainComplete'
  BY DEF RowDone, GrainComplete, fgVars
<1> QED BY <1>1, <1>2, <1>3, <1>4, <1>5, <1>b, <1>6, <1>7, <1>8, <1>9

\* Past the last row.
LEMMA FinishInv ==
  ASSUME IInv, NEW w \in Worker, Finish(w)
  PROVE  IInv'
<1> USE DEF IInv
<1>a. PICK to \in {"exit1"} : Moves(w, to)
  BY MovesLemma DEF Finish, TypeOK, WorkerPCs, OwingPCs, InRows
<1>1. TypeOK'
  BY <1>a DEF Finish, TypeOK, Moves, MainPCs, fgVars, budget, Acquire, Release, Holding
<1>2. LockInv'
  BY <1>a, WorkerAssumption DEF Finish, LockInv, LockPCs, Moves, Acquire, Release,
     Holding, TypeOK
<1>3. PhaseInv'
  BY <1>a, <1>1 DEF Finish, PhaseInv, PrepInv, LockInv, LockPCs, FgPCs, OwingPCs, InRows,
     Moves, fgVars, Release, Holding, TypeOK
<1>4. PrepInv'
  BY <1>a, <1>1, WorkerAssumption DEF Finish, PhaseInv, PrepInv, LockInv, LockPCs, FgPCs, OwingPCs, InRows,
     Moves, fgVars, Acquire, Release, Holding, TypeOK
<1>5. CountInv'
  <2>1. /\ Cardinality(Owing)' = Cardinality(Owing)
             + (IF to \in OwingPCs THEN 1 ELSE 0)
             - (IF pc[w] \in OwingPCs THEN 1 ELSE 0)
        /\ Cardinality(Between)' = Cardinality(Between)
             + (IF to = "next1" THEN 1 ELSE 0) - (IF pc[w] = "next1" THEN 1 ELSE 0)
        /\ Cardinality(Owing) \in Nat /\ Cardinality(Between) \in Nat
    BY <1>a, CountLemma DEF TypeOK, WorkerPCs, OwingPCs, InRows
  <2> QED
    BY <1>a, <2>1 DEF Finish, CountInv, PhaseInv, FgPCs, OwingPCs, InRows, Moves, fgVars, TypeOK
<1>b. DoneInv'
  BY <1>a, <1>1 DEF Finish, DoneInv, PhaseInv, FgPCs, OwingPCs, InRows, Moves, fgVars, TypeOK
<1>6. RowRange'
  BY <1>a, <1>1 DEF Finish, RowRange, Reading, OwingPCs, InRows, Moves, fgVars, TypeOK
<1>7. RowDistinct'
  BY <1>a DEF Finish, RowDistinct, Claims, Moves, fgVars
<1>8. RowAccount'
  <2>1. \A v \in Worker : Claims(v)' <=> Claims(v)
    BY <1>a DEF Finish, Claims, Moves
  <2> QED BY <2>1 DEF Finish, RowAccount, RowApplied, RowPending, fgVars
<1>9. GrainComplete'
  BY DEF Finish, GrainComplete, fgVars
<1> QED BY <1>1, <1>2, <1>3, <1>4, <1>5, <1>b, <1>6, <1>7, <1>8, <1>9

\* The worker's last hand-out is settled.
LEMMA LeaveInv ==
  ASSUME IInv, NEW w \in Worker, Leave(w)
  PROVE  IInv'
<1> USE DEF IInv
<1>a. PICK to \in {"exit2"} : Moves(w, to)
  BY MovesLemma DEF Leave, TypeOK, WorkerPCs, OwingPCs, InRows
<1>1. TypeOK'
  <2>1. progress1' \in Nat /\ done' \in [Worker -> Nat]
    BY DEF Leave, TypeOK
  <2> QED BY <1>a, <2>1 DEF Leave, TypeOK, Moves, budget, Acquire, Release, Holding
<1>2. LockInv'
  BY <1>a, WorkerAssumption DEF Leave, LockInv, LockPCs, Moves, Acquire, Release,
     Holding, TypeOK
<1>3. PhaseInv'
  BY <1>a, <1>1 DEF Leave, PhaseInv, PrepInv, LockInv, LockPCs, FgPCs, OwingPCs, InRows,
     Moves, fgVars, Release, Holding, TypeOK
<1>4. PrepInv'
  BY <1>a, <1>1, WorkerAssumption DEF Leave, PhaseInv, PrepInv, LockInv, LockPCs, FgPCs, OwingPCs, InRows,
     Moves, fgVars, Acquire, Release, Holding, TypeOK
<1>5. CountInv'
  <2>1. /\ Cardinality(Owing)' = Cardinality(Owing)
             + (IF to \in OwingPCs THEN 1 ELSE 0)
             - (IF pc[w] \in OwingPCs THEN 1 ELSE 0)
        /\ Cardinality(Between)' = Cardinality(Between)
             + (IF to = "next1" THEN 1 ELSE 0) - (IF pc[w] = "next1" THEN 1 ELSE 0)
        /\ Cardinality(Owing) \in Nat /\ Cardinality(Between) \in Nat
    BY <1>a, CountLemma DEF TypeOK, WorkerPCs, OwingPCs, InRows
  <2> QED
    BY <1>a, <2>1 DEF Leave, CountInv, PhaseInv, FgPCs, OwingPCs, InRows, Moves, fgVars, TypeOK
<1>b. DoneInv'
  <2>1. progress1 \in Nat /\ progress1' = progress1 + 1
    BY DEF Leave, TypeOK
  <2>2. done'[w] = progress1'
    BY <2>1 DEF Leave, TypeOK
  <2>3. \A v \in Worker \ {w} :
          /\ done'[v] = done[v] /\ done[v] \in Nat
          /\ pc'[v] = "exit2" => pc[v] = "exit2"
    BY <1>a DEF Leave, Moves, TypeOK
  <2> QED BY <2>1, <2>2, <2>3 DEF DoneInv
<1>6. RowRange'
  BY <1>a, <1>1 DEF Leave, RowRange, Reading, OwingPCs, InRows, Moves, fgVars, TypeOK
<1>7. RowDistinct'
  BY <1>a DEF Leave, RowDistinct, Claims, Moves, fgVars
<1>8. RowAccount'
  <2>1. \A v \in Worker : Claims(v)' <=> Claims(v)
    BY <1>a DEF Leave, Claims, Moves
  <2> QED BY <2>1 DEF Leave, RowAccount, RowApplied, RowPending, fgVars
<1>9. GrainComplete'
  BY DEF Leave, GrainComplete, fgVars
<1> QED BY <1>1, <1>2, <1>3, <1>4, <1>5, <1>b, <1>6, <1>7, <1>8, <1>9

\* When a worker finds every hand-out settled, no other worker is at the grain.
LEMMA NoneOwing ==
  ASSUME IInv, NEW w \in Worker, pc[w] = "exit2", done[w] >= progress0
  PROVE  Owing = {}
<1>1. mpc # "reset1" /\ done[w] <= progress1
  BY DEF IInv, PhaseInv, FgPCs, OwingPCs, InRows, CountInv, DoneInv
<1>2. Owing \in SUBSET Worker /\ Between \in SUBSET Worker
  BY DEF Owing, Between
<1>3. /\ IsFiniteSet(Owing) /\ Cardinality(Owing) \in Nat
      /\ Cardinality(Between) \in Nat
  BY <1>2, FS_Subset, FS_CardinalityType, WorkerAssumption
<1>4. Cardinality(Owing) = 0
  BY <1>1, <1>3 DEF IInv, CountInv, TypeOK
<1> QED BY <1>3, <1>4, FS_EmptySet

\* The worker leaves, and may wake the caller.
LEMMA CompleteInv ==
  ASSUME IInv, NEW w \in Worker, Complete(w)
  PROVE  IInv'
<1> USE DEF IInv
<1>a. PICK to \in {"return"} : Moves(w, to)
  BY MovesLemma DEF Complete, TypeOK, WorkerPCs, OwingPCs, InRows
<1>c. mpc' = "woken" /\ mpc = "waiting" => \A v \in Worker \ {w} : pc'[v] \notin FgPCs
  <2>1. \A v \in Worker \ {w} : pc[v] \notin LockPCs
    BY DEF Complete, LockInv, Holding
  <2>2. mpc' = "woken" /\ mpc = "waiting" => Owing = {}
    BY NoneOwing DEF Complete
  <2> QED BY <1>a, <2>1, <2>2 DEF Owing, Moves, FgPCs, LockPCs, OwingPCs, InRows
<1>1. TypeOK'
  BY <1>a DEF Complete, TypeOK, Moves, MainPCs, fgVars, budget, Acquire, Release, Holding
<1>2. LockInv'
  BY <1>a, WorkerAssumption DEF Complete, LockInv, LockPCs, Moves, Acquire, Release,
     Holding, TypeOK
<1>3. PhaseInv'
  BY <1>a, <1>c, <1>1 DEF Complete, PhaseInv, PrepInv, LockInv, LockPCs, FgPCs, OwingPCs, InRows,
     Moves, fgVars, Release, Holding, TypeOK
<1>4. PrepInv'
  BY <1>a, <1>1, WorkerAssumption DEF Complete, PhaseInv, PrepInv, LockInv, LockPCs, FgPCs, OwingPCs, InRows,
     Moves, fgVars, Acquire, Release, Holding, TypeOK
<1>5. CountInv'
  <2>1. /\ Cardinality(Owing)' = Cardinality(Owing)
             + (IF to \in OwingPCs THEN 1 ELSE 0)
             - (IF pc[w] \in OwingPCs THEN 1 ELSE 0)
        /\ Cardinality(Between)' = Cardinality(Between)
             + (IF to = "next1" THEN 1 ELSE 0) - (IF pc[w] = "next1" THEN 1 ELSE 0)
        /\ Cardinality(Owing) \in Nat /\ Cardinality(Between) \in Nat
    BY <1>a, CountLemma DEF TypeOK, WorkerPCs, OwingPCs, InRows
  <2> QED
    BY <1>a, <2>1 DEF Complete, CountInv, PhaseInv, FgPCs, OwingPCs, InRows, Moves, fgVars, TypeOK
<1>b. DoneInv'
  BY <1>a, <1>1 DEF Complete, DoneInv, PhaseInv, FgPCs, OwingPCs, InRows, Moves, fgVars, TypeOK
<1>6. RowRange'
  BY <1>a, <1>1 DEF Complete, RowRange, Reading, OwingPCs, InRows, Moves, fgVars, TypeOK
<1>7. RowDistinct'
  BY <1>a DEF Complete, RowDistinct, Claims, Moves, fgVars
<1>8. RowAccount'
  <2>1. \A v \in Worker : Claims(v)' <=> Claims(v)
    BY <1>a DEF Complete, Claims, Moves
  <2> QED BY <2>1 DEF Complete, RowAccount, RowApplied, RowPending, fgVars
<1>9. GrainComplete'
  <2> SUFFICES ASSUME mpc = "waiting", mpc' = "woken"
               PROVE  \A r \in 0 .. height - 1 : applied[r] = 1
    BY DEF Complete, GrainComplete, fgVars
  <2>1. Owing = {}
    BY NoneOwing DEF Complete
  <2>2. \A v \in Worker : ~Claims(v)
    BY <2>1 DEF Owing, Claims, OwingPCs, InRows
  <2>3. progress0 > height
    BY DEF Complete, RowRange
  <2> QED BY <2>2, <2>3 DEF RowAccount, RowApplied, RowPending, TypeOK
<1> QED BY <1>1, <1>2, <1>3, <1>4, <1>5, <1>b, <1>6, <1>7, <1>8, <1>9

\* The worker returns from delayed_fg_task.
LEMMA ReturnInv ==
  ASSUME IInv, NEW w \in Worker, Return(w)
  PROVE  IInv'
<1> USE DEF IInv
<1>a. PICK to \in {"loop"} : Moves(w, to)
  BY MovesLemma DEF Return, TypeOK, WorkerPCs, OwingPCs, InRows
<1>1. TypeOK'
  BY <1>a DEF Return, TypeOK, Moves, MainPCs, fgVars, budget, Acquire, Release, Holding
<1>2. LockInv'
  BY <1>a, WorkerAssumption DEF Return, LockInv, LockPCs, Moves, Acquire, Release,
     Holding, TypeOK
<1>3. PhaseInv'
  BY <1>a, <1>1 DEF Return, PhaseInv, PrepInv, LockInv, LockPCs, FgPCs, OwingPCs, InRows,
     Moves, fgVars, Release, Holding, TypeOK
<1>4. PrepInv'
  BY <1>a, <1>1, WorkerAssumption DEF Return, PhaseInv, PrepInv, LockInv, LockPCs, FgPCs, OwingPCs, InRows,
     Moves, fgVars, Acquire, Release, Holding, TypeOK
<1>5. CountInv'
  <2>1. /\ Cardinality(Owing)' = Cardinality(Owing)
             + (IF to \in OwingPCs THEN 1 ELSE 0)
             - (IF pc[w] \in OwingPCs THEN 1 ELSE 0)
        /\ Cardinality(Between)' = Cardinality(Between)
             + (IF to = "next1" THEN 1 ELSE 0) - (IF pc[w] = "next1" THEN 1 ELSE 0)
        /\ Cardinality(Owing) \in Nat /\ Cardinality(Between) \in Nat
    BY <1>a, CountLemma DEF TypeOK, WorkerPCs, OwingPCs, InRows
  <2> QED
    BY <1>a, <2>1 DEF Return, CountInv, PhaseInv, FgPCs, OwingPCs, InRows, Moves, fgVars, TypeOK
<1>b. DoneInv'
  BY <1>a, <1>1 DEF Return, DoneInv, PhaseInv, FgPCs, OwingPCs, InRows, Moves, fgVars, TypeOK
<1>6. RowRange'
  BY <1>a, <1>1 DEF Return, RowRange, Reading, OwingPCs, InRows, Moves, fgVars, TypeOK
<1>7. RowDistinct'
  BY <1>a DEF Return, RowDistinct, Claims, Moves, fgVars
<1>8. RowAccount'
  <2>1. \A v \in Worker : Claims(v)' <=> Claims(v)
    BY <1>a DEF Return, Claims, Moves
  <2> QED BY <2>1 DEF Return, RowAccount, RowApplied, RowPending, fgVars
<1>9. GrainComplete'
  BY DEF Return, GrainComplete, fgVars
<1> QED BY <1>1, <1>2, <1>3, <1>4, <1>5, <1>b, <1>6, <1>7, <1>8, <1>9

\* The caller's steps outside the wait leave the workers where they are, and
\* none is at the grain.
LEMMA CallerQuiet ==
  ASSUME IInv, mpc # "waiting", mpc = "woken" => lock = NoOne,
         UNCHANGED <<pc, row, done>>
  PROVE  /\ ~exec
         /\ \A w \in Worker : /\ pc[w] \notin FgPCs /\ pc[w] \notin InRows
                             /\ pc[w] \notin {"prep", "enter"}
                             /\ ~Claims(w)
         /\ Owing = {} /\ Owing' = {} /\ Between = {} /\ Between' = {}
         /\ Cardinality(Owing') = 0 /\ Cardinality(Between') = 0
         /\ Cardinality(Owing) = 0 /\ Cardinality(Between) = 0
<1>1. ~exec /\ \A w \in Worker : pc[w] \notin FgPCs
  BY WorkerAssumption DEF IInv, PhaseInv, LockInv, LockPCs
<1>2. Owing = {} /\ Owing' = {} /\ Between = {} /\ Between' = {}
  BY <1>1 DEF Owing, Between, FgPCs, OwingPCs, InRows
<1> QED BY <1>1, <1>2, FS_EmptySet DEF FgPCs, OwingPCs, InRows, Claims

\* A picture is put into delayed_fg.
LEMMA BeginInv ==
  ASSUME IInv, Begin
  PROVE  IInv'
<1> USE DEF IInv
<1>1. /\ mpc # "waiting" /\ UNCHANGED <<pc, row, done, lock, exec>>
      /\ mpc = "woken" => lock = NoOne
  BY DEF Begin
<1>2. TypeOK'
  BY HeightsAssumption DEF Begin, TypeOK, MainPCs, fgVars, budget
<1>3. LockInv' /\ DoneInv'
  BY <1>1, CallerQuiet DEF Begin, LockInv, DoneInv, OwingPCs, InRows
<1>4. PhaseInv'
  BY <1>1, CallerQuiet DEF Begin, PhaseInv, FgPCs, OwingPCs, InRows, fgVars
<1>5. PrepInv'
  BY <1>1, CallerQuiet DEF Begin, PrepInv, PhaseInv, FgPCs, OwingPCs, InRows, fgVars, TypeOK
<1>6. CountInv'
  BY <1>1, <1>2, CallerQuiet DEF Begin, CountInv, PhaseInv, fgVars, TypeOK
<1>7. RowRange' /\ RowDistinct' /\ RowAccount'
  BY <1>1, CallerQuiet DEF Begin, RowRange, RowDistinct, RowAccount, Reading, OwingPCs, InRows, Claims
<1>8. GrainComplete'
  BY DEF Begin, GrainComplete, fgVars
<1> QED BY <1>2, <1>3, <1>4, <1>5, <1>6, <1>7, <1>8

\* The caller is awake.
LEMMA WakeInv ==
  ASSUME IInv, Wake
  PROVE  IInv'
<1> USE DEF IInv
<1>1. /\ mpc # "waiting" /\ UNCHANGED <<pc, row, done, lock, exec>>
      /\ mpc = "woken" => lock = NoOne
  BY DEF Wake
<1>2. TypeOK'
  BY HeightsAssumption DEF Wake, TypeOK, MainPCs, fgVars, budget
<1>3. LockInv' /\ DoneInv'
  BY <1>1, CallerQuiet DEF Wake, LockInv, DoneInv, OwingPCs, InRows
<1>4. PhaseInv'
  BY <1>1, CallerQuiet DEF Wake, PhaseInv, FgPCs, OwingPCs, InRows, fgVars
<1>5. PrepInv'
  BY <1>1, CallerQuiet DEF Wake, PrepInv, PhaseInv, FgPCs, OwingPCs, InRows, fgVars, TypeOK
<1>6. CountInv'
  BY <1>1, <1>2, CallerQuiet DEF Wake, CountInv, PhaseInv, fgVars, TypeOK
<1>7. RowRange' /\ RowDistinct' /\ RowAccount'
  BY <1>1, CallerQuiet DEF Wake, RowRange, RowDistinct, RowAccount, Reading, OwingPCs, InRows, Claims
<1>8. GrainComplete'
  BY DEF Wake, GrainComplete, fgVars
<1> QED BY <1>2, <1>3, <1>4, <1>5, <1>6, <1>7, <1>8

\* The first counter is cleared.
LEMMA Reset0Inv ==
  ASSUME IInv, Reset0
  PROVE  IInv'
<1> USE DEF IInv
<1>1. /\ mpc # "waiting" /\ UNCHANGED <<pc, row, done, lock, exec>>
      /\ mpc = "woken" => lock = NoOne
  BY DEF Reset0
<1>2. TypeOK'
  BY HeightsAssumption DEF Reset0, TypeOK, MainPCs, fgVars, budget
<1>3. LockInv' /\ DoneInv'
  BY <1>1, CallerQuiet DEF Reset0, LockInv, DoneInv, OwingPCs, InRows
<1>4. PhaseInv'
  BY <1>1, CallerQuiet DEF Reset0, PhaseInv, FgPCs, OwingPCs, InRows, fgVars
<1>5. PrepInv'
  BY <1>1, CallerQuiet DEF Reset0, PrepInv, PhaseInv, FgPCs, OwingPCs, InRows, fgVars, TypeOK
<1>6. CountInv'
  BY <1>1, <1>2, CallerQuiet DEF Reset0, CountInv, PhaseInv, fgVars, TypeOK
<1>7. RowRange' /\ RowDistinct' /\ RowAccount'
  BY <1>1, CallerQuiet DEF Reset0, RowRange, RowDistinct, RowAccount, Reading, OwingPCs, InRows, Claims
<1>8. GrainComplete'
  BY DEF Reset0, GrainComplete, fgVars
<1> QED BY <1>2, <1>3, <1>4, <1>5, <1>6, <1>7, <1>8

\* The second counter is cleared.
LEMMA Reset1Inv ==
  ASSUME IInv, Reset1
  PROVE  IInv'
<1> USE DEF IInv
<1>1. /\ mpc # "waiting" /\ UNCHANGED <<pc, row, done, lock, exec>>
      /\ mpc = "woken" => lock = NoOne
  BY DEF Reset1
<1>2. TypeOK'
  BY HeightsAssumption DEF Reset1, TypeOK, MainPCs, fgVars, budget
<1>3. LockInv' /\ DoneInv'
  BY <1>1, CallerQuiet DEF Reset1, LockInv, DoneInv, OwingPCs, InRows
<1>4. PhaseInv'
  BY <1>1, CallerQuiet DEF Reset1, PhaseInv, FgPCs, OwingPCs, InRows, fgVars
<1>5. PrepInv'
  BY <1>1, CallerQuiet DEF Reset1, PrepInv, PhaseInv, FgPCs, OwingPCs, InRows, fgVars, TypeOK
<1>6. CountInv'
  BY <1>1, <1>2, CallerQuiet DEF Reset1, CountInv, PhaseInv, fgVars, TypeOK
<1>7. RowRange' /\ RowDistinct' /\ RowAccount'
  BY <1>1, CallerQuiet DEF Reset1, RowRange, RowDistinct, RowAccount, Reading, OwingPCs, InRows, Claims
<1>8. GrainComplete'
  BY DEF Reset1, GrainComplete, fgVars
<1> QED BY <1>2, <1>3, <1>4, <1>5, <1>6, <1>7, <1>8

\* The pictures are released.
LEMMA TakeInv ==
  ASSUME IInv, Take
  PROVE  IInv'
<1> USE DEF IInv
<1>1. /\ mpc # "waiting" /\ UNCHANGED <<pc, row, done, lock, exec>>
      /\ mpc = "woken" => lock = NoOne
  BY DEF Take
<1>2. TypeOK'
  BY HeightsAssumption DEF Take, TypeOK, MainPCs, fgVars, budget
<1>3. LockInv' /\ DoneInv'
  BY <1>1, CallerQuiet DEF Take, LockInv, DoneInv, OwingPCs, InRows
<1>4. PhaseInv'
  BY <1>1, CallerQuiet DEF Take, PhaseInv, FgPCs, OwingPCs, InRows, fgVars
<1>5. PrepInv'
  BY <1>1, CallerQuiet DEF Take, PrepInv, PhaseInv, FgPCs, OwingPCs, InRows, fgVars, TypeOK
<1>6. CountInv'
  BY <1>1, <1>2, CallerQuiet DEF Take, CountInv, PhaseInv, fgVars, TypeOK
<1>7. RowRange' /\ RowDistinct' /\ RowAccount'
  BY <1>1, CallerQuiet DEF Take, RowRange, RowDistinct, RowAccount, Reading, OwingPCs, InRows, Claims
<1>8. GrainComplete'
  BY DEF Take, GrainComplete, fgVars
<1> QED BY <1>2, <1>3, <1>4, <1>5, <1>6, <1>7, <1>8

\* The picture is offered to the workers.
LEMMA SubmitInv ==
  ASSUME IInv, Submit
  PROVE  IInv'
<1> USE DEF IInv
<1>1. /\ mpc = "submit" /\ mpc' = "waiting" /\ exec' = TRUE
      /\ UNCHANGED <<lock, row, done, fgVars>>
  BY DEF Submit
<1>2. /\ pc' \in [Worker -> WorkerPCs]
      /\ \A w \in Worker :
           pc'[w] = pc[w] \/ (pc[w] = "parked" /\ pc'[w] = "relock")
  BY DEF Submit, Notify, Parked, TypeOK, WorkerPCs, OwingPCs, InRows
<1>3. \A w \in Worker : pc[w] \notin FgPCs /\ pc'[w] \notin FgPCs
  BY <1>1, <1>2 DEF PhaseInv, FgPCs, OwingPCs, InRows
<1>4. TypeOK'
  BY <1>1, <1>2 DEF Submit, TypeOK, MainPCs, fgVars, budget
<1>5. LockInv' /\ DoneInv'
  BY <1>1, <1>2, <1>3 DEF LockInv, LockPCs, DoneInv, FgPCs, OwingPCs, InRows
<1>6. PhaseInv' /\ PrepInv'
  BY <1>1, <1>3 DEF PhaseInv, PrepInv, FgPCs, OwingPCs, InRows, fgVars
<1>7. CountInv'
  <2>1. Owing' = {} /\ Between' = {}
    BY <1>3 DEF Owing, Between, FgPCs, OwingPCs, InRows
  <2>2. progress0' = 0 /\ progress1' = 0
    BY <1>1 DEF PhaseInv, fgVars
  <2> QED BY <2>1, <2>2, FS_EmptySet DEF CountInv
<1>8. RowRange' /\ RowDistinct'
  BY <1>3 DEF RowRange, RowDistinct, Reading, Claims, FgPCs, OwingPCs, InRows
<1>9. RowAccount' /\ GrainComplete'
  <2>1. \A r \in 0 .. height - 1 : applied[r] = 0
    BY <1>1 DEF PhaseInv, PrepInv
  <2>2. progress0 = 0
    BY <1>1 DEF PhaseInv
  <2> QED BY <1>1, <2>1, <2>2 DEF RowAccount, RowPending, GrainComplete, fgVars, TypeOK
<1> QED BY <1>4, <1>5, <1>6, <1>7, <1>8, <1>9

\* A stuttering step.
LEMMA StutterInv ==
  ASSUME IInv, UNCHANGED vars
  PROVE  IInv'
BY DEF IInv, vars, TypeOK, LockInv, PhaseInv, PrepInv, CountInv, DoneInv, Owing,
   Between, RowRange, RowDistinct, RowAccount, RowApplied, RowPending, Reading,
   Claims, GrainComplete

\* IInv is an invariant: every action of the caller and of a worker keeps it.
THEOREM Invariance == Spec => []IInv
<1>1. IInv /\ [Next]_vars => IInv'
  <2> SUFFICES ASSUME IInv, [Next]_vars PROVE IInv'
    OBVIOUS
  <2>1. CASE MainNext
    BY <2>1, BeginInv, SubmitInv, WakeInv, Reset0Inv, Reset1Inv, TakeInv DEF MainNext
  <2>2. CASE \E w \in Worker : WorkerNext(w)
    <3> PICK w \in Worker : WorkerNext(w)
      BY <2>2
    <3>1. CASE FgNext(w)
      BY <3>1, StartPrepInv, EndPrepInv, StartApplyInv, EnterInv, MoreRowsInv,
         LastRowInv, CloseRowsInv, ApplyRowInv, NextRowInv, RowDoneInv, FinishInv,
         LeaveInv, CompleteInv, ReturnInv DEF FgNext
    <3>2. CASE Relock(w) \/ FindTask(w) \/ FinishTask(w) \/ Park(w)
      BY <3>2, RelockInv, FindTaskInv, FinishTaskInv, ParkInv
    <3> QED BY <3>1, <3>2 DEF WorkerNext
  <2>3. CASE UNCHANGED vars
    BY <2>3, StutterInv
  <2> QED BY <2>1, <2>2, <2>3 DEF Next
<1> QED BY InitInv, <1>1, PTL DEF Spec

\* Every variable keeps its type, for any pool and any pictures.
THEOREM TypeCorrect == Spec => []TypeOK
<1>1. IInv => TypeOK
  BY DEF IInv
<1> QED BY <1>1, Invariance, PTL

\* rav1d_task_delayed_fg only goes on when every row of the picture has had
\* its grain exactly once.
THEOREM GrainIsComplete == Spec => []GrainComplete
<1>1. IInv => GrainComplete
  BY DEF IInv
<1> QED BY <1>1, Invariance, PTL

\* Two workers never apply grain to the same row, nor to a row that already
\* has it or lies past the picture.
THEOREM RowsAreDisjoint == Spec => []RowsDisjoint
<1>1. IInv => RowsDisjoint
  <2> SUFFICES ASSUME IInv, NEW v \in Worker, NEW w \in Worker, pc[v] = "apply"
               PROVE  /\ row[v] < height /\ applied[row[v]] = 0
                      /\ v # w /\ pc[w] = "apply" => row[v] # row[w]
    BY DEF RowsDisjoint
  <2>1. mpc = "waiting" /\ Claims(v) /\ row[v] < height
    BY DEF IInv, PhaseInv, FgPCs, OwingPCs, InRows, Claims, RowRange
  <2>2. row[v] \in 0 .. height - 1
    BY <2>1 DEF IInv, TypeOK
  <2>3. applied[row[v]] = 0
    BY <2>1, <2>2 DEF IInv, RowAccount, RowApplied, RowPending
  <2>4. v # w /\ pc[w] = "apply" => row[v] # row[w]
    BY <2>1 DEF IInv, RowDistinct, Claims
  <2> QED BY <2>1, <2>3, <2>4
<1> QED BY <1>1, Invariance, PTL

\* No try_read or try_write of the picture pair ever meets a guard that
\* makes it fail (and unwrap() panic).
THEOREM GuardsAreCompatible == Spec => []GuardsCompatible
<1>1. IInv => GuardsCompatible
  <2> SUFFICES ASSUME IInv PROVE GuardsCompatible
    OBVIOUS
  <2>1. mpc \in {"idle", "take"} => Reading \cup Writing = {}
    BY DEF IInv, PhaseInv, FgPCs, Reading, Writing
  <2>2. ASSUME NEW w \in Writing PROVE Reading \cup Writing = {w}
    <3>1. type = "FgPrep" /\ lock = w
      BY DEF IInv, PrepInv, LockInv, LockPCs, Writing
    <3>2. Reading = {}
      BY <3>1 DEF IInv, PrepInv, Reading
    <3>3. \A v \in Writing : v = w
      BY <3>1 DEF IInv, LockInv, LockPCs, Writing
    <3> QED BY <3>2, <3>3
  <2> QED BY <2>1, <2>2 DEF GuardsCompatible
<1> QED BY <1>1, Invariance, PTL

\* The notification of the caller is never early and never doubled, and the
\* workers are never invited to a picture that is not there.
THEOREM Handshake == Spec => [](CompletionHeard /\ ExecMeansWork)
<1>1. IInv => CompletionHeard /\ ExecMeansWork
  BY DEF IInv, PhaseInv, FgPCs, OwingPCs, InRows, CompletionHeard, ExecMeansWork, TypeOK
<1> QED BY <1>1, Invariance, PTL
============================================================================
