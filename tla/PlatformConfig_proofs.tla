------------------------ MODULE PlatformConfig_proofs ------------------------
(***************************************************************************)
(* Theorems about PlatformConfig, for any sets of replicas, keys and calls *)
(* of Set.                                                                 *)
(***************************************************************************)
EXTENDS PlatformConfig, TLAPS

-----------------------------------------------------------------------------
(* The inductive invariant *)

\* A call of Set that has begun knows its replica and its key; one about to
\* write to the map has committed.
CallsKnow ==
  \A w \in Writes :
    /\ pc[w] # "idle" => on[w] \in Replicas /\ key[w] \in Keys
    /\ pc[w] = "publish" => w \in committed[key[w]]

\* What the database holds, and what a refresh has read, was committed.
ReadsAreCommitted ==
  \A k \in Keys :
    /\ db[k] \in committed[k] \cup {"unset"}
    /\ \A r \in Replicas : snapshot[r][k] \in committed[k] \cup {"unset"}

\* Only a process that is up loads.
LoadersAreUp == \A r \in loading : phase[r] # "down"

IInv == TypeOK /\ CallsKnow /\ ReadsAreCommitted /\ LoadersAreUp /\ CacheIsCommitted

\* IInv, with the types, holds in every reachable state, whatever is fair.
THEOREM InductiveSafe == Init /\ [][Next]_vars => []IInv
<1> USE DEF IInv, loadVars, setVars, Tables, Values
<1>1. Init => IInv
  <2>1. Init => TypeOK
    BY DEF Init, TypeOK, Empty
  <2>2. Init => CallsKnow /\ ReadsAreCommitted /\ LoadersAreUp /\ CacheIsCommitted
    BY DEF Init, CallsKnow, ReadsAreCommitted, LoadersAreUp, CacheIsCommitted, Empty
  <2> QED
    BY <2>1, <2>2
<1>2. IInv /\ [Next]_vars => IInv'
  <2> SUFFICES ASSUME IInv, [Next]_vars
               PROVE  IInv'
    OBVIOUS
  <2>1. ASSUME NEW r \in Replicas, Boot(r)
        PROVE  IInv'
    <3>1. TypeOK'
      BY <2>1 DEF Boot, TypeOK, CallsKnow
    <3>2. CallsKnow' /\ ReadsAreCommitted' /\ LoadersAreUp'
      BY <2>1 DEF Boot, TypeOK, CallsKnow, ReadsAreCommitted, LoadersAreUp
    <3>3. CacheIsCommitted'
      BY <2>1 DEF Boot, TypeOK, CallsKnow, ReadsAreCommitted, CacheIsCommitted
    <3> QED
      BY <3>1, <3>2, <3>3
  <2>2. ASSUME NEW r \in Replicas, Crash(r)
        PROVE  IInv'
    <3>1. TypeOK'
      BY <2>2 DEF Crash, Empty, TypeOK, CallsKnow
    <3>2. CallsKnow' /\ ReadsAreCommitted' /\ LoadersAreUp'
      BY <2>2 DEF Crash, Empty, TypeOK, CallsKnow, ReadsAreCommitted, LoadersAreUp
    <3>3. CacheIsCommitted'
      BY <2>2 DEF Crash, Empty, TypeOK, CallsKnow, ReadsAreCommitted, CacheIsCommitted
    <3> QED
      BY <3>1, <3>2, <3>3
  <2>3. ASSUME NEW r \in Replicas, LoadRead(r)
        PROVE  IInv'
    <3>1. TypeOK'
      BY <2>3 DEF LoadRead, TypeOK, CallsKnow
    <3>2. CallsKnow' /\ ReadsAreCommitted' /\ LoadersAreUp'
      BY <2>3 DEF LoadRead, TypeOK, CallsKnow, ReadsAreCommitted, LoadersAreUp
    <3>3. CacheIsCommitted'
      BY <2>3 DEF LoadRead, TypeOK, CallsKnow, ReadsAreCommitted, CacheIsCommitted
    <3> QED
      BY <3>1, <3>2, <3>3
  <2>4. ASSUME NEW r \in Replicas, LoadSwap(r)
        PROVE  IInv'
    <3>1. TypeOK'
      BY <2>4 DEF LoadSwap, TypeOK, CallsKnow
    <3>2. CallsKnow' /\ ReadsAreCommitted' /\ LoadersAreUp'
      BY <2>4 DEF LoadSwap, TypeOK, CallsKnow, ReadsAreCommitted, LoadersAreUp
    <3>3. CacheIsCommitted'
      BY <2>4 DEF LoadSwap, TypeOK, CallsKnow, ReadsAreCommitted, CacheIsCommitted
    <3> QED
      BY <3>1, <3>2, <3>3
  <2>5. ASSUME NEW r \in Replicas, LoadFail(r)
        PROVE  IInv'
    <3>1. TypeOK'
      BY <2>5 DEF LoadFail, TypeOK, CallsKnow
    <3>2. CallsKnow' /\ ReadsAreCommitted' /\ LoadersAreUp'
      BY <2>5 DEF LoadFail, TypeOK, CallsKnow, ReadsAreCommitted, LoadersAreUp
    <3>3. CacheIsCommitted'
      BY <2>5 DEF LoadFail, TypeOK, CallsKnow, ReadsAreCommitted, CacheIsCommitted
    <3> QED
      BY <3>1, <3>2, <3>3
  <2>6. ASSUME NEW w \in Writes, NEW r \in Replicas, NEW k \in Keys, Set(w, r, k)
        PROVE  IInv'
    <3>1. TypeOK'
      BY <2>6 DEF Set, GoTo, TypeOK, CallsKnow
    <3>2. CallsKnow' /\ ReadsAreCommitted' /\ LoadersAreUp'
      BY <2>6 DEF Set, GoTo, TypeOK, CallsKnow, ReadsAreCommitted, LoadersAreUp
    <3>3. CacheIsCommitted'
      BY <2>6 DEF Set, GoTo, TypeOK, CallsKnow, ReadsAreCommitted, CacheIsCommitted
    <3> QED
      BY <3>1, <3>2, <3>3
  <2>7. ASSUME NEW w \in Writes, Commit(w)
        PROVE  IInv'
    <3>1. TypeOK'
      BY <2>7 DEF Commit, GoTo, TypeOK, CallsKnow
    <3>2. CallsKnow' /\ ReadsAreCommitted' /\ LoadersAreUp'
      BY <2>7 DEF Commit, GoTo, TypeOK, CallsKnow, ReadsAreCommitted, LoadersAreUp
    <3>3. CacheIsCommitted'
      BY <2>7 DEF Commit, GoTo, TypeOK, CallsKnow, ReadsAreCommitted, CacheIsCommitted
    <3> QED
      BY <3>1, <3>2, <3>3
  <2>8. ASSUME NEW w \in Writes, Publish(w)
        PROVE  IInv'
    <3>1. TypeOK'
      BY <2>8 DEF Publish, GoTo, TypeOK, CallsKnow
    <3>2. CallsKnow' /\ ReadsAreCommitted' /\ LoadersAreUp'
      BY <2>8 DEF Publish, GoTo, TypeOK, CallsKnow, ReadsAreCommitted, LoadersAreUp
    <3>3. CacheIsCommitted'
      BY <2>8 DEF Publish, GoTo, TypeOK, CallsKnow, ReadsAreCommitted, CacheIsCommitted
    <3> QED
      BY <3>1, <3>2, <3>3
  <2>9. ASSUME NEW w \in Writes, SetFail(w)
        PROVE  IInv'
    <3>1. TypeOK'
      BY <2>9 DEF SetFail, GoTo, TypeOK, CallsKnow
    <3>2. CallsKnow' /\ ReadsAreCommitted' /\ LoadersAreUp'
      BY <2>9 DEF SetFail, GoTo, TypeOK, CallsKnow, ReadsAreCommitted, LoadersAreUp
    <3>3. CacheIsCommitted'
      BY <2>9 DEF SetFail, GoTo, TypeOK, CallsKnow, ReadsAreCommitted, CacheIsCommitted
    <3> QED
      BY <3>1, <3>2, <3>3
  <2>10. CASE UNCHANGED vars
    BY <2>10 DEF vars, TypeOK, CallsKnow, ReadsAreCommitted, LoadersAreUp, CacheIsCommitted
  <2> QED
    BY <2>1, <2>2, <2>3, <2>4, <2>5, <2>6, <2>7, <2>8, <2>9, <2>10 DEF Next
<1> QED
  BY <1>1, <1>2, PTL

THEOREM Inductive == Spec => []IInv
  BY InductiveSafe, PTL DEF Spec

-----------------------------------------------------------------------------
(* What follows *)

\* No replica answers with a value that was never committed.
THEOREM NoStrayValue == Spec => []CacheIsCommitted
<1>1. IInv => CacheIsCommitted
  BY DEF IInv
<1> QED
  BY <1>1, Inductive, PTL

\* Every value stays in its set.
THEOREM TypeCorrect == Spec => []TypeOK
<1>1. IInv => TypeOK
  BY DEF IInv
<1> QED
  BY <1>1, Inductive, PTL

\* A replica in step with the database stays so until another commit or the end
\* of its process.
THEOREM StepKept == Spec => SettledStays
<1>1. ASSUME IInv, [Next]_vars, NEW r \in Replicas, NEW k \in Keys, Settled(r, k)
      PROVE  Settled(r, k)' \/ db'[k] # db[k] \/ phase'[r] = "down"
  <2> USE <1>1 DEF IInv, loadVars, setVars, Tables, Values
  <2>1. ASSUME NEW q \in Replicas, Boot(q)
        PROVE  Settled(r, k)' \/ db'[k] # db[k] \/ phase'[r] = "down"
    BY <2>1 DEF Boot, Settled, TypeOK, CallsKnow
  <2>2. ASSUME NEW q \in Replicas, Crash(q)
        PROVE  Settled(r, k)' \/ db'[k] # db[k] \/ phase'[r] = "down"
    BY <2>2 DEF Crash, Empty, Settled, TypeOK, CallsKnow
  <2>3. ASSUME NEW q \in Replicas, LoadRead(q)
        PROVE  Settled(r, k)' \/ db'[k] # db[k] \/ phase'[r] = "down"
    BY <2>3 DEF LoadRead, Settled, TypeOK, CallsKnow
  <2>4. ASSUME NEW q \in Replicas, LoadSwap(q)
        PROVE  Settled(r, k)' \/ db'[k] # db[k] \/ phase'[r] = "down"
    BY <2>4 DEF LoadSwap, Settled, TypeOK, CallsKnow
  <2>5. ASSUME NEW q \in Replicas, LoadFail(q)
        PROVE  Settled(r, k)' \/ db'[k] # db[k] \/ phase'[r] = "down"
    BY <2>5 DEF LoadFail, Settled, TypeOK, CallsKnow
  <2>6. ASSUME NEW w \in Writes, NEW q \in Replicas, NEW j \in Keys, Set(w, q, j)
        PROVE  Settled(r, k)' \/ db'[k] # db[k] \/ phase'[r] = "down"
    BY <2>6 DEF Set, GoTo, Settled, TypeOK, CallsKnow
  <2>7. ASSUME NEW w \in Writes, Commit(w)
        PROVE  Settled(r, k)' \/ db'[k] # db[k] \/ phase'[r] = "down"
    BY <2>7 DEF Commit, GoTo, Settled, TypeOK, CallsKnow
  <2>8. ASSUME NEW w \in Writes, Publish(w)
        PROVE  Settled(r, k)' \/ db'[k] # db[k] \/ phase'[r] = "down"
    BY <2>8 DEF Publish, GoTo, Settled, TypeOK, CallsKnow
  <2>9. ASSUME NEW w \in Writes, SetFail(w)
        PROVE  Settled(r, k)' \/ db'[k] # db[k] \/ phase'[r] = "down"
    BY <2>9 DEF SetFail, GoTo, Settled, TypeOK, CallsKnow
  <2>10. CASE UNCHANGED vars
    BY <2>10 DEF vars, Settled
  <2> QED
    BY <2>1, <2>2, <2>3, <2>4, <2>5, <2>6, <2>7, <2>8, <2>9, <2>10 DEF Next
<1>2. IInv /\ [Next]_vars =>
        \A r \in Replicas, k \in Keys :
          Settled(r, k) => \/ Settled(r, k)'
                           \/ db'[k] # db[k]
                           \/ phase'[r] = "down"
  BY <1>1
<1> QED
  BY <1>2, Inductive, PTL DEF Spec, SettledStays

-----------------------------------------------------------------------------
(* Liveness.  LoadRead and LoadSwap are guards and assignments that change     *)
(* loading, so each is enabled exactly where its guard holds; the prover has   *)
(* no rule for ENABLED, and Fairness is stated here with the guards.           *)

ReadGuard(r) == phase[r] # "down" /\ r \notin loading
SwapGuard(r) == r \in loading

FairRead(r) == []<>(~ ReadGuard(r)) \/ []<><<LoadRead(r)>>_vars
FairSwap(r) == <>[](~ SwapGuard(r)) \/ []<><<LoadSwap(r)>>_vars

\* A step in which no call of Set reaches the database or a copy.
Undisturbed == \A w \in Writes : ~ Commit(w) /\ ~ Publish(w)

\* What replica r is loading is what the database holds; and so is its copy.
LoadsCurrent(r) == r \in loading => snapshot[r] = db
InStep(r) == LoadsCurrent(r) /\ (phase[r] = "serving" => cache[r] = db)

\* Without Sets, a current load stays current and a replica in step stays in
\* step: through its refreshes, those that fail, and its restarts.
LEMMA Undone ==
  ASSUME IInv, [Next]_vars, [Undisturbed]_vars, NEW r \in Replicas, LoadsCurrent(r)
  PROVE  LoadsCurrent(r)' /\ (InStep(r) => InStep(r)')
<1> USE DEF IInv, TypeOK, LoadersAreUp, LoadsCurrent, InStep, loadVars, setVars
<1>1. CASE UNCHANGED vars
  BY <1>1 DEF vars
<1>2. ASSUME NEW q \in Replicas, Boot(q)
      PROVE  LoadsCurrent(r)' /\ (InStep(r) => InStep(r)')
  BY <1>2 DEF Boot
<1>3. ASSUME NEW q \in Replicas, Crash(q)
      PROVE  LoadsCurrent(r)' /\ (InStep(r) => InStep(r)')
  BY <1>3 DEF Crash
<1>4. ASSUME NEW q \in Replicas, LoadRead(q)
      PROVE  LoadsCurrent(r)' /\ (InStep(r) => InStep(r)')
  BY <1>4 DEF LoadRead
<1>5. ASSUME NEW q \in Replicas, LoadSwap(q)
      PROVE  LoadsCurrent(r)' /\ (InStep(r) => InStep(r)')
  BY <1>5 DEF LoadSwap
<1>6. ASSUME NEW q \in Replicas, LoadFail(q)
      PROVE  LoadsCurrent(r)' /\ (InStep(r) => InStep(r)')
  BY <1>6 DEF LoadFail
<1>7. ASSUME NEW w \in Writes, NEW q \in Replicas, NEW k \in Keys, Set(w, q, k)
      PROVE  LoadsCurrent(r)' /\ (InStep(r) => InStep(r)')
  BY <1>7 DEF Set
<1>8. ASSUME NEW w \in Writes, SetFail(w)
      PROVE  LoadsCurrent(r)' /\ (InStep(r) => InStep(r)')
  BY <1>8 DEF SetFail
<1> QED
  BY <1>1, <1>2, <1>3, <1>4, <1>5, <1>6, <1>7, <1>8 DEF Next, Undisturbed

\* A replica's copy is repaired.  Once the Sets are over, its next refresh that
\* is not in flight already reads what the database holds, the next that
\* succeeds puts it in the copy, and it stays: whatever races, crashes and
\* failed refreshes came before or come later.
THEOREM ReplicaConverges ==
  ASSUME NEW r \in Replicas
  PROVE  /\ Init /\ [][Next]_vars /\ FairRead(r) /\ FairSwap(r)
         /\ <>[][Undisturbed]_vars
         => <>[](phase[r] = "serving" => cache[r] = db)
<1>1. IInv /\ LoadsCurrent(r) /\ [Next]_vars /\ [Undisturbed]_vars => LoadsCurrent(r)'
  BY Undone
<1>2. IInv /\ InStep(r) /\ [Next]_vars /\ [Undisturbed]_vars => InStep(r)'
  BY Undone DEF InStep
<1>3. IInv /\ <<LoadSwap(r)>>_vars => LoadsCurrent(r)'
  BY DEF LoadSwap, LoadsCurrent, IInv, TypeOK
<1>4. IInv /\ LoadsCurrent(r) /\ <<LoadSwap(r)>>_vars => InStep(r)'
  BY DEF LoadSwap, LoadsCurrent, InStep, IInv, TypeOK, setVars
<1>5. <<LoadRead(r)>>_vars => SwapGuard(r)'
  BY DEF LoadRead, SwapGuard
<1>6. InStep(r) => (phase[r] = "serving" => cache[r] = db)
  BY DEF InStep
<1>7. ~ ReadGuard(r) => SwapGuard(r) \/ (LoadsCurrent(r) /\ InStep(r))
  BY DEF InStep, LoadsCurrent, ReadGuard, SwapGuard
<1> QED
  BY <1>1, <1>2, <1>3, <1>4, <1>5, <1>6, <1>7, InductiveSafe, PTL DEF FairRead, FairSwap

=============================================================================
