------------------------------ MODULE OpeningSafety ------------------------------
(* Ownership of the store, proved for every number of processes and migrations. *)
EXTENDS Opening, TLAPS

OpeningTypeOK ==
    /\ pc \in [Processes -> Places]
    /\ step \in [Processes -> 1..(Last + 1)]
    /\ lock \in Processes \cup {NoProcess}
    /\ engine \in Processes \cup {NoProcess}
    /\ dropped \in BOOLEAN
    /\ ledger \in [Migrations -> {"none", "STARTED", "APPLIED"}]
    /\ ran \in [Migrations -> {"no", "part", "all"}]
    /\ created \in BOOLEAN
    /\ crashes \in Nat

\* Between acquire_lock and the end a process holds the lock; from open_with on it
\* has the engine too.
HoldsLock == \A p \in Processes : pc[p] # "closed" => lock = p
HoldsEngine == \A p \in Processes : pc[p] \notin {"closed", "locked"} => engine = p /\ ~dropped

\* The ledger tells the truth, and the process at migration m has seen or brought
\* about that every one below it is applied.
LedgerTruthful == \A m \in Migrations : ledger[m] = "APPLIED" => ran[m] = "all"
Passed ==
    \A p \in Processes : pc[p] \notin {"closed", "locked"} =>
        \A m \in Migrations : m < step[p] => ledger[m] = "APPLIED"
InHand ==
    \A p \in Processes :
        /\ pc[p] \in {"started", "applied"} => step[p] \in Migrations
        /\ pc[p] = "started" => ledger[step[p]] = "STARTED"
        /\ pc[p] = "applied" => ran[step[p]] = "all"
        /\ pc[p] \in {"migrated", "open"} => step[p] = Last + 1
        /\ pc[p] = "open" => created

OpeningInv ==
    OpeningTypeOK /\ HoldsLock /\ HoldsEngine /\ LedgerTruthful /\ Passed /\ InHand

--------------------------------------------------------------------------------

\* The invariant holds of a new directory and of one a session has closed.
LEMMA OpeningBase == OpeningInit => OpeningInv
<1> SUFFICES ASSUME OpeningInit PROVE OpeningInv
    OBVIOUS
<1>1. 1 \in 1..(Last + 1)
    BY OpeningAssumption
<1>2. PICK had \in 0..Last :
        /\ ledger = [m \in Migrations |-> IF m <= had THEN "APPLIED" ELSE "none"]
        /\ ran = [m \in Migrations |-> IF m <= had THEN "all" ELSE "no"]
        /\ created = (had > 0)
    BY DEF OpeningInit
<1>3. /\ ledger \in [Migrations -> {"none", "STARTED", "APPLIED"}]
      /\ ran \in [Migrations -> {"no", "part", "all"}]
      /\ created \in BOOLEAN
    BY <1>2
<1>4. OpeningTypeOK
    BY <1>1, <1>3 DEF OpeningInit, OpeningTypeOK, Places
<1>5. HoldsLock /\ HoldsEngine /\ Passed /\ InHand
    BY DEF OpeningInit, HoldsLock, HoldsEngine, Passed, InHand
<1>6. LedgerTruthful
    BY <1>2 DEF LedgerTruthful
<1>7. QED
    BY <1>4, <1>5, <1>6 DEF OpeningInv

\* Every step of opening, closing and dying keeps it.
LEMMA OpeningStep == OpeningInv /\ [OpeningNext]_openingVars => OpeningInv'
<1> USE OpeningAssumption
<1> SUFFICES ASSUME OpeningInv, [OpeningNext]_openingVars PROVE OpeningInv'
    OBVIOUS
<1> USE DEF OpeningInv, OpeningTypeOK, Places, Migrations
<1>1. CASE UNCHANGED openingVars
    BY <1>1 DEF openingVars, HoldsLock, HoldsEngine, LedgerTruthful, Passed, InHand
<1>2. CASE EngineReleased
    BY <1>2 DEF EngineReleased, HoldsLock, HoldsEngine, LedgerTruthful, Passed, InHand
<1>3. ASSUME NEW p \in Processes, Opens(p) PROVE OpeningInv'
  <2>1. CASE AcquireLock(p)
      BY <2>1 DEF AcquireLock, Unlocked, Goto, HoldsLock, HoldsEngine, LedgerTruthful, Passed, InHand
  <2>2. CASE OpenEngine(p)
    <3>a. 1 \in 1..(Last + 1)
        OBVIOUS
    <3>b. \A q \in Processes : q # p => pc[q] = "closed"
        BY <2>2 DEF OpenEngine, HoldsLock
    <3>1. OpeningTypeOK'
        BY <2>2, <3>a DEF OpenEngine, Goto
    <3>2. HoldsLock' /\ HoldsEngine'
        BY <2>2, <3>b DEF OpenEngine, Goto, HoldsLock, HoldsEngine
    <3>3. Passed' /\ InHand'
        BY <2>2, <3>b DEF OpenEngine, Goto, Passed, InHand
    <3>4. QED
        BY <2>2, <3>1, <3>2, <3>3 DEF OpenEngine, LedgerTruthful
  <2>3. CASE GiveUp(p)
      BY <2>3, ZenonT(60) DEF GiveUp, Leave, Goto, HoldsLock, HoldsEngine, LedgerTruthful, Passed, InHand
  <2>4. CASE SkipApplied(p)
      BY <2>4 DEF SkipApplied, Done, HoldsLock, HoldsEngine, LedgerTruthful, Passed, InHand
  <2>5. CASE RefuseInterrupted(p)
      BY <2>5, ZenonT(60) DEF RefuseInterrupted, Leave, Goto, HoldsLock, HoldsEngine, LedgerTruthful, Passed,
                  InHand
  <2>6. CASE StartMigration(p)
      BY <2>6 DEF StartMigration, Goto, HoldsLock, HoldsEngine, LedgerTruthful, Passed, InHand
  <2>7. CASE RunDdl(p)
      BY <2>7 DEF RunDdl, Goto, HoldsLock, HoldsEngine, LedgerTruthful, Passed, InHand
  <2>8. CASE BreakOff(p)
    <3>a. \A q \in Processes : q # p => pc[q] = "closed"
        BY <2>8 DEF BreakOff, HoldsLock
    <3>b. crashes' \in Nat
        BY <2>8 DEF BreakOff
    <3>c. dropped' \in BOOLEAN
        BY <2>8 DEF BreakOff, Leave
    <3>d. pc' \in [Processes -> Places] /\ ran' \in [Migrations -> {"no", "part", "all"}]
        BY <2>8 DEF BreakOff, Leave, Goto
    <3>1. OpeningTypeOK'
        BY <2>8, <3>b, <3>c, <3>d DEF BreakOff, Leave
    <3>2. HoldsLock' /\ HoldsEngine' /\ Passed' /\ InHand'
        BY <2>8, <3>a DEF BreakOff, Leave, Goto, HoldsLock, HoldsEngine, Passed, InHand
    <3>3. LedgerTruthful'
        BY <2>8 DEF BreakOff, LedgerTruthful, InHand
    <3>4. QED
        BY <3>1, <3>2, <3>3
  <2>9. CASE FinishMigration(p)
      BY <2>9 DEF FinishMigration, Goto, HoldsLock, HoldsEngine, LedgerTruthful, Passed, InHand
  <2>10. CASE WriteManifest(p)
      BY <2>10 DEF WriteManifest, Goto, HoldsLock, HoldsEngine, LedgerTruthful, Passed, InHand
  <2>11. CASE EnsureRepository(p)
      BY <2>11 DEF EnsureRepository, Goto, HoldsLock, HoldsEngine, LedgerTruthful, Passed, InHand
  <2>12. QED
      BY <1>3, <2>1, <2>2, <2>3, <2>4, <2>5, <2>6, <2>7, <2>8, <2>9, <2>10, <2>11 DEF Opens
<1>4. ASSUME NEW p \in Processes, Close(p) PROVE OpeningInv'
    BY <1>4, ZenonT(60) DEF Close, Leave, Goto, HoldsLock, HoldsEngine, LedgerTruthful, Passed, InHand
<1>5. ASSUME NEW p \in Processes, Crash(p) PROVE OpeningInv'
  <2>a. \A q \in Processes : q # p => pc[q] = "closed"
      BY <1>5 DEF Crash, HoldsLock
  <2>b. crashes' \in Nat
      BY <1>5 DEF Crash
  <2>c. dropped' \in BOOLEAN
      BY <1>5 DEF Crash
  <2>d. pc' \in [Processes -> Places]
      BY <1>5 DEF Crash, Goto
  <2>1. OpeningTypeOK'
      BY <1>5, <2>b, <2>c, <2>d DEF Crash
  <2>2. HoldsLock' /\ HoldsEngine' /\ Passed' /\ InHand'
      BY <1>5, <2>a DEF Crash, Goto, HoldsLock, HoldsEngine, Passed, InHand
  <2>3. QED
      BY <1>5, <2>1, <2>2 DEF Crash, LedgerTruthful
<1>6. QED
    BY <1>1, <1>2, <1>3, <1>4, <1>5 DEF OpeningNext

\* It says more than the property.
LEMMA OpeningEnough == OpeningInv => OwnedAndMigrated
BY OpeningAssumption
   DEF OpeningInv, OpeningTypeOK, HoldsLock, HoldsEngine, LedgerTruthful, Passed, InHand,
       OwnedAndMigrated, Places, Migrations

\* However many processes race to open the store, are killed while they migrate it
\* or close it, the one that uses it is alone and sees a complete schema.
THEOREM StoreOwnership == OpeningSpec => []OwnedAndMigrated
BY OpeningBase, OpeningStep, OpeningEnough, PTL DEF OpeningSpec
================================================================================
