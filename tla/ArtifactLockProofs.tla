------------------------- MODULE ArtifactLockProofs -------------------------
(***************************************************************************)
(* Proofs about ArtifactLock, for any set of processes and any bounds: the *)
(* type invariant, and that the bodies of mutations exclude each other     *)
(* until the first process dies.                                           *)
(***************************************************************************)
EXTENDS ArtifactLock, TLAPS

(* The inductive invariant.  While everybody lives nobody reclaims, and a  *)
(* process that has created a file and not yet removed it finds its own.   *)
NobodyReclaims == \A p \in Proc : lpc[p] \notin {"unlink", "recreate", "dead"}
WriterOwnsFile == \A p \in Proc : lpc[p] = "write" => lock = LockFile(p, FALSE)
HolderOwnsFile == \A p \in Proc : lpc[p] \in {"holding", "check", "drop"} => OwnToken(p)

LivingInv == /\ NobodyReclaims
             /\ WriterOwnsFile
             /\ HolderOwnsFile

IInv == TypeOK /\ (deaths = 0 => LivingInv)

-----------------------------------------------------------------------------
(* Every step of the lock protocol keeps its state well formed.            *)
LEMMA TypeStep == TypeOK /\ [Next]_lockVars => TypeOK'
<1> SUFFICES ASSUME TypeOK, [Next]_lockVars PROVE TypeOK'
  OBVIOUS
<1> USE DEF TypeOK, PCs, Goto, Free, LockFile
<1>1. ASSUME NEW p \in Proc, Start(p) PROVE TypeOK'
  BY <1>1 DEF Start
<1>2. ASSUME NEW p \in Proc, Enter(p) PROVE TypeOK'
  BY <1>2 DEF Enter
<1>3. ASSUME NEW p \in Proc, Acquire(p) PROVE TypeOK'
  <2>1. CASE CreateFile(p)
    BY <2>1 DEF CreateFile
  <2>2. CASE FileExists(p) \/ FindStale(p) \/ Reject(p)
    BY <2>2 DEF FileExists, FindStale, Reject
  <2>3. CASE UnlinkStale(p)
    BY <2>3 DEF UnlinkStale
  <2>4. CASE WriteOwner(p)
    BY <2>4 DEF WriteOwner
  <2>5. CASE WriteFails(p)
    <3>1. lpc' \in [Proc -> PCs] /\ deaths' \in Nat
      BY <2>5 DEF WriteFails
    <3>2. lock' = lock \/ lock' = [owner |-> {p}, readable |-> TRUE]
      BY <2>5 DEF WriteFails
    <3>3. [owner |-> {p}, readable |-> TRUE] \in [owner : {{q} : q \in Proc}, readable : BOOLEAN]
      OBVIOUS
    <3> QED BY <3>1, <3>2, <3>3
  <2> QED BY <1>3, <2>1, <2>2, <2>3, <2>4, <2>5 DEF Acquire
<1>4. ASSUME NEW p \in Proc, Leave(p) \/ Release(p) PROVE TypeOK'
  <2>1. CASE Leave(p) \/ CheckToken(p)
    BY <2>1 DEF Leave, CheckToken
  <2>2. CASE UnlinkOwn(p)
    BY <2>2 DEF UnlinkOwn
  <2> QED BY <1>4, <2>1, <2>2 DEF Release
<1>5. ASSUME NEW p \in Proc, Die(p) PROVE TypeOK'
  BY <1>5 DEF Die
<1>6. CASE UNCHANGED lockVars
  BY <1>6 DEF lockVars
<1> QED BY <1>1, <1>2, <1>3, <1>4, <1>5, <1>6 DEF Next, AllGone

(* The state of the lock protocol always has its type.                     *)
THEOREM TypeCorrect == Spec => []TypeOK
<1>1. Init => TypeOK
  BY DEF Init, TypeOK, PCs, Free
<1> QED BY <1>1, TypeStep, PTL DEF Spec

-----------------------------------------------------------------------------
(* Until the first death every step keeps the files and their owners       *)
(* matched: a file is only created where there is none, only its creator   *)
(* writes it, and only its creator removes it.                             *)
LEMMA LivingStep ==
    IInv /\ [Next]_lockVars /\ deaths' = 0 => LivingInv'
<1> SUFFICES ASSUME TypeOK, deaths = 0 => LivingInv, [Next]_lockVars, deaths' = 0
             PROVE LivingInv'
  BY DEF IInv
<1>0. deaths = 0 /\ LivingInv
  <2>1. ASSUME NEW p \in Proc, Die(p) PROVE FALSE
    BY <2>1 DEF Die, TypeOK
  <2> QED BY <2>1 DEF Next, AllGone, lockVars, Start, Enter, Acquire, CreateFile,
             FileExists, FindStale, UnlinkStale, Reject, WriteOwner, WriteFails,
             Leave, Release, CheckToken, UnlinkOwn
<1> USE <1>0 DEF LivingInv, NobodyReclaims, WriterOwnsFile,
             HolderOwnsFile, TypeOK, Goto, Free, LockFile, OwnToken
<1>1. ASSUME NEW p \in Proc, Start(p) \/ Enter(p) PROVE LivingInv'
  BY <1>1 DEF Start, Enter
<1>2. ASSUME NEW p \in Proc, Acquire(p) PROVE LivingInv'
  <2>1. CASE CreateFile(p)
    BY <2>1 DEF CreateFile
  <2>2. CASE FileExists(p) \/ Reject(p)
    BY <2>2 DEF FileExists, Reject
  <2>3. CASE FindStale(p)
    BY <2>3 DEF FindStale, Stale
  <2>4. CASE UnlinkStale(p)
    BY <2>4 DEF UnlinkStale
  <2>5. CASE WriteOwner(p)
    <3>1. lpc[p] = "write" /\ lpc' = [lpc EXCEPT ![p] = "holding"]
      BY <2>5 DEF WriteOwner
    <3>2. lock = LockFile(p, FALSE) /\ lock' = LockFile(p, TRUE)
      BY <2>5, <3>1 DEF WriteOwner
    <3>3. \A q \in Proc \ {p} : lpc[q] \notin {"write", "holding", "check", "drop"}
      BY <3>2
    <3> QED BY <3>1, <3>2, <3>3
  <2>6. CASE WriteFails(p)
    BY <2>6 DEF WriteFails
  <2> QED BY <1>2, <2>1, <2>2, <2>3, <2>4, <2>5, <2>6 DEF Acquire
<1>3. ASSUME NEW p \in Proc, Leave(p) PROVE LivingInv'
  BY <1>3 DEF Leave
<1>4. ASSUME NEW p \in Proc, Release(p) PROVE LivingInv'
  <2>1. CASE CheckToken(p)
    BY <2>1 DEF CheckToken
  <2>2. CASE UnlinkOwn(p)
    BY <2>2 DEF UnlinkOwn
  <2> QED BY <1>4, <2>1, <2>2 DEF Release
<1>5. ASSUME NEW p \in Proc, Die(p) PROVE LivingInv'
  BY <1>5 DEF Die
<1>6. CASE UNCHANGED lockVars
  BY <1>6 DEF lockVars
<1> QED BY <1>1, <1>2, <1>3, <1>4, <1>5, <1>6 DEF Next, AllGone

LEMMA InvariantHolds == Spec => []IInv
<1>1. Init => IInv
  BY DEF Init, IInv, LivingInv, NobodyReclaims, WriterOwnsFile,
         HolderOwnsFile, TypeOK, PCs, Free
<1>2. IInv /\ [Next]_lockVars => IInv'
  BY TypeStep, LivingStep DEF IInv
<1> QED BY <1>1, <1>2, PTL DEF Spec

(* Whoever is in the body of a mutation finds its own lock file, until the *)
(* first process dies.                                                     *)
THEOREM OwnFile == Spec => []OwnFileUntilDeath
<1>1. IInv => OwnFileUntilDeath
  BY DEF IInv, LivingInv, HolderOwnsFile, OwnFileUntilDeath
<1> QED BY <1>1, InvariantHolds, PTL

(* Two mutations are never in their bodies together, until the first       *)
(* process dies: the lock file on disk cannot name both.                   *)
THEOREM Exclusive == Spec => []ExclusiveUntilDeath
<1>1. IInv => ExclusiveUntilDeath
  BY DEF IInv, LivingInv, HolderOwnsFile, ExclusiveUntilDeath, MutualExclusion,
         InBody, OwnToken, LockFile
<1> QED BY <1>1, InvariantHolds, PTL

-----------------------------------------------------------------------------
(* Processes that live one after the other: a process starts when nobody   *)
(* lives.                                                                  *)
OneAtATime == ~Concurrent => \A p, q \in Proc : Alive(p) /\ Alive(q) => p = q

LEMMA OneAtATimeStep == TypeOK /\ OneAtATime /\ [Next]_lockVars => OneAtATime'
<1> SUFFICES ASSUME TypeOK, OneAtATime, [Next]_lockVars PROVE OneAtATime'
  OBVIOUS
<1>0. lpc \in [Proc -> PCs]
  BY DEF TypeOK
<1>1. ASSUME NEW p \in Proc, Start(p) PROVE OneAtATime'
  BY <1>0, <1>1 DEF Start, Goto, OneAtATime, Alive
<1>2. ASSUME NEW p \in Proc, Alive(p), \A q \in Proc \ {p} : lpc'[q] = lpc[q]
      PROVE  OneAtATime'
  BY <1>2 DEF OneAtATime, Alive
<1>3. ASSUME NEW p \in Proc, Enter(p) \/ Acquire(p) \/ Leave(p) \/ Release(p) \/ Die(p)
      PROVE  Alive(p) /\ \A q \in Proc \ {p} : lpc'[q] = lpc[q]
  BY <1>0, <1>3 DEF Enter, Acquire, CreateFile, FileExists, FindStale, UnlinkStale, Reject,
     WriteOwner, WriteFails, Leave, Release, CheckToken, UnlinkOwn, Die, Goto, Alive
<1>4. CASE AllGone \/ UNCHANGED lockVars
  BY <1>4 DEF AllGone, lockVars, OneAtATime, Alive
<1> QED BY <1>1, <1>2, <1>3, <1>4 DEF Next

(* When processes live one after the other, no two mutations are ever in   *)
(* their bodies together, whatever files the dead have left behind.        *)
THEOREM Sequential == Spec => [](~Concurrent => MutualExclusion)
<1>1. Init => OneAtATime
  BY DEF Init, OneAtATime, Alive
<1>2. OneAtATime => (~Concurrent => MutualExclusion)
  BY DEF OneAtATime, MutualExclusion, InBody, Alive
<1> QED BY <1>1, <1>2, OneAtATimeStep, InvariantHolds, PTL DEF IInv, Spec

(* Nobody comes back from the dead.                                        *)
LEMMA DeathsGrow ==
    TypeOK /\ [Next]_lockVars => deaths' \in {deaths} \cup (deaths + 1) .. MaxDeaths
<1> SUFFICES ASSUME TypeOK, [Next]_lockVars
             PROVE deaths' \in {deaths} \cup (deaths + 1) .. MaxDeaths
  OBVIOUS
<1>1. ASSUME NEW p \in Proc, Die(p) PROVE deaths' \in (deaths + 1) .. MaxDeaths
  BY <1>1, LockConstants DEF Die, TypeOK
<1> QED BY <1>1 DEF Next, AllGone, lockVars, Start, Enter, Acquire, CreateFile,
           FileExists, FindStale, UnlinkStale, Reject, WriteOwner, WriteFails,
           Leave, Release, CheckToken, UnlinkOwn
=============================================================================
