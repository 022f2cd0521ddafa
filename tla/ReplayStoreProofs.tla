-------------------------- MODULE ReplayStoreProofs --------------------------
(***************************************************************************)
(* Proofs about ReplayStore, for any sets of processes, profiles, points   *)
(* and payloads and any bounds.                                            *)
(***************************************************************************)
EXTENDS ReplayStore, TLAPS

LP == INSTANCE ArtifactLockProofs

-----------------------------------------------------------------------------
(* Every step of the store takes a step of the lock, or none.              *)
LEMMA LockStep == [Next]_storeVars => [L!Next]_lockVars
<1> SUFFICES ASSUME [Next]_storeVars PROVE [L!Next]_lockVars
  OBVIOUS
<1>1. ASSUME NEW p \in Proc, Start(p) \/ Acquire(p) \/ Leave(p) \/ Release(p) \/ Die(p)
      PROVE L!Next
  BY <1>1 DEF Start, Acquire, Leave, Release, Die, L!Next
<1>2. ASSUME NEW p \in Proc, CallCreate(p) \/ CallOpen(p) \/ CallMutation(p) PROVE L!Next
  BY <1>2 DEF CallCreate, CallOpen, CallMutation, Mutate, Call, L!Next
<1>3. ASSUME NEW p \in Proc, Return(p) \/ Recover(p) \/ Body(p) \/ Raise(p)
      PROVE UNCHANGED lockVars
  BY <1>3 DEF Return, Recover, Load, RecoverPending, RecoverScan, SweepTemp, SweepFinal,
     SweepTears, RecoverDone, Body, CreateBody, RegisterBase, RegisterIndex, WriteEntry,
     AnnotateBody, CoordinatesBody, AlreadyThere, CacheStage, CachePrepare, CacheJournal,
     CachePublish, CacheIndex, Raise
<1>4. CASE AllGone \/ UNCHANGED storeVars
  BY <1>4 DEF AllGone, storeVars
<1> QED BY <1>1, <1>2, <1>3, <1>4 DEF Next, Step

(* The lock as this module instantiates it is the lock that was proved     *)
(* about, state by state and step by step.                                 *)
LEMMA SameLock == [L!Next]_lockVars => [LP!Next]_LP!lockVars
<1> USE DEF L!Goto, LP!Goto, L!Free, LP!Free, L!LockFile, LP!LockFile
<1>1. ASSUME NEW p \in Proc, L!Acquire(p) PROVE LP!Acquire(p)
  BY <1>1 DEF L!Acquire, L!CreateFile, L!FileExists, L!Stale, L!FindStale, L!UnlinkStale,
     L!Reject, L!WriteOwner, L!WriteFails,
     LP!Acquire, LP!CreateFile, LP!FileExists, LP!Stale, LP!FindStale, LP!UnlinkStale,
     LP!Reject, LP!WriteOwner, LP!WriteFails
<1>2. ASSUME NEW p \in Proc, L!Start(p) PROVE LP!Start(p)
  BY <1>2 DEF L!Start, LP!Start, L!Alive, LP!Alive
<1>3. ASSUME NEW p \in Proc, L!Enter(p) \/ L!Leave(p) \/ L!Die(p)
      PROVE LP!Enter(p) \/ LP!Leave(p) \/ LP!Die(p)
  BY <1>3 DEF L!Enter, L!Leave, L!Die, LP!Enter, LP!Leave, LP!Die, L!Alive, LP!Alive
<1>4. ASSUME NEW p \in Proc, L!Release(p) PROVE LP!Release(p)
  BY <1>4 DEF L!Release, L!CheckToken, L!UnlinkOwn, L!OwnToken,
     LP!Release, LP!CheckToken, LP!UnlinkOwn, LP!OwnToken
<1> QED BY <1>1, <1>2, <1>3, <1>4 DEF L!Next, LP!Next, L!AllGone, LP!AllGone, lockVars,
     L!lockVars, LP!lockVars

LockInv == LP!IInv /\ LP!OneAtATime

(* What the proofs about the lock establish, carried over to the store.    *)
LEMMA LockInvStep ==
    LockInv /\ [Next]_storeVars =>
        LockInv' /\ deaths' \in {deaths} \cup (deaths + 1) .. MaxDeaths
<1>1. LockInv => LP!TypeOK
  BY DEF LockInv, LP!IInv
<1>2. LP!IInv /\ [LP!Next]_LP!lockVars => (LP!IInv)'
  BY StoreConstants, LP!TypeStep, LP!LivingStep DEF LP!IInv
<1> QED BY <1>1, <1>2, LockStep, SameLock, LP!OneAtATimeStep, LP!DeathsGrow, StoreConstants
        DEF LockInv

LEMMA LockInvInit == L!Init => LockInv /\ deaths = 0
BY DEF L!Init, L!Free, LockInv, LP!IInv, LP!LivingInv, LP!NobodyReclaims, LP!WriterOwnsFile,
   LP!HolderOwnsFile, LP!TypeOK, LP!PCs, LP!Free, LP!OneAtATime, LP!Alive

LEMMA LockTypes == LockInv => L!TypeOK
BY DEF LockInv, LP!IInv, L!TypeOK, LP!TypeOK, L!PCs, LP!PCs, L!Free, LP!Free

-----------------------------------------------------------------------------
(* Contents are closed under Merge, and single entries are contents.       *)
LEMMA MergeType == ASSUME NEW c \in Content, NEW d \in Content
                   PROVE  Merge(c, d) \in Content
BY DEF Merge, Content

LEMMA EntryType ==
    /\ Nothing \in Content
    /\ \A f \in Profile : ProfileEntry(f) \in Content
    /\ \A b \in Boundary : BoundaryEntry(b) \in Content
    /\ \A n \in Annotation : AnnotationEntry(n) \in Content
    /\ \A c \in Coordinates : CoordinatesEntry(c) \in Content
BY DEF Nothing, Content, ProfileEntry, BoundaryEntry, AnnotationEntry, CoordinatesEntry

(* What TypeOK says of the store's own variables.                          *)
StoreType ==
    /\ man \in Manifest \cup {NoManifest}
    /\ base \in [Profile -> DirState]
    /\ final \in [Boundary -> DirState]
    /\ temp \in [Temp -> DirState]
    /\ mem \in [Proc -> Manifest \cup {NoManifest}]
    /\ op \in [Proc -> [kind : Kinds, entry : Content]]
    /\ stage \in [Proc -> Stages]
    /\ unvisited \in [Proc -> [temps : SUBSET Temp, finals : SUBSET Boundary]]
    /\ changed \in [Proc -> BOOLEAN]
    /\ acked \in Content

(* A call works on a manifest, and it is only create() that can find       *)
(* replay.json missing.                                                    *)
HandleOf(p) ==
    /\ Busy(p) => mem[p] \in Manifest
    /\ ~Busy(p) => op[p].kind = "none"
    /\ stage[p] \in {"recover", "sweep"} => op[p].kind # "create"
    /\ mem[p] # NoManifest =>
          man # NoManifest \/ (op[p].kind = "create" /\ stage[p] # "done")

HandleInv == \A p \in Proc : HandleOf(p)

TInv == StoreType /\ HandleInv

(* Every step keeps the store well formed.                                 *)
LEMMA CallType == ASSUME StoreType, NEW p \in Proc,
                         CallCreate(p) \/ CallOpen(p) \/ CallMutation(p)
                  PROVE  StoreType'
<1>1. PICK kind \in Kinds, entry \in Content, handle \in Manifest \cup {NoManifest} :
         Call(p, kind, entry, handle)
  <2>1. CASE CallCreate(p)
    BY <2>1, EntryType DEF CallCreate, Fresh, Manifest, Kinds
  <2>2. CASE CallOpen(p)
    BY <2>2, EntryType DEF CallOpen, StoreType, Kinds
  <2>3. CASE CallMutation(p)
    BY <2>3, EntryType DEF CallMutation, Mutate, StoreType, Kinds
  <2> QED BY <2>1, <2>2, <2>3
<1> QED BY <1>1 DEF Call, StoreType, Stages, diskVars

LEMMA ReturnType == ASSUME StoreType, NEW p \in Proc, Return(p) PROVE StoreType'
<1>1. acked' \in Content
  BY MergeType DEF Return, StoreType
<1>2. mem' \in [Proc -> Manifest \cup {NoManifest}]
  BY DEF Return, StoreType
<1> QED BY <1>1, <1>2, EntryType DEF Return, StoreType, Stages, Kinds, NoOp, diskVars

LEMMA RecoverType == ASSUME TInv, NEW p \in Proc, Recover(p) PROVE StoreType'
<1>0. StoreType /\ HandleInv
  BY DEF TInv
<1> USE <1>0 DEF StoreType, Stages, diskVars
<1>1. CASE Load(p)
  <2>1. mem' \in [Proc -> Manifest \cup {NoManifest}]
    BY <1>1 DEF Load
  <2> QED BY <1>1, <2>1 DEF Load, Goto
<1>2. CASE RecoverPending(p)
  <2>1. mem[p] \in Manifest
    BY <1>2 DEF RecoverPending, At, HandleInv, HandleOf, Busy
  <2>2. PICK t \in mem[p].pending :
          /\ mem' = [mem EXCEPT ![p] =
                [content |-> IF HasStateJson(final'[t[1]])
                             THEN Merge(@.content, BoundaryEntry(t[1])) ELSE @.content,
                 pending |-> @.pending \ {t}]]
          /\ final' \in {final, [final EXCEPT ![t[1]] = temp[t]]}
          /\ temp' \in {temp, [temp EXCEPT ![t] = "none"]}
    BY <1>2 DEF RecoverPending
  <2>3. t \in Temp /\ t[1] \in Boundary
    BY <2>1 DEF Manifest, Temp
  <2>4. mem' \in [Proc -> Manifest \cup {NoManifest}]
    <3> DEFINE c == IF HasStateJson(final'[t[1]])
                    THEN Merge(mem[p].content, BoundaryEntry(t[1])) ELSE mem[p].content
    <3>1. c \in Content
      BY <2>1, <2>3, MergeType, EntryType DEF Manifest
    <3>2. [content |-> c, pending |-> mem[p].pending \ {t}] \in Manifest
      BY <3>1, <2>1 DEF Manifest
    <3> QED BY <2>2, <3>2
  <2>5. final' \in [Boundary -> DirState] /\ temp' \in [Temp -> DirState]
    <3>1. temp[t] \in DirState /\ "none" \in DirState
      BY <2>3 DEF DirState
    <3>2. [final EXCEPT ![t[1]] = temp[t]] \in [Boundary -> DirState]
      BY <3>1
    <3>3. [temp EXCEPT ![t] = "none"] \in [Temp -> DirState]
      BY <3>1
    <3> QED BY <2>2, <3>2, <3>3
  <2>6. changed' \in [Proc -> BOOLEAN] /\ UNCHANGED <<man, base, op, stage, unvisited, acked>>
    BY <1>2 DEF RecoverPending
  <2> QED BY <2>4, <2>5, <2>6
<1>3. CASE RecoverScan(p)
  BY <1>3 DEF RecoverScan, Goto
<1>4. CASE SweepTemp(p)
  <2>1. temp' \in [Temp -> DirState]
    <3>1. "none" \in DirState
      BY DEF DirState
    <3> QED BY <1>4, <3>1 DEF SweepTemp
  <2>2. unvisited' \in [Proc -> [temps : SUBSET Temp, finals : SUBSET Boundary]]
    BY <1>4 DEF SweepTemp
  <2>3. changed' \in [Proc -> BOOLEAN] /\ UNCHANGED <<man, base, final, mem, op, stage, acked>>
    BY <1>4 DEF SweepTemp
  <2> QED BY <2>1, <2>2, <2>3
<1>5. CASE SweepFinal(p)
  <2>1. final' \in [Boundary -> DirState]
    <3>1. "none" \in DirState
      BY DEF DirState
    <3> QED BY <1>5, <3>1 DEF SweepFinal
  <2>2. unvisited' \in [Proc -> [temps : SUBSET Temp, finals : SUBSET Boundary]]
    BY <1>5 DEF SweepFinal
  <2>3. changed' \in [Proc -> BOOLEAN]
    BY <1>5 DEF SweepFinal
  <2>4. UNCHANGED <<man, base, temp, mem, op, stage, acked>>
    BY <1>5 DEF SweepFinal
  <2> QED BY <2>1, <2>2, <2>3, <2>4
<1>6. CASE SweepTears(p)
  <2>1. temp' \in [Temp -> DirState] /\ final' \in [Boundary -> DirState]
    BY ZenonT(40), <1>6 DEF SweepTears, DirState
  <2>2. UNCHANGED <<man, base, mem, op, stage, unvisited, changed, acked>>
    BY <1>6 DEF SweepTears, callVars
  <2> QED BY <2>1, <2>2
<1>7. CASE RecoverDone(p)
  BY <1>7 DEF RecoverDone, Goto, At, HandleInv, HandleOf, Busy
<1> QED BY <1>1, <1>2, <1>3, <1>4, <1>5, <1>6, <1>7 DEF Recover

(* A step of a body either writes the manifest or leaves it as it is.      *)
LEMMA BodyWrites ==
    ASSUME TInv, NEW p \in Proc, Body(p)
    PROVE  \/ UNCHANGED <<man, mem>> /\ ~CreateBody(p)
           \/ \E m \in Manifest : mem' = [mem EXCEPT ![p] = m] /\ man' = m
<1>0. StoreType /\ HandleInv
  BY DEF TInv
<1>a. mem[p] \in Manifest /\ op[p].entry \in Content
  BY <1>0 DEF HandleInv, HandleOf, StoreType, Busy, Body, CreateBody, RegisterBase,
     RegisterIndex, AnnotateBody, CoordinatesBody, AlreadyThere, CacheStage, CachePrepare,
     CacheJournal, CachePublish, CacheIndex, At
<1>b. ASSUME NEW c \in Content, NEW d \in SUBSET Temp
      PROVE  [content |-> c, pending |-> d] \in Manifest
  BY DEF Manifest
<1>c. /\ mem[p].content \in Content /\ mem[p].pending \in SUBSET Temp
      /\ Merge(mem[p].content, op[p].entry) \in Content
  BY <1>a, MergeType DEF Manifest
<1>1. CASE CreateBody(p)
  BY <1>1, <1>a DEF CreateBody, Write
<1>2. CASE RegisterIndex(p) \/ AnnotateBody(p) \/ CoordinatesBody(p)
  <2>1. WriteEntry(p)
    BY <1>2 DEF RegisterIndex, AnnotateBody, CoordinatesBody
  <2>2. [content |-> Merge(mem[p].content, op[p].entry), pending |-> mem[p].pending]
        \in Manifest
    BY <1>b, <1>c
  <2> QED BY <2>1, <2>2 DEF WriteEntry, Write
<1>3. CASE CacheJournal(p)
  <2>1. PICK b \in op[p].entry.boundaries :
          Write(p, [content |-> mem[p].content, pending |-> mem[p].pending \cup {<<b, p>>}])
    BY <1>3 DEF CacheJournal
  <2>2. mem[p].pending \cup {<<b, p>>} \in SUBSET Temp
    BY <1>a, <1>c DEF Temp, Content
  <2>3. [content |-> mem[p].content, pending |-> mem[p].pending \cup {<<b, p>>}] \in Manifest
    BY <2>2, <1>b, <1>c
  <2> QED BY <2>1, <2>3 DEF Write
<1>4. CASE CacheIndex(p)
  <2> DEFINE left == {t \in mem[p].pending : t[1] \notin op[p].entry.boundaries}
  <2>1. left \in SUBSET Temp
    BY <1>c
  <2>2. [content |-> Merge(mem[p].content, op[p].entry), pending |-> left] \in Manifest
    BY <1>b, <1>c, <2>1
  <2> QED BY <1>4, <2>2 DEF CacheIndex, Write
<1>5. CASE RegisterBase(p) \/ AlreadyThere(p) \/ CacheStage(p) \/ CachePrepare(p)
           \/ CachePublish(p)
  <2>1. UNCHANGED <<man, mem>> /\ stage'[p] \in {"basing", "based", "done", "staged",
                                                "prepared", "published"}
    BY <1>0, <1>5 DEF RegisterBase, AlreadyThere, CacheStage, CachePrepare, CachePublish,
       diskVars, Goto, StoreType
  <2> QED BY <1>1, <2>1
<1> QED BY <1>1, <1>2, <1>3, <1>4, <1>5 DEF Body

LEMMA BodyType == ASSUME TInv, NEW p \in Proc, Body(p) PROVE StoreType'
<1>0. StoreType /\ HandleInv
  BY DEF TInv
<1>w. man' \in Manifest \cup {NoManifest} /\ mem' \in [Proc -> Manifest \cup {NoManifest}]
  BY <1>0, BodyWrites DEF StoreType
<1>s. stage' \in [Proc -> Stages] /\ UNCHANGED <<op, unvisited, changed, acked>>
  BY <1>0 DEF StoreType, Stages, Body, CreateBody, RegisterBase, RegisterIndex, WriteEntry,
     AnnotateBody, CoordinatesBody, AlreadyThere, CacheStage, CachePrepare, CacheJournal,
     CachePublish, CacheIndex, Goto
<1>d. DirState = {"none", "partial", "torn", "whole"}
  BY DEF DirState
<1>b. ASSUME NEW b \in op[p].entry.boundaries
      PROVE  b \in Boundary /\ <<b, p>> \in Temp
  BY <1>0 DEF StoreType, Content, Temp
<1>1. base' \in [Profile -> DirState]
  BY <1>0, <1>d DEF StoreType, Body, CreateBody, RegisterBase, RegisterIndex, WriteEntry,
     AnnotateBody, CoordinatesBody, AlreadyThere, CacheStage, CachePrepare, CacheJournal,
     CachePublish, CacheIndex, diskVars
<1>2. final' \in [Boundary -> DirState] /\ temp' \in [Temp -> DirState]
  <2> USE <1>0, <1>d DEF StoreType
  <2>1. CASE CacheStage(p)
    BY <2>1, <1>b DEF CacheStage
  <2>2. CASE CachePrepare(p)
    BY <2>2, <1>b DEF CachePrepare
  <2>3. CASE CachePublish(p)
    <3>1. PICK b \in op[p].entry.boundaries :
            /\ final' = [final EXCEPT ![b] = temp[<<b, p>>]]
            /\ temp' = [temp EXCEPT ![<<b, p>>] = "none"]
      BY <2>3 DEF CachePublish
    <3>2. temp[<<b, p>>] \in DirState
      BY <1>b
    <3> QED BY <1>b, <3>1, <3>2
  <2>4. CASE ~CacheStage(p) /\ ~CachePrepare(p) /\ ~CachePublish(p)
    BY <2>4 DEF Body, CreateBody, RegisterBase, RegisterIndex, WriteEntry,
       AnnotateBody, CoordinatesBody, AlreadyThere, CacheJournal, CacheIndex, diskVars
  <2> QED BY <2>1, <2>2, <2>3, <2>4
<1> QED BY <1>0, <1>w, <1>s, <1>1, <1>2 DEF StoreType

LEMMA StoreTypeStep == TInv /\ [Next]_storeVars => StoreType'
<1> SUFFICES ASSUME TInv, [Next]_storeVars PROVE StoreType'
  OBVIOUS
<1>0. StoreType
  BY DEF TInv
<1>1. ASSUME NEW p \in Proc, Start(p) \/ Acquire(p) \/ Leave(p) \/ Release(p) PROVE StoreType'
  BY <1>0, <1>1 DEF Start, Acquire, Leave, Release, UnchangedStore, StoreType, diskVars, callVars
<1>2. ASSUME NEW p \in Proc, Raise(p) PROVE StoreType'
  <2>1. temp' \in [Temp -> DirState]
    BY <1>0, <1>2 DEF Raise, StoreType, DirState
  <2> QED BY <1>0, <1>2, <2>1 DEF Raise, StoreType, Goto, Stages, NoChildren
<1>3. ASSUME NEW p \in Proc, Die(p) PROVE StoreType'
  BY <1>0, <1>3, EntryType DEF Die, StoreType, diskVars, NoOp, Kinds, Stages, NoChildren
<1>4. CASE AllGone \/ UNCHANGED storeVars
  BY <1>0, <1>4 DEF AllGone, storeVars, diskVars, callVars, StoreType
<1> QED BY <1>0, <1>1, <1>2, <1>3, <1>4, CallType, ReturnType, RecoverType, BodyType
        DEF Next, Step

(* A step of p leaves the calls of the other processes alone and does not  *)
(* take replay.json away.                                                  *)
OthersKeep(p) ==
    /\ \A q \in Proc \ {p} : mem'[q] = mem[q] /\ op'[q] = op[q] /\ stage'[q] = stage[q]
    /\ man # NoManifest => man' # NoManifest

LEMMA HandleFrame == ASSUME NEW p \in Proc, HandleInv, OthersKeep(p), HandleOf(p)'
                     PROVE  HandleInv'
<1>1. ASSUME NEW q \in Proc \ {p} PROVE HandleOf(q)'
  BY <1>1 DEF HandleInv, HandleOf, OthersKeep, Busy
<1> QED BY <1>1 DEF HandleInv

LEMMA RecoverHandle == ASSUME TInv, StoreType', NEW p \in Proc, Recover(p) PROVE HandleInv'
<1>0. StoreType /\ HandleInv /\ HandleOf(p)
  BY DEF TInv, HandleInv
<1>m. NoManifest \notin Manifest
  BY StoreConstants
<1>t. /\ mem \in [Proc -> Manifest \cup {NoManifest}]
      /\ op \in [Proc -> [kind : Kinds, entry : Content]]
      /\ stage \in [Proc -> Stages]
      /\ man \in Manifest \cup {NoManifest}
      /\ mem'[p] \in Manifest \cup {NoManifest}
  BY <1>0 DEF StoreType
<1> USE <1>t
<1>1. CASE Load(p)
  <2>1. man # NoManifest \/ op[p].kind = "create"
    BY <1>0, <1>1, <1>m DEF Load, At, HandleOf, Busy
  <2>2. HandleOf(p)'
    BY <1>0, <1>1, <1>m, <2>1 DEF Load, At, HandleOf, Busy, Goto, diskVars
  <2>3. OthersKeep(p)
    BY <1>1 DEF Load, OthersKeep, Goto, diskVars
  <2> QED BY <1>0, <2>2, <2>3, HandleFrame
<1>2. CASE RecoverPending(p)
  <2>1. PICK m : mem' = [mem EXCEPT ![p] = m]
    BY <1>2 DEF RecoverPending
  <2>2. /\ UNCHANGED <<man, op, stage>>
        /\ stage[p] = "recover"
    BY <1>2 DEF RecoverPending, At
  <2>3. mem'[p] \in Manifest
    <3>1. PICK t \in mem[p].pending :
            mem' = [mem EXCEPT ![p] =
                [content |-> IF HasStateJson(final'[t[1]])
                             THEN Merge(@.content, BoundaryEntry(t[1])) ELSE @.content,
                 pending |-> @.pending \ {t}]]
      BY <1>2 DEF RecoverPending
    <3>2. mem[p] \in Manifest
      BY <1>0, <2>2 DEF HandleOf, Busy
    <3> DEFINE c == IF HasStateJson(final'[t[1]])
                    THEN Merge(mem[p].content, BoundaryEntry(t[1])) ELSE mem[p].content
    <3>3. c \in Content
      BY <3>2, MergeType, EntryType DEF Manifest, Temp
    <3>4. [content |-> c, pending |-> mem[p].pending \ {t}] \in Manifest
      BY <3>3, <3>2 DEF Manifest
    <3> QED BY <3>1, <3>4
  <2>4. HandleOf(p)'
    BY <1>0, <1>m, <2>2, <2>3 DEF HandleOf, Busy
  <2>5. OthersKeep(p)
    BY <2>1, <2>2 DEF OthersKeep
  <2> QED BY <1>0, <2>4, <2>5, HandleFrame
<1>3. CASE RecoverScan(p) \/ SweepTemp(p) \/ SweepFinal(p) \/ SweepTears(p)
  <2>1. UNCHANGED <<man, mem, op>> /\ stage[p] \in {"recover", "sweep"}
        /\ (stage' = stage \/ stage' = [stage EXCEPT ![p] = "sweep"])
    BY <1>3 DEF RecoverScan, SweepTemp, SweepFinal, SweepTears, diskVars, callVars, At, Goto
  <2>2. HandleOf(p)' /\ OthersKeep(p)
    BY <1>0, <2>1 DEF HandleOf, OthersKeep, Busy
  <2> QED BY <1>0, <2>2, HandleFrame
<1>4. CASE RecoverDone(p)
  <2>1. /\ stage[p] = "sweep" /\ mem[p] \in Manifest /\ op[p].kind # "create"
        /\ man # NoManifest
    BY <1>0, <1>4, <1>m DEF RecoverDone, At, HandleOf, Busy
  <2>2. /\ UNCHANGED <<mem, op>>
        /\ man' \in {man, mem[p]}
        /\ stage' \in {[stage EXCEPT ![p] = "done"], [stage EXCEPT ![p] = "body"]}
    BY <1>4 DEF RecoverDone, Goto
  <2>3. HandleOf(p)' /\ OthersKeep(p)
    BY <1>0, <1>m, <2>1, <2>2 DEF HandleOf, OthersKeep, Busy
  <2> QED BY <1>0, <2>3, HandleFrame
<1> QED BY <1>1, <1>2, <1>3, <1>4 DEF Recover

LEMMA BodyHandle == ASSUME TInv, NEW p \in Proc, Body(p) PROVE HandleInv'
<1>0. StoreType /\ HandleInv /\ HandleOf(p)
  BY DEF TInv, HandleInv
<1>m. NoManifest \notin Manifest
  BY StoreConstants
<1>t. /\ mem \in [Proc -> Manifest \cup {NoManifest}]
      /\ stage \in [Proc -> Stages]
      /\ man \in Manifest \cup {NoManifest}
  BY <1>0 DEF StoreType
<1>1. /\ op' = op
      /\ stage[p] \notin {"idle", "done"}
      /\ \E s \in {"basing", "based", "staged", "prepared", "journaled", "published", "done"} :
            stage' = [stage EXCEPT ![p] = s]
  BY DEF Body, CreateBody, RegisterBase, RegisterIndex, WriteEntry,
     AnnotateBody, CoordinatesBody, AlreadyThere, CacheStage, CachePrepare, CacheJournal,
     CachePublish, CacheIndex, At, Goto, diskVars
<1>2. CASE UNCHANGED <<man, mem>> /\ ~CreateBody(p)
  <2>1. stage'[p] = "done" => op[p].kind # "create" \/ man # NoManifest
    <3>1. CASE AlreadyThere(p)
      BY <3>1 DEF AlreadyThere
    <3>2. CASE RegisterBase(p) \/ CacheStage(p) \/ CachePrepare(p) \/ CachePublish(p)
      BY <1>t, <3>2 DEF RegisterBase, CacheStage, CachePrepare, CachePublish, Goto
    <3>3. CASE \/ RegisterIndex(p) \/ AnnotateBody(p) \/ CoordinatesBody(p)
               \/ CacheJournal(p) \/ CacheIndex(p)
      <4>1. \E c, d : man' = [content |-> c, pending |-> d]
        BY <3>3 DEF RegisterIndex, AnnotateBody, CoordinatesBody, WriteEntry, CacheJournal,
           CacheIndex, Write
      <4>2. mem'[p] = man'
        BY <1>t, <3>3 DEF RegisterIndex, AnnotateBody, CoordinatesBody, WriteEntry, CacheJournal,
           CacheIndex, Write
      <4> QED BY <1>0, <1>1, <1>2, <1>m, <4>2 DEF HandleOf, Busy
    <3> QED BY <1>2, <3>1, <3>2, <3>3 DEF Body
  <2>2. HandleOf(p)' /\ OthersKeep(p)
    BY <1>0, <1>t, <1>1, <1>2, <2>1 DEF HandleOf, OthersKeep, Busy
  <2> QED BY <1>0, <2>2, HandleFrame
<1>3. ASSUME NEW m \in Manifest, mem' = [mem EXCEPT ![p] = m], man' = m PROVE HandleInv'
  <2>1. HandleOf(p)' /\ OthersKeep(p)
    BY <1>0, <1>t, <1>m, <1>1, <1>3 DEF HandleOf, OthersKeep, Busy
  <2> QED BY <1>0, <2>1, HandleFrame
<1> QED BY <1>2, <1>3, BodyWrites

LEMMA HandleStep == TInv /\ [Next]_storeVars => HandleInv'
<1> SUFFICES ASSUME TInv, [Next]_storeVars PROVE HandleInv'
  OBVIOUS
<1>0. StoreType /\ HandleInv /\ StoreType'
  BY StoreTypeStep DEF TInv
<1>m. NoManifest \notin Manifest
  BY StoreConstants
<1>t. /\ mem \in [Proc -> Manifest \cup {NoManifest}]
      /\ op \in [Proc -> [kind : Kinds, entry : Content]]
      /\ stage \in [Proc -> Stages]
      /\ man \in Manifest \cup {NoManifest}
  BY <1>0 DEF StoreType
<1>1. ASSUME UNCHANGED <<man, mem, op, stage>> PROVE HandleInv'
  BY <1>0, <1>1 DEF HandleInv, HandleOf, Busy
<1>2. ASSUME NEW p \in Proc, Start(p) \/ Acquire(p) \/ Leave(p) \/ Release(p)
      PROVE  UNCHANGED <<man, mem, op, stage>>
  BY <1>2 DEF Start, Acquire, Leave, Release, UnchangedStore, diskVars, callVars
<1>3. ASSUME NEW p \in Proc, CallCreate(p) \/ CallOpen(p) \/ CallMutation(p)
      PROVE  HandleInv'
  <2>h. HandleOf(p)
    BY <1>0 DEF HandleInv
  <2>1. PICK handle \in Manifest, kind \in Kinds, entry \in Content :
          /\ Call(p, kind, entry, handle)
          /\ man # NoManifest \/ kind = "create"
    <3>1. Fresh \in Manifest
      BY EntryType DEF Fresh, Manifest
    <3>2. CASE CallCreate(p)
      BY <3>1, <3>2, EntryType DEF CallCreate, Kinds
    <3>3. CASE CallOpen(p)
      BY <1>t, <3>3, EntryType DEF CallOpen, Kinds
    <3>4. CASE CallMutation(p)
      <4>1. PICK kind \in Kinds, entry \in Content : Mutate(p, kind, entry)
        BY <3>4, EntryType DEF CallMutation, Kinds
      <4>2. mem[p] \in Manifest /\ (man # NoManifest \/ kind = "create")
        BY <1>t, <2>h, <4>1 DEF Mutate, Call, HandleOf, Busy
      <4> QED BY <4>1, <4>2 DEF Mutate
    <3> QED BY <1>3, <3>2, <3>3, <3>4
  <2>2. HandleOf(p)' /\ OthersKeep(p)
    <3>1. /\ man' = man
          /\ op' = [op EXCEPT ![p] = [kind |-> kind, entry |-> entry]]
          /\ stage' = [stage EXCEPT ![p] = "locking"]
          /\ mem' = [mem EXCEPT ![p] = handle]
      BY <2>1 DEF Call, diskVars
    <3> QED BY <1>t, <1>m, <2>1, <3>1 DEF HandleOf, OthersKeep, Busy
  <2> QED BY <1>0, <2>2, HandleFrame
<1>4. ASSUME NEW p \in Proc, Return(p) \/ Die(p) PROVE HandleInv'
  <2>h. HandleOf(p)
    BY <1>0 DEF HandleInv
  <2>1. /\ man' = man
        /\ op' = [op EXCEPT ![p] = NoOp] /\ stage' = [stage EXCEPT ![p] = "idle"]
        /\ mem' \in {mem, [mem EXCEPT ![p] = NoManifest]}
        /\ mem' = mem => stage[p] = "done" \/ op[p].kind # "create" \/ mem[p] = NoManifest
    <3>1. CASE Return(p)
      BY <1>t, <3>1 DEF Return, diskVars
    <3>2. CASE Die(p)
      BY <1>t, <3>2 DEF Die, diskVars
    <3> QED BY <1>4, <3>1, <3>2
  <2>2. HandleOf(p)' /\ OthersKeep(p)
    BY <1>t, <2>h, <2>1 DEF HandleOf, OthersKeep, Busy, NoOp
  <2> QED BY <1>0, <2>2, HandleFrame
<1>5. ASSUME NEW p \in Proc, Raise(p) PROVE HandleInv'
  <2>h. HandleOf(p)
    BY <1>0 DEF HandleInv
  <2>1. /\ UNCHANGED <<man, mem, op>>
        /\ stage' = [stage EXCEPT ![p] = "raised"]
    BY <1>5 DEF Raise, Goto
  <2>b. Busy(p)
    BY <1>0, <1>5 DEF Raise, Busy
  <2>2. HandleOf(p)' /\ OthersKeep(p)
    BY <1>t, <2>h, <2>1, <2>b DEF HandleOf, OthersKeep, Busy
  <2> QED BY <1>0, <2>2, HandleFrame
<1>6. CASE AllGone \/ UNCHANGED storeVars
  BY <1>1, <1>6 DEF AllGone, storeVars, diskVars, callVars
<1> QED BY <1>0, <1>1, <1>2, <1>3, <1>4, <1>5, <1>6, RecoverHandle, BodyHandle DEF Next, Step

(* The lock's invariant and the types together.                            *)
BaseInv == LockInv /\ TInv

LEMMA BaseHolds == Spec => []BaseInv
<1>1. Init => BaseInv
  BY EntryType, LockInvInit DEF Init, BaseInv, TInv, StoreType, HandleInv, HandleOf, Busy,
     DirState, Kinds, NoOp, Stages, NoChildren
<1>2. BaseInv /\ [Next]_storeVars => BaseInv'
  BY LockInvStep, StoreTypeStep, HandleStep DEF BaseInv, TInv
<1> QED BY <1>1, <1>2, PTL DEF Spec

(* The state of the store always has its type.                             *)
THEOREM TypeCorrect == Spec => []TypeOK
<1>1. BaseInv => TypeOK
  BY LockTypes DEF BaseInv, TInv, StoreType, TypeOK
<1> QED BY <1>1, BaseHolds, PTL

-----------------------------------------------------------------------------
(* Bodies exclude each other when processes live one after the other, and  *)
(* also when they live together, until the first of them dies.             *)
Exclusive == ~Concurrent \/ deaths = 0

(* A call that is past the lock is a body, and only the living call.       *)
Recovering == {"recover", "sweep"}
Working == Recovering \cup {"body", "basing", "based", "staged", "prepared", "journaled",
                            "published"}
Linked == \A p \in Proc : /\ stage[p] \in Working => L!InBody(p)
                          /\ Busy(p) => L!Alive(p)

(* Recovery has listed whatever it has not removed yet.                    *)
Listed(p) ==
    /\ mem[p].pending = {}
    /\ \A t \in Temp : Registered(p, t[1]) /\ temp[t] # "none" => t \in unvisited[p].temps
    /\ \A b \in Boundary : Registered(p, b) /\ final[b] # "none" =>
          b \in mem[p].content.boundaries \cup unvisited[p].finals

Clean(p) ==
    /\ mem[p] = man
    /\ man.pending = {}
    /\ \A t \in Temp : Registered(p, t[1]) => temp[t] = "none"
    /\ \A b \in Boundary : Registered(p, b) /\ final[b] # "none" => b \in man.content.boundaries

Cleaning(p) ==
    /\ stage[p] \in Recovering /\ op[p].kind # "open" /\ ~changed[p] => mem[p] = man
    /\ stage[p] = "sweep" => Listed(p)
    /\ stage[p] = "body" /\ op[p].kind # "create" => Clean(p)

CleanInv == /\ Linked
            /\ Exclusive => \A p \in Proc : Cleaning(p)

(* A process's step leaves what belongs to the others alone.               *)
OthersStay(p) == \A q \in Proc \ {p} :
    /\ lpc'[q] = lpc[q] /\ mem'[q] = mem[q] /\ op'[q] = op[q]
    /\ stage'[q] = stage[q] /\ unvisited'[q] = unvisited[q] /\ changed'[q] = changed[q]

(* Steps outside the bodies leave the disk alone.                          *)
Outer(p) == \/ Start(p) \/ Acquire(p) \/ Release(p)
            \/ CallCreate(p) \/ CallOpen(p) \/ CallMutation(p) \/ Return(p) \/ Die(p)
Inner(p) == Recover(p) \/ Body(p) \/ Raise(p) \/ Leave(p)

LEMMA Steps == Next => AllGone \/ \E p \in Proc : Outer(p) \/ Inner(p)
BY DEF Next, Step, Outer, Inner

LEMMA OuterSteps == ASSUME BaseInv, NEW p \in Proc, Outer(p)
                    PROVE  OthersStay(p) /\ UNCHANGED diskVars
<1>0. /\ lpc \in [Proc -> LP!PCs]
      /\ mem \in [Proc -> Manifest \cup {NoManifest}]
      /\ op \in [Proc -> [kind : Kinds, entry : Content]]
      /\ stage \in [Proc -> Stages]
      /\ unvisited \in [Proc -> [temps : SUBSET Temp, finals : SUBSET Boundary]]
      /\ changed \in [Proc -> BOOLEAN]
  BY DEF BaseInv, TInv, StoreType, LockInv, LP!IInv, LP!TypeOK
<1>1. CASE Start(p) \/ Acquire(p) \/ Release(p)
  <2>1. UNCHANGED <<diskVars, callVars>>
    BY <1>1 DEF Start, Acquire, Release, UnchangedStore
  <2>2. \E s : lpc' = [lpc EXCEPT ![p] = s]
    BY <1>1 DEF Start, Acquire, Release, L!Start, L!Acquire, L!CreateFile, L!FileExists,
       L!FindStale, L!UnlinkStale, L!Reject, L!WriteOwner, L!WriteFails,
       L!Release, L!CheckToken, L!UnlinkOwn, L!Goto
  <2> QED BY <1>0, <2>1, <2>2 DEF OthersStay, callVars
<1>2. CASE CallCreate(p) \/ CallOpen(p) \/ CallMutation(p)
  <2>1. \E k, e, h : Call(p, k, e, h)
    BY <1>2 DEF CallCreate, CallOpen, CallMutation, Mutate
  <2>2. PICK k, e, h : Call(p, k, e, h)
    BY <2>1
  <2> QED BY <1>0, <2>2 DEF Call, L!Enter, L!Goto, OthersStay
<1>3. CASE Return(p)
  BY <1>0, <1>3 DEF Return, OthersStay, lockVars
<1>4. CASE Die(p)
  BY <1>0, <1>4 DEF Die, L!Die, OthersStay
<1> QED BY <1>1, <1>2, <1>3, <1>4 DEF Outer

LEMMA InnerSteps == ASSUME BaseInv, NEW p \in Proc, Inner(p)
                    PROVE  /\ OthersStay(p) /\ L!InBody(p) /\ Busy(p)
                           /\ Leave(p) \/ UNCHANGED lockVars
<1>0. /\ lpc \in [Proc -> LP!PCs]
      /\ mem \in [Proc -> Manifest \cup {NoManifest}]
      /\ op \in [Proc -> [kind : Kinds, entry : Content]]
      /\ stage \in [Proc -> Stages]
      /\ unvisited \in [Proc -> [temps : SUBSET Temp, finals : SUBSET Boundary]]
      /\ changed \in [Proc -> BOOLEAN]
  BY DEF BaseInv, TInv, StoreType, LockInv, LP!IInv, LP!TypeOK
<1>1. CASE Recover(p)
  <2>1. L!InBody(p) /\ Busy(p)
    BY <1>1 DEF Recover, Load, RecoverPending, RecoverScan, SweepTemp, SweepFinal,
       SweepTears, RecoverDone, At, Busy
  <2>2. UNCHANGED lockVars /\ op' = op
    BY <1>1 DEF Recover, Load, RecoverPending, RecoverScan, SweepTemp, SweepFinal,
       SweepTears, RecoverDone, callVars
  <2>3. stage' = stage \/ \E s : stage' = [stage EXCEPT ![p] = s]
    BY <1>1 DEF Recover, Load, RecoverPending, RecoverScan, SweepTemp, SweepFinal,
       SweepTears, RecoverDone, callVars, Goto
  <2>4. mem' = mem \/ \E s : mem' = [mem EXCEPT ![p] = s]
    <3>1. CASE RecoverPending(p)
      BY <3>1 DEF RecoverPending
    <3> QED BY <1>1, <3>1 DEF Recover, Load, RecoverScan, SweepTemp, SweepFinal,
       SweepTears, RecoverDone, callVars, diskVars
  <2>5. unvisited' = unvisited \/ \E s : unvisited' = [unvisited EXCEPT ![p] = s]
    BY <1>1 DEF Recover, Load, RecoverPending, RecoverScan, SweepTemp, SweepFinal,
       SweepTears, RecoverDone, callVars
  <2>6. changed' = changed \/ \E s : changed' = [changed EXCEPT ![p] = s]
    BY <1>1 DEF Recover, Load, RecoverPending, RecoverScan, SweepTemp, SweepFinal,
       SweepTears, RecoverDone, callVars
  <2> QED BY <1>0, <2>1, <2>2, <2>3, <2>4, <2>5, <2>6 DEF OthersStay, lockVars
<1>2. CASE Body(p)
  <2>1. L!InBody(p) /\ Busy(p)
    BY <1>2 DEF Body, CreateBody, RegisterBase, RegisterIndex, AnnotateBody, CoordinatesBody,
       AlreadyThere, CacheStage, CachePrepare, CacheJournal, CachePublish, CacheIndex, At, Busy
  <2>2. UNCHANGED lockVars /\ op' = op /\ unvisited' = unvisited /\ changed' = changed
    BY <1>2 DEF Body, CreateBody, RegisterBase, RegisterIndex, AnnotateBody, CoordinatesBody,
       AlreadyThere, CacheStage, CachePrepare, CacheJournal, CachePublish, CacheIndex, WriteEntry
  <2>3. \E s : stage' = [stage EXCEPT ![p] = s]
    BY <1>2 DEF Body, CreateBody, RegisterBase, RegisterIndex, AnnotateBody, CoordinatesBody,
       AlreadyThere, CacheStage, CachePrepare, CacheJournal, CachePublish, CacheIndex, WriteEntry, Goto
  <2>4. mem' = mem \/ \E s : mem' = [mem EXCEPT ![p] = s]
    BY <1>2, BodyWrites DEF BaseInv
  <2> QED BY <1>0, <2>1, <2>2, <2>3, <2>4 DEF OthersStay, lockVars
<1>3. CASE Raise(p)
  BY <1>0, <1>3 DEF Raise, OthersStay, lockVars, Busy, Goto
<1>4. CASE Leave(p)
  BY <1>0, <1>4 DEF Leave, L!Leave, L!Goto, L!InBody, OthersStay, Busy, UnchangedStore, callVars
<1> QED BY <1>1, <1>2, <1>3, <1>4 DEF Inner

LEMMA LinkedStep == BaseInv /\ Linked /\ [Next]_storeVars => Linked'
<1> SUFFICES ASSUME BaseInv, Linked, [Next]_storeVars PROVE Linked'
  OBVIOUS
<1>t. lpc \in [Proc -> LP!PCs] /\ stage \in [Proc -> Stages]
  BY DEF BaseInv, TInv, StoreType, LockInv, LP!IInv, LP!TypeOK
<1>1. ASSUME NEW p \in Proc, OthersStay(p),
             stage'[p] \in Working => lpc'[p] = "holding",
             stage'[p] # "idle" => lpc'[p] \notin {"unborn", "dead"}
      PROVE  Linked'
  BY <1>1 DEF Linked, OthersStay, L!InBody, L!Alive, Busy
<1>2. ASSUME NEW p \in Proc, Start(p) \/ Acquire(p) \/ Release(p) PROVE Linked'
  <2>1. /\ stage' = stage
        /\ lpc[p] # "holding"
        /\ lpc'[p] \notin {"unborn", "dead"}
    BY <1>t, <1>2 DEF Start, Acquire, Release, UnchangedStore, callVars, L!Start, L!Acquire,
       L!CreateFile, L!FileExists, L!FindStale, L!UnlinkStale, L!Reject, L!WriteOwner,
       L!WriteFails, L!Release, L!CheckToken, L!UnlinkOwn, L!Goto
  <2> QED BY <1>1, <1>2, <2>1, OuterSteps DEF Outer, Linked, L!InBody
<1>3. ASSUME NEW p \in Proc, CallCreate(p) \/ CallOpen(p) \/ CallMutation(p) PROVE Linked'
  <2>1. \E k, e, h : Call(p, k, e, h)
    BY <1>3 DEF CallCreate, CallOpen, CallMutation, Mutate
  <2>2. stage'[p] = "locking" /\ lpc'[p] = "create"
    BY <1>t, <2>1 DEF Call, L!Enter, L!Goto
  <2> QED BY <1>1, <1>3, <2>2, OuterSteps DEF Outer, Working, Recovering
<1>4. ASSUME NEW p \in Proc, Return(p) \/ Die(p) PROVE Linked'
  <2>1. stage'[p] = "idle"
    BY <1>t, <1>4 DEF Return, Die
  <2> QED BY <1>1, <1>4, <2>1, OuterSteps DEF Outer, Working, Recovering
<1>5. ASSUME NEW p \in Proc, Inner(p) PROVE Linked'
  <2>1. CASE Leave(p)
    <3>1. stage' = stage /\ stage[p] \in {"done", "raised"} /\ lpc'[p] = "check"
      BY <1>t, <2>1 DEF Leave, UnchangedStore, callVars, L!Leave, L!Goto
    <3> QED BY <1>1, <1>5, <3>1, InnerSteps DEF Working, Recovering
  <2>2. CASE UNCHANGED lockVars
    BY <1>1, <1>5, <2>2, InnerSteps DEF lockVars, L!InBody
  <2> QED BY <1>5, <2>1, <2>2, InnerSteps
<1>6. CASE UNCHANGED storeVars
  BY <1>6 DEF storeVars, lockVars, callVars, Linked, L!InBody, L!Alive, Busy
<1> QED BY <1>2, <1>3, <1>4, <1>5, <1>6, Steps DEF Outer, AllGone

LEMMA ExclusiveBack == BaseInv /\ [Next]_storeVars /\ Exclusive' => Exclusive
<1> SUFFICES ASSUME BaseInv, [Next]_storeVars, Exclusive' PROVE Exclusive
  OBVIOUS
<1>1. deaths \in Nat /\ deaths' \in {deaths} \cup (deaths + 1) .. MaxDeaths
  BY LockInvStep DEF BaseInv, LockInv, LP!IInv, LP!TypeOK
<1>2. deaths' = 0 => deaths = 0
  BY <1>1, StoreConstants
<1> QED BY <1>2 DEF Exclusive

(* Whoever is in a body is the only one.                                   *)
LEMMA BodiesApart ==
    ASSUME BaseInv, Exclusive, NEW p \in Proc, NEW q \in Proc, L!InBody(p), L!InBody(q)
    PROVE  p = q
<1>1. CASE Concurrent
  <2>1. LP!OwnToken(p) /\ LP!OwnToken(q)
    BY <1>1 DEF BaseInv, Exclusive, LockInv, LP!IInv, LP!LivingInv, LP!HolderOwnsFile, L!InBody
  <2> QED BY <2>1 DEF LP!OwnToken, LP!LockFile
<1>2. CASE ~Concurrent
  BY <1>2 DEF BaseInv, LockInv, LP!OneAtATime, LP!Alive, L!InBody
<1> QED BY <1>1, <1>2, StoreConstants

(* What a body finds is not disturbed by the steps of the others: those in *)
(* bodies have no company, those outside leave the disk alone.             *)
LEMMA CleaningFrame ==
    ASSUME BaseInv, Linked, Exclusive, NEW p \in Proc, NEW q \in Proc, p # q,
           Outer(p) \/ Inner(p), Cleaning(q)
    PROVE  Cleaning(q)'
<1>1. /\ mem'[q] = mem[q] /\ op'[q] = op[q] /\ stage'[q] = stage[q]
      /\ unvisited'[q] = unvisited[q] /\ changed'[q] = changed[q]
  BY OuterSteps, InnerSteps DEF OthersStay
<1>2. CASE Outer(p)
  <2>1. UNCHANGED diskVars
    BY <1>2, OuterSteps
  <2> QED BY <1>1, <2>1 DEF diskVars, Cleaning, Listed, Clean, Registered
<1>3. CASE Inner(p)
  <2>1. stage[q] \notin Working
    BY <1>3, InnerSteps, BodiesApart DEF Linked
  <2> QED BY <1>1, <2>1 DEF Cleaning, Working, Recovering
<1> QED BY <1>2, <1>3

LEMMA RecoverCleans ==
    ASSUME BaseInv, NEW p \in Proc, Cleaning(p), Recover(p) PROVE Cleaning(p)'
<1>t. StoreType
  BY DEF BaseInv, TInv
<1> USE <1>t DEF Recovering
<1>1. CASE Load(p)
  <2>1. /\ stage'[p] = IF op[p].kind = "create" THEN "body" ELSE "recover"
        /\ op' = op /\ man' = man
        /\ op[p].kind \notin {"create", "open"} => mem'[p] = man
    BY <1>1 DEF Load, Goto, StoreType, diskVars
  <2> QED BY <2>1 DEF Cleaning
<1>2. CASE RecoverPending(p)
  <2>1. stage'[p] = "recover" /\ changed'[p]
    BY <1>2 DEF RecoverPending, At, StoreType
  <2> QED BY <2>1 DEF Cleaning
<1>3. CASE RecoverScan(p)
  <2>1. /\ stage[p] = "recover" /\ stage'[p] = "sweep" /\ mem[p].pending = {}
        /\ unvisited'[p] = [temps |-> {t \in Temp : Registered(p, t[1]) /\ temp[t] # "none"},
                       finals |-> {b \in Boundary : Registered(p, b) /\ final[b] # "none"
                                              /\ b \notin mem[p].content.boundaries}]
        /\ UNCHANGED <<diskVars, mem, op, changed>>
    BY <1>3 DEF RecoverScan, At, Goto, StoreType
  <2>2. Listed(p)'
    BY <2>1 DEF Listed, Registered, diskVars
  <2> QED BY <2>1, <2>2 DEF Cleaning, diskVars
<1>4. CASE SweepTemp(p)
  <2>1. PICK t \in unvisited[p].temps :
          /\ temp' = [temp EXCEPT ![t] = "none"]
          /\ unvisited' = [unvisited EXCEPT ![p] = [temps |-> @.temps \ {t}, finals |-> @.finals]]
    BY <1>4 DEF SweepTemp
  <2>2. /\ stage[p] = "sweep" /\ changed'[p]
        /\ UNCHANGED <<man, final, mem, op, stage>>
    BY <1>4 DEF SweepTemp, At, StoreType
  <2>3. \A s \in Temp : temp'[s] = IF s = t THEN "none" ELSE temp[s]
    BY <2>1 DEF StoreType
  <2>4. unvisited'[p] = [temps |-> unvisited[p].temps \ {t}, finals |-> unvisited[p].finals]
    BY <2>1 DEF StoreType
  <2>5. Listed(p)'
    BY <2>2, <2>3, <2>4 DEF Cleaning, Listed, Registered
  <2> QED BY <2>2, <2>5 DEF Cleaning
<1>5. CASE SweepFinal(p)
  <2>1. PICK b \in unvisited[p].finals :
          /\ final' = [final EXCEPT ![b] = "none"]
          /\ unvisited' = [unvisited EXCEPT ![p] = [temps |-> @.temps, finals |-> @.finals \ {b}]]
          /\ changed' = [changed EXCEPT ![p] = changed[p] \/ final[b] # "none"]
    BY <1>5 DEF SweepFinal
  <2>2. stage[p] = "sweep" /\ UNCHANGED <<man, temp, mem, op, stage>>
    BY <1>5 DEF SweepFinal, At
  <2>3. \A a \in Boundary : final'[a] = IF a = b THEN "none" ELSE final[a]
    BY <2>1 DEF StoreType
  <2>4. unvisited'[p] = [temps |-> unvisited[p].temps, finals |-> unvisited[p].finals \ {b}]
    BY <2>1 DEF StoreType
  <2>5. ~changed'[p] => ~changed[p]
    BY <2>1 DEF StoreType
  <2>6. Listed(p)'
    BY <2>2, <2>3, <2>4 DEF Cleaning, Listed, Registered
  <2> QED BY <2>2, <2>5, <2>6 DEF Cleaning
<1>6. CASE SweepTears(p)
  <2>1. /\ stage[p] = "sweep"
        /\ UNCHANGED <<man, callVars>>
        /\ \A s \in Temp : temp'[s] # "none" => temp[s] # "none"
        /\ \A a \in Boundary : final'[a] # "none" => final[a] # "none"
    BY <1>6 DEF SweepTears, At, StoreType
  <2>2. Listed(p)'
    BY <2>1 DEF Cleaning, Listed, Registered, callVars
  <2> QED BY <2>1, <2>2 DEF Cleaning, callVars
<1>7. CASE RecoverDone(p)
  <2>1. /\ stage[p] = "sweep" /\ unvisited[p] = NoChildren
        /\ man' = IF changed[p] THEN mem[p] ELSE man
        /\ UNCHANGED <<base, final, temp, mem, op>>
        /\ stage'[p] = IF op[p].kind = "open" THEN "done" ELSE "body"
    BY <1>7 DEF RecoverDone, At, Goto, StoreType
  <2>2. CASE op[p].kind = "open"
    BY <2>1, <2>2 DEF Cleaning
  <2>3. CASE op[p].kind # "open"
    <3>1. man' = mem[p] /\ mem' = mem
      BY <2>1, <2>3 DEF Cleaning
    <3>2. Clean(p)'
      BY <2>1, <3>1 DEF Cleaning, Listed, Clean, NoChildren, Registered
    <3> QED BY <2>1, <2>3, <3>2 DEF Cleaning
  <2> QED BY <2>2, <2>3
<1> QED BY <1>1, <1>2, <1>3, <1>4, <1>5, <1>6, <1>7 DEF Recover

LEMMA CleanStep == BaseInv /\ CleanInv /\ [Next]_storeVars => CleanInv'
<1> SUFFICES ASSUME BaseInv, Linked, Exclusive => \A q \in Proc : Cleaning(q),
                    [Next]_storeVars, Exclusive'
             PROVE  \A q \in Proc : Cleaning(q)'
  BY LinkedStep DEF CleanInv
<1>0. Exclusive /\ \A q \in Proc : Cleaning(q)
  BY ExclusiveBack
<1>t. stage \in [Proc -> Stages]
  BY DEF BaseInv, TInv, StoreType
<1>1. ASSUME NEW p \in Proc, Outer(p) \/ Inner(p), Cleaning(p)'
      PROVE  \A q \in Proc : Cleaning(q)'
  BY <1>0, <1>1, CleaningFrame
<1>2. ASSUME NEW p \in Proc, stage'[p] \notin Recovering \cup {"body"}
      PROVE  Cleaning(p)'
  BY <1>2 DEF Cleaning, Recovering
<1>3. ASSUME NEW p \in Proc, UNCHANGED <<diskVars, callVars>> PROVE Cleaning(p)'
  BY <1>0, <1>3 DEF diskVars, callVars, Cleaning, Listed, Clean, Registered
<1>4. ASSUME NEW p \in Proc, Outer(p) PROVE Cleaning(p)'
  <2>1. CASE Start(p) \/ Acquire(p) \/ Release(p)
    BY <1>3, <2>1 DEF Start, Acquire, Release, UnchangedStore
  <2>2. CASE CallCreate(p) \/ CallOpen(p) \/ CallMutation(p)
    <3>1. \E k, e, h : Call(p, k, e, h)
      BY <2>2 DEF CallCreate, CallOpen, CallMutation, Mutate
    <3> QED BY <1>t, <1>2, <3>1 DEF Call, Recovering
  <2>3. CASE Return(p) \/ Die(p)
    BY <1>t, <1>2, <2>3 DEF Return, Die, Recovering
  <2> QED BY <1>4, <2>1, <2>2, <2>3 DEF Outer
<1>5. ASSUME NEW p \in Proc, Inner(p) PROVE Cleaning(p)'
  <2>1. CASE Recover(p)
    BY <1>0, <2>1, RecoverCleans
  <2>2. CASE Body(p)
    <3>1. stage'[p] \in {"basing", "based", "staged", "prepared", "journaled", "published", "done"}
      BY <1>t, <2>2 DEF Body, CreateBody, RegisterBase, RegisterIndex, AnnotateBody,
         CoordinatesBody, AlreadyThere, CacheStage, CachePrepare, CacheJournal, CachePublish,
         CacheIndex, WriteEntry, Goto
    <3> QED BY <1>2, <3>1 DEF Recovering
  <2>3. CASE Raise(p)
    BY <1>t, <1>2, <2>3 DEF Raise, Goto, Recovering
  <2>4. CASE Leave(p)
    BY <1>3, <2>4 DEF Leave, UnchangedStore
  <2> QED BY <1>5, <2>1, <2>2, <2>3, <2>4 DEF Inner
<1>6. CASE UNCHANGED storeVars
  BY <1>3, <1>6 DEF storeVars
<1> QED BY <1>1, <1>4, <1>5, <1>6, Steps DEF AllGone

LEMMA CleanHolds == Spec => []CleanInv
<1>1. Init => CleanInv
  BY DEF Init, CleanInv, Linked, Cleaning, Busy, Working, Recovering
<1> QED BY <1>1, CleanStep, BaseHolds, PTL DEF Spec

(* Whoever starts to mutate the artifact finds no trace of an interrupted  *)
(* publication: always when processes live one after the other, and until  *)
(* the first death when they live together.  (Afterwards two mutations may *)
(* be in their bodies together.)                                           *)
THEOREM StartsClean == Spec => [](Exclusive => RecoveredClean)
<1>1. CleanInv => (Exclusive => RecoveredClean)
  BY DEF CleanInv, Cleaning, Clean, RecoveredClean, At
<1> QED BY <1>1, CleanHolds, PTL

-----------------------------------------------------------------------------
(* Contents are ordered by Within, and Merge is the union of two.          *)
LEMMA WithinIff ==
    ASSUME NEW c \in Content, NEW d \in Content
    PROVE  Within(c, d) <=> /\ c.profiles \subseteq d.profiles
                            /\ c.boundaries \subseteq d.boundaries
                            /\ c.annotations \subseteq d.annotations
                            /\ c.coordinates \subseteq d.coordinates
<1>1. Within(c, d) <=> /\ c.profiles \cup d.profiles = d.profiles
                       /\ c.boundaries \cup d.boundaries = d.boundaries
                       /\ c.annotations \cup d.annotations = d.annotations
                       /\ c.coordinates \cup d.coordinates = d.coordinates
  BY DEF Within, Merge, Content
<1>2. \A S, T : S \cup T = T <=> S \subseteq T
  OBVIOUS
<1> QED BY <1>1, <1>2

LEMMA WithinTrans ==
    ASSUME NEW c \in Content, NEW d \in Content, NEW e \in Content, Within(c, d), Within(d, e)
    PROVE  Within(c, e)
BY WithinIff

LEMMA WithinMerge ==
    ASSUME NEW c \in Content, NEW d \in Content
    PROVE  /\ Within(c, Merge(c, d)) /\ Within(d, Merge(c, d))
           /\ Within(Nothing, c) /\ Within(c, c)
           /\ \A e \in Content : Within(c, e) /\ Within(d, e) => Within(Merge(c, d), e)
<1>1. Merge(c, d) \in Content /\ Nothing \in Content
  BY MergeType, EntryType
<1>2. Within(c, Merge(c, d)) /\ Within(d, Merge(c, d)) /\ Within(c, c)
  BY <1>1, WithinIff DEF Merge
<1>3. Within(Nothing, c)
  BY <1>1, WithinIff DEF Nothing
<1>4. ASSUME NEW e \in Content, Within(c, e), Within(d, e) PROVE Within(Merge(c, d), e)
  BY <1>1, <1>4, WithinIff DEF Merge
<1> QED BY <1>2, <1>3, <1>4

-----------------------------------------------------------------------------
(* What follows holds while nothing disturbs the artifact (Undisturbed):   *)
(* it needs more than bodies that exclude each other.                      *)

(* What is on disk while nothing disturbs it: what is indexed is there, a  *)
(* profile has its base, and the one publication that may be journaled has *)
(* its directory complete under one of its two names.                      *)
DiskSound == man # NoManifest =>
    /\ \A f \in man.content.profiles : base[f] = "whole"
    /\ \A b \in man.content.boundaries : final[b] = "whole" /\ b[1] \in man.content.profiles
    /\ \A t \in man.pending : /\ t[1][1] \in man.content.profiles
                              /\ \/ final[t[1]] = "whole"
                                 \/ final[t[1]] = "none" /\ temp[t] = "whole"
    /\ \A s, t \in man.pending : s = t

(* Each kind of call adds an entry of its kind.                            *)
EntryOf(p) ==
    LET k == op[p].kind
        e == op[p].entry
    IN  /\ k = "register" => \E f \in Profile : e = ProfileEntry(f)
        /\ k = "cache" => \E b \in Boundary : e = BoundaryEntry(b)
        /\ k = "annotate" => \E n \in Annotation : e = AnnotationEntry(n)
        /\ k = "coordinates" => \E c \in Coordinates : e = CoordinatesEntry(c)
        /\ k \notin {"register", "cache", "annotate", "coordinates"} => e = Nothing

(* Who opens the artifact is alone with it, and has its manifest.          *)
OpensAlone(p) ==
    Busy(p) /\ op[p].kind = "open" =>
        /\ \A q \in Proc \ {p} : ~Busy(q)
        /\ stage[p] = "locking" => mem[p] = man

(* Recovery adds to the manifest what is journaled and complete.           *)
Recovered(p) ==
    LET c == mem[p].content
    IN  stage[p] \in Recovering =>
          /\ man # NoManifest
          /\ c.profiles = man.content.profiles
          /\ c.annotations = man.content.annotations /\ c.coordinates = man.content.coordinates
          /\ man.content.boundaries \subseteq c.boundaries
          /\ \A b \in c.boundaries : final[b] = "whole" /\ b[1] \in c.profiles
          /\ \A b \in c.boundaries \ man.content.boundaries : \E t \in man.pending : t[1] = b
          /\ mem[p].pending \subseteq man.pending
          /\ \A t \in man.pending \ mem[p].pending : t[1] \in c.boundaries
          /\ ~changed[p] => mem[p] = man
          /\ stage[p] = "sweep" => unvisited[p].finals \cap c.boundaries = {}

(* A body works on the manifest that is on disk, and knows what it has put *)
(* there.                                                                  *)
Published(p) ==
    LET s == stage[p]
        e == op[p].entry
    IN  /\ op[p].kind = "create" /\ s \in {"locking", "body"} => mem[p] = Fresh
        /\ s \in Working \ Recovering /\ op[p].kind # "create" => mem[p] = man /\ man # NoManifest
        /\ s \in {"basing", "based"} => op[p].kind = "register"
        /\ s \in {"staged", "prepared", "journaled", "published"} => op[p].kind = "cache"
        /\ s \in {"basing", "based", "staged", "prepared"} => man.pending = {}
        /\ s = "based" => \A f \in e.profiles : base[f] = "whole"
        /\ s \in {"staged", "prepared", "journaled", "published"} =>
              \A b \in e.boundaries :
                /\ b[1] \in man.content.profiles
                /\ final[b] = IF s = "published" THEN "whole" ELSE "none"
                /\ s = "staged" => temp[<<b, p>>] = "partial"
                /\ s \in {"prepared", "journaled"} => temp[<<b, p>>] = "whole"
        /\ s \in {"journaled", "published"} => \A t \in man.pending : t[1] \in e.boundaries
        /\ s = "done" => man # NoManifest /\ Within(e, man.content)

Durable == IF man = NoManifest THEN acked = Nothing ELSE Within(acked, man.content)

Sound == /\ DiskSound /\ Durable
         /\ \A p \in Proc : EntryOf(p) /\ OpensAlone(p) /\ Recovered(p) /\ Published(p)

SoundInv == Undisturbed => Sound

Grows == man # NoManifest => man' # NoManifest /\ Within(man.content, man'.content)

LEMMA UndisturbedBack == BaseInv /\ [Next]_storeVars /\ Undisturbed' => Undisturbed /\ Exclusive
<1> SUFFICES ASSUME BaseInv, [Next]_storeVars, Undisturbed' PROVE Undisturbed /\ Exclusive
  OBVIOUS
<1>1. deaths \in Nat /\ deaths' \in {deaths} \cup (deaths + 1) .. MaxDeaths
  BY LockInvStep DEF BaseInv, LockInv, LP!IInv, LP!TypeOK
<1>2. deaths' = 0 => deaths = 0
  BY <1>1, StoreConstants
<1> QED BY <1>2 DEF Exclusive, Undisturbed

(* Whoever opens stays alone.                                              *)
LEMMA OpensStep ==
    ASSUME BaseInv, Linked, Undisturbed, \A q \in Proc : OpensAlone(q),
           NEW p \in Proc, Outer(p) \/ Inner(p)
    PROVE  \A q \in Proc : OpensAlone(q)'
<1>t. /\ mem \in [Proc -> Manifest \cup {NoManifest}]
      /\ op \in [Proc -> [kind : Kinds, entry : Content]]
      /\ stage \in [Proc -> Stages]
  BY DEF BaseInv, TInv, StoreType
<1>o. OthersStay(p)
  BY OuterSteps, InnerSteps
<1>1. CASE Start(p) \/ Acquire(p) \/ Release(p)
  <2>1. UNCHANGED <<man, mem, op, stage>>
    BY <1>1 DEF Start, Acquire, Release, UnchangedStore, diskVars, callVars
  <2> QED BY <2>1 DEF OpensAlone, Busy
<1>2. CASE CallCreate(p) \/ CallOpen(p) \/ CallMutation(p)
  <2>1. \E k, e, h : Call(p, k, e, h) /\ (k = "open" => h = man)
    BY <1>2 DEF CallCreate, CallOpen, CallMutation, Mutate
  <2>2. PICK k, e, h : Call(p, k, e, h) /\ (k = "open" => h = man)
    BY <2>1
  <2>3. ASSUME NEW q \in Proc \ {p}, Busy(q) PROVE "open" \notin {k, op[q].kind}
    <3>1. CASE ~Concurrent
      <4>1. LP!Alive(p) /\ LP!Alive(q)
        BY <2>2, <2>3 DEF Call, L!Enter, L!Goto, Linked, LP!Alive, L!Alive
      <4> QED BY <3>1, <4>1 DEF BaseInv, LockInv, LP!OneAtATime
    <3>2. CASE ~OverlappingOpens
      BY <2>2, <2>3, <3>2 DEF Call, MayCall
    <3> QED BY <3>1, <3>2 DEF Undisturbed
  <2>4. /\ man' = man /\ mem'[p] = h /\ stage'[p] = "locking"
        /\ op'[p].kind = k
    BY <1>t, <2>2 DEF Call, diskVars
  <2>5. OpensAlone(p)'
    BY <1>o, <2>2, <2>3, <2>4 DEF OpensAlone, OthersStay, Busy
  <2>6. ASSUME NEW q \in Proc \ {p} PROVE OpensAlone(q)'
    BY <1>o, <2>3, <2>6 DEF OpensAlone, OthersStay, Busy
  <2> QED BY <2>5, <2>6
<1>3. CASE Return(p) \/ Die(p)
  <2>1. man' = man /\ stage'[p] = "idle"
    BY <1>t, <1>3 DEF Return, Die, diskVars
  <2> QED BY <1>o, <2>1 DEF OpensAlone, OthersStay, Busy
<1>4. CASE Inner(p)
  <2>1. Busy(p)
    BY <1>4, InnerSteps
  <2>2. op' = op /\ stage'[p] # "locking"
    <3>1. CASE Recover(p)
      BY <1>t, <3>1 DEF Recover, Load, RecoverPending, RecoverScan, SweepTemp, SweepFinal,
         SweepTears, RecoverDone, At, Goto, callVars
    <3>2. CASE Body(p)
      BY <1>t, <3>2 DEF Body, CreateBody, RegisterBase, RegisterIndex, AnnotateBody,
         CoordinatesBody, AlreadyThere, CacheStage, CachePrepare, CacheJournal, CachePublish,
         CacheIndex, WriteEntry, Goto
    <3>3. CASE Raise(p) \/ Leave(p)
      BY <1>t, <3>3 DEF Raise, Leave, Goto, UnchangedStore, callVars
    <3> QED BY <1>4, <3>1, <3>2, <3>3 DEF Inner
  <2> QED BY <1>o, <2>1, <2>2 DEF OpensAlone, OthersStay, Busy
<1> QED BY <1>1, <1>2, <1>3, <1>4 DEF Outer

(* What is known of q's call survives the steps of the others.             *)
LEMMA SoundFrame ==
    ASSUME BaseInv, Linked, Exclusive, NEW p \in Proc, NEW q \in Proc, p # q,
           Outer(p) \/ Inner(p), Grows, Recovered(q), Published(q)
    PROVE  Recovered(q)' /\ Published(q)'
<1>1. /\ mem'[q] = mem[q] /\ op'[q] = op[q] /\ stage'[q] = stage[q]
      /\ unvisited'[q] = unvisited[q] /\ changed'[q] = changed[q]
  BY OuterSteps, InnerSteps DEF OthersStay
<1>2. CASE Outer(p)
  <2>1. UNCHANGED diskVars
    BY <1>2, OuterSteps
  <2> QED BY <1>1, <2>1 DEF diskVars, Recovered, Published
<1>3. CASE Inner(p)
  <2>1. stage[q] \notin Working
    BY <1>3, InnerSteps, BodiesApart DEF Linked
  <2>2. Recovered(q)'
    BY <1>1, <2>1 DEF Recovered, Working
  <2>3. stage[q] = "done" => man' # NoManifest /\ Within(op[q].entry, man'.content)
    <3> SUFFICES ASSUME stage[q] = "done" PROVE man' # NoManifest /\ Within(op[q].entry, man'.content)
      OBVIOUS
    <3>1. man # NoManifest /\ Within(op[q].entry, man.content)
      BY DEF Published
    <3>2. man' # NoManifest /\ Within(man.content, man'.content)
      BY <3>1 DEF Grows
    <3>3. man' \in Manifest \cup {NoManifest} /\ man \in Manifest \cup {NoManifest}
      <4>1. StoreType'
        BY <1>3, StoreTypeStep DEF BaseInv, Next, Step, Inner
      <4> QED BY <4>1 DEF BaseInv, TInv, StoreType
    <3>4. /\ op[q].entry \in Content /\ man.content \in Content /\ man'.content \in Content
      BY <3>1, <3>2, <3>3 DEF BaseInv, TInv, StoreType, Manifest
    <3> QED BY <3>1, <3>2, <3>4, WithinTrans
  <2>4. Published(q)'
    BY <1>1, <2>1, <2>3 DEF Published, Working, Recovering
  <2> QED BY <2>2, <2>4
<1> QED BY <1>2, <1>3

(* Recovery completes what is journaled and removes what is not indexed.   *)
LEMMA RecoverSound ==
    ASSUME BaseInv, DiskSound, NEW p \in Proc, Cleaning(p), EntryOf(p), OpensAlone(p),
           Recovered(p), Published(p), Recover(p)
    PROVE  DiskSound' /\ Grows /\ Recovered(p)' /\ Published(p)'
<1>t. StoreType /\ HandleOf(p) /\ Busy(p) /\ mem[p] \in Manifest
  BY InnerSteps DEF BaseInv, TInv, HandleInv, HandleOf, Inner
<1>m. NoManifest \notin Manifest
  BY StoreConstants
<1>g. ASSUME man' = man PROVE Grows
  <2> SUFFICES ASSUME man # NoManifest PROVE man' # NoManifest /\ Within(man.content, man'.content)
    BY DEF Grows
  <2>1. man.content \in Content
    BY <1>t DEF StoreType, Manifest
  <2> QED BY <1>g, <2>1, WithinMerge
<1>1. CASE Load(p)
  <2>1. /\ UNCHANGED <<man, base, final, temp, op>>
        /\ stage[p] = "locking"
        /\ stage'[p] = IF op[p].kind = "create" THEN "body" ELSE "recover"
        /\ mem'[p] = IF op[p].kind \in {"create", "open"} THEN mem[p] ELSE man
    BY <1>t, <1>1 DEF Load, At, Goto, StoreType, diskVars
  <2>2. DiskSound'
    BY <2>1 DEF DiskSound
  <2>3. CASE op[p].kind = "create"
    <3>1. Recovered(p)' /\ Published(p)'
      BY <2>1, <2>3 DEF Recovered, Published, Working, Recovering
    <3> QED BY <1>g, <2>1, <2>2, <3>1
  <2>4. CASE op[p].kind # "create"
    <3>1. man # NoManifest
      BY <1>t, <1>m, <2>4 DEF HandleOf
    <3>2. mem'[p] = man
      BY <1>t, <2>1, <2>4 DEF OpensAlone
    <3>3. Recovered(p)'
      BY <2>1, <2>4, <3>1, <3>2 DEF Recovered, DiskSound, Recovering
    <3>4. Published(p)'
      BY <2>1, <2>4 DEF Published, Working, Recovering
    <3> QED BY <1>g, <2>1, <2>2, <3>3, <3>4
  <2> QED BY <2>3, <2>4
<1>2. CASE RecoverPending(p)
  <2>1. stage[p] = "recover" /\ man # NoManifest
    BY <1>2 DEF RecoverPending, At, Recovered, Recovering
  <2>2. PICK t \in mem[p].pending :
          LET b == t[1]
              staged == ~HasStateJson(final[b]) /\ HasStateJson(temp[t])
              rename == staged /\ final[b] = "none"
          IN  /\ final' = IF rename THEN [final EXCEPT ![b] = temp[t]] ELSE final
              /\ temp' = IF staged THEN [temp EXCEPT ![t] = "none"] ELSE temp
              /\ mem' = [mem EXCEPT ![p] =
                    [content |-> IF HasStateJson(final'[b])
                                 THEN Merge(@.content, BoundaryEntry(b)) ELSE @.content,
                     pending |-> @.pending \ {t}]]
    BY <1>2 DEF RecoverPending
  <2>3. /\ UNCHANGED <<man, base, op, stage>>
        /\ changed'[p]
    BY <1>t, <1>2 DEF RecoverPending, StoreType
  <2>4. /\ t \in man.pending /\ t \in Temp /\ t[1] \in Boundary
        /\ t[1][1] \in man.content.profiles
        /\ \/ final[t[1]] = "whole"
           \/ final[t[1]] = "none" /\ temp[t] = "whole"
    BY <1>t, <2>1 DEF Recovered, Recovering, DiskSound, Manifest, Temp
  <2>5. \A b \in Boundary : final'[b] = IF b = t[1] THEN "whole" ELSE final[b]
    BY <1>t, <2>2, <2>4 DEF StoreType, HasStateJson
  <2>6. mem'[p] = [content |-> Merge(mem[p].content, BoundaryEntry(t[1])),
                  pending |-> mem[p].pending \ {t}]
    BY <1>t, <2>2, <2>4, <2>5 DEF StoreType, HasStateJson
  <2>7. /\ mem'[p].content.profiles = mem[p].content.profiles
        /\ mem'[p].content.boundaries = mem[p].content.boundaries \cup {t[1]}
        /\ mem'[p].content.annotations = mem[p].content.annotations
        /\ mem'[p].content.coordinates = mem[p].content.coordinates
        /\ mem'[p].pending = mem[p].pending \ {t}
    BY <2>6 DEF Merge, BoundaryEntry, Nothing
  <2>8. man.content.boundaries \subseteq Boundary /\ mem[p].content.boundaries \subseteq Boundary
        /\ \A s \in man.pending : s[1] \in Boundary
    BY <1>t, <2>1 DEF StoreType, Manifest, Content, Temp
  <2>9. DiskSound'
    BY <2>1, <2>3, <2>4, <2>5, <2>8 DEF DiskSound
  <2>10. Recovered(p)'
    BY <2>1, <2>3, <2>4, <2>5, <2>7, <2>8 DEF Recovered, Recovering
  <2>11. Published(p)'
    BY <2>1, <2>3 DEF Published, Working, Recovering
  <2> QED BY <1>g, <2>3, <2>9, <2>10, <2>11
<1>3. CASE RecoverScan(p)
  <2>1. /\ stage[p] = "recover" /\ stage'[p] = "sweep"
        /\ unvisited'[p].finals \cap mem[p].content.boundaries = {}
        /\ UNCHANGED <<man, base, final, temp, mem, op, changed>>
    BY <1>t, <1>3 DEF RecoverScan, At, Goto, StoreType, diskVars
  <2>2. DiskSound'
    BY <2>1 DEF DiskSound
  <2>3. Recovered(p)' /\ Published(p)'
    BY <2>1 DEF Recovered, Published, Working, Recovering
  <2> QED BY <1>g, <2>1, <2>2, <2>3
<1>4. CASE SweepTemp(p) \/ SweepFinal(p) \/ SweepTears(p)
  <2>1. /\ stage[p] = "sweep" /\ man # NoManifest
        /\ UNCHANGED <<man, base, mem, op, stage>>
        /\ ~changed'[p] => ~changed[p]
        /\ unvisited'[p].finals \subseteq unvisited[p].finals
        /\ \A b \in Boundary \ unvisited[p].finals : final'[b] = final[b]
    <3>1. stage[p] = "sweep" /\ man # NoManifest
      BY <1>4 DEF SweepTemp, SweepFinal, SweepTears, At, Recovered, Recovering
    <3>2. UNCHANGED <<man, base, mem, op, stage>>
      BY <1>4 DEF SweepTemp, SweepFinal, SweepTears, callVars
    <3>3. ~changed'[p] => ~changed[p]
      BY <1>t, <1>4 DEF SweepTemp, SweepFinal, SweepTears, callVars, StoreType
    <3>4. unvisited'[p].finals \subseteq unvisited[p].finals
      BY <1>t, <1>4 DEF SweepTemp, SweepFinal, SweepTears, callVars, StoreType
    <3>5. \A b \in Boundary \ unvisited[p].finals : final'[b] = final[b]
      BY <1>t, <1>4 DEF SweepTemp, SweepFinal, SweepTears, StoreType
    <3> QED BY <3>1, <3>2, <3>3, <3>4, <3>5
  <2>2. ASSUME NEW b \in mem[p].content.boundaries PROVE b \in Boundary \ unvisited[p].finals
    BY <1>t, <2>1 DEF Recovered, Recovering, Manifest, Content
  <2>3. ASSUME NEW s \in man.pending PROVE s[1] \in mem[p].content.boundaries
    BY <2>1 DEF Recovered, Recovering, Cleaning, Listed
  <2>4. DiskSound'
    BY <2>1, <2>2, <2>3 DEF DiskSound, Recovered, Recovering
  <2>5. Recovered(p)'
    BY <2>1, <2>2 DEF Recovered, Recovering
  <2>6. Published(p)'
    BY <2>1 DEF Published, Working, Recovering
  <2> QED BY <1>g, <2>1, <2>4, <2>5, <2>6
<1>5. CASE RecoverDone(p)
  <2>1. /\ stage[p] = "sweep" /\ man # NoManifest
        /\ man' = mem[p]
        /\ UNCHANGED <<base, final, temp, mem, op>>
        /\ stage'[p] = IF op[p].kind = "open" THEN "done" ELSE "body"
    BY <1>t, <1>5 DEF RecoverDone, At, Goto, StoreType, Recovered, Recovering
  <2>2. /\ mem[p].pending = {} /\ mem[p] # NoManifest
        /\ mem[p].content \in Content /\ man.content \in Content
    BY <1>t, <1>m, <2>1 DEF Cleaning, Listed, StoreType, Manifest
  <2>3. Within(man.content, mem[p].content) /\ Grows
    BY <2>1, <2>2, WithinIff DEF Recovered, Recovering, Grows
  <2>4. DiskSound'
    BY <2>1, <2>2 DEF DiskSound, Recovered, Recovering
  <2>5. Recovered(p)'
    BY <2>1 DEF Recovered, Recovering
  <2>6. op[p].kind # "create"
    BY <1>t, <2>1 DEF HandleOf
  <2>7. Published(p)'
    <3>1. CASE op[p].kind = "open"
      <4>1. op[p].entry = Nothing
        BY <3>1 DEF EntryOf
      <4>2. Within(Nothing, mem[p].content)
        BY <2>2, WithinMerge
      <4> QED BY <2>1, <2>2, <3>1, <4>1, <4>2 DEF Published, Working, Recovering
    <3>2. CASE op[p].kind # "open"
      BY <2>1, <2>2, <2>6, <3>2 DEF Published, Working, Recovering
    <3> QED BY <3>1, <3>2
  <2> QED BY <2>3, <2>4, <2>5, <2>7
<1> QED BY <1>1, <1>2, <1>3, <1>4, <1>5 DEF Recover

(* The fields of the entries.                                              *)
LEMMA EntryFields ==
    /\ \A f : /\ ProfileEntry(f).profiles = {f} /\ ProfileEntry(f).boundaries = {}
              /\ ProfileEntry(f).annotations = {} /\ ProfileEntry(f).coordinates = {}
    /\ \A b : /\ BoundaryEntry(b).profiles = {} /\ BoundaryEntry(b).boundaries = {b}
              /\ BoundaryEntry(b).annotations = {} /\ BoundaryEntry(b).coordinates = {}
    /\ \A n : /\ AnnotationEntry(n).profiles = {} /\ AnnotationEntry(n).boundaries = {}
              /\ AnnotationEntry(n).annotations = {n} /\ AnnotationEntry(n).coordinates = {}
    /\ \A c : /\ CoordinatesEntry(c).profiles = {} /\ CoordinatesEntry(c).boundaries = {}
              /\ CoordinatesEntry(c).annotations = {} /\ CoordinatesEntry(c).coordinates = {c}
BY DEF ProfileEntry, BoundaryEntry, AnnotationEntry, CoordinatesEntry, Nothing

(* A call that adds its entry to the manifest on disk: the entry is all    *)
(* that is new, and it is complete.                                        *)
LEMMA EntrySound ==
    ASSUME BaseInv, DiskSound, NEW p \in Proc, Published(p),
           stage[p] \in Working \ Recovering, op[p].kind # "create",
           NEW d \in SUBSET Temp, d \subseteq man.pending,
           man' = [content |-> Merge(mem[p].content, op[p].entry), pending |-> d],
           UNCHANGED <<base, final, temp, op>>, stage'[p] = "done",
           \A f \in op[p].entry.profiles : base[f] = "whole",
           \A b \in op[p].entry.boundaries :
              final[b] = "whole" /\ b[1] \in man.content.profiles
    PROVE  DiskSound' /\ Grows /\ Recovered(p)' /\ Published(p)'
<1>1. /\ man # NoManifest /\ mem[p] = man /\ man \in Manifest
      /\ man.content \in Content /\ op[p].entry \in Content
  BY DEF Published, BaseInv, TInv, StoreType, Manifest
<1>2. man' \in Manifest /\ man' # NoManifest
  <2>1. Merge(mem[p].content, op[p].entry) \in Content
    BY <1>1, MergeType
  <2> QED BY <2>1, StoreConstants DEF Manifest
<1>3. man'.content = Merge(man.content, op[p].entry) /\ man'.pending = d
  BY <1>1
<1>4. Grows /\ Within(op[p].entry, man'.content)
  BY <1>1, <1>3, <1>2, WithinMerge DEF Grows
<1>5. /\ man'.content.profiles = man.content.profiles \cup op[p].entry.profiles
      /\ man'.content.boundaries = man.content.boundaries \cup op[p].entry.boundaries
  BY <1>3 DEF Merge
<1>6. DiskSound'
  BY <1>1, <1>3, <1>5 DEF DiskSound
<1> QED BY <1>2, <1>4, <1>6 DEF Recovered, Published, Working, Recovering

LEMMA BodySound ==
    ASSUME BaseInv, DiskSound, NEW p \in Proc, Cleaning(p), EntryOf(p), Recovered(p),
           Published(p), Body(p)
    PROVE  DiskSound' /\ Grows /\ Recovered(p)' /\ Published(p)'
<1>t. StoreType /\ mem[p] \in Manifest /\ op[p].entry \in Content
  <2>1. Busy(p) /\ StoreType /\ HandleOf(p)
    BY InnerSteps DEF BaseInv, TInv, HandleInv, Inner
  <2> QED BY <2>1 DEF HandleOf, StoreType
<1>m. NoManifest \notin Manifest
  BY StoreConstants
<1>g. ASSUME man' = man PROVE Grows
  <2> SUFFICES ASSUME man # NoManifest PROVE man' # NoManifest /\ Within(man.content, man'.content)
    BY DEF Grows
  <2>1. man.content \in Content
    BY <1>t DEF StoreType, Manifest
  <2> QED BY <1>g, <2>1, WithinMerge
<1>c. ASSUME stage[p] = "body", op[p].kind # "create"
      PROVE  /\ mem[p] = man /\ man # NoManifest /\ man.pending = {}
             /\ \A b \in Boundary : Registered(p, b) /\ final[b] # "none" =>
                    b \in man.content.boundaries
  BY <1>c DEF Cleaning, Clean, Published, Working, Recovering
<1>b. ASSUME op[p].kind = "cache"
      PROVE  \E b \in Boundary : op[p].entry.boundaries = {b} /\ op[p].entry.profiles = {}
  BY <1>b, EntryFields DEF EntryOf
<1>1. CASE CreateBody(p)
  <2>1. /\ op[p].kind = "create" /\ mem[p] = Fresh /\ op[p].entry = Nothing
        /\ man = NoManifest /\ man' = Fresh /\ stage'[p] = "done" /\ op' = op
    BY <1>t, <1>1 DEF CreateBody, At, Write, Goto, StoreType, Published, EntryOf
  <2>2. Fresh # NoManifest /\ Within(Nothing, Nothing)
    BY <1>t, <1>m, <2>1, EntryType, WithinMerge
  <2>3. DiskSound' /\ Grows
    BY <2>1 DEF DiskSound, Grows, Fresh, Nothing
  <2>4. Recovered(p)' /\ Published(p)'
    BY <2>1, <2>2 DEF Recovered, Published, Working, Recovering, Fresh
  <2> QED BY <2>3, <2>4
<1>2. CASE RegisterBase(p)
  <2>1. /\ op[p].kind = "register" /\ stage[p] \in {"body", "basing"}
        /\ UNCHANGED <<man, final, temp, mem, op>>
    BY <1>2 DEF RegisterBase, At
  <2>2. PICK f \in Profile : op[p].entry.profiles = {f}
    BY <2>1, EntryFields DEF EntryOf
  <2>3. /\ mem[p] = man /\ man # NoManifest /\ man.pending = {}
    BY <1>c, <2>1 DEF Published, Working, Recovering
  <2>4. CASE stage[p] = "body"
    <3>1. /\ f \notin man.content.profiles
          /\ base' = [base EXCEPT ![f] = "partial"] /\ stage'[p] = "basing"
      BY <1>t, <1>2, <2>2, <2>3, <2>4 DEF RegisterBase, At, Goto, StoreType
    <3>2. DiskSound'
      BY <1>t, <2>1, <2>3, <3>1 DEF DiskSound, StoreType, Manifest, Content
    <3>3. Recovered(p)' /\ Published(p)'
      BY <2>1, <2>3, <3>1 DEF Recovered, Published, Working, Recovering
    <3> QED BY <1>g, <2>1, <3>2, <3>3
  <2>5. CASE stage[p] = "basing"
    <3>1. base' = [base EXCEPT ![f] = "whole"] /\ stage'[p] = "based"
      BY <1>t, <1>2, <2>2, <2>5 DEF RegisterBase, At, Goto, StoreType
    <3>2. base' \in [Profile -> DirState] /\ base'[f] = "whole"
          /\ \A e \in Profile : base[e] = "whole" => base'[e] = "whole"
      BY <1>t, <3>1 DEF StoreType, DirState
    <3>3. DiskSound'
      BY <1>t, <2>1, <2>3, <3>2 DEF DiskSound, StoreType, Manifest, Content
    <3>4. Recovered(p)' /\ Published(p)'
      BY <2>1, <2>2, <2>3, <3>1, <3>2 DEF Recovered, Published, Working, Recovering
    <3> QED BY <1>g, <2>1, <3>3, <3>4
  <2> QED BY <2>1, <2>4, <2>5
<1>3. CASE RegisterIndex(p) \/ AnnotateBody(p) \/ CoordinatesBody(p)
  <2>1. WriteEntry(p)
    BY <1>3 DEF RegisterIndex, AnnotateBody, CoordinatesBody
  <2>2. /\ stage[p] \in Working \ Recovering /\ op[p].kind # "create"
        /\ stage[p] = "based" => op[p].kind = "register"
        /\ stage[p] # "based" => op[p].kind \in {"annotate", "coordinates"}
    BY <1>3 DEF RegisterIndex, AnnotateBody, CoordinatesBody, At, Published, Working, Recovering
  <2>3. mem[p] = man
    BY <2>2 DEF Published
  <2>4. /\ man' = [content |-> Merge(mem[p].content, op[p].entry), pending |-> man.pending]
        /\ UNCHANGED <<base, final, temp, op>> /\ stage'[p] = "done"
    BY <1>t, <2>1, <2>3 DEF WriteEntry, Write, Goto, StoreType
  <2>5. /\ op[p].entry.boundaries = {}
        /\ \A f \in op[p].entry.profiles : base[f] = "whole"
    <3>1. CASE stage[p] = "based"
      <4>1. op[p].entry.boundaries = {}
        BY <2>2, <3>1, EntryFields DEF EntryOf
      <4> QED BY <3>1, <4>1 DEF Published
    <3>2. CASE stage[p] # "based"
      BY <2>2, <3>2, EntryFields DEF EntryOf
    <3> QED BY <3>1, <3>2
  <2>6. man.pending \in SUBSET Temp
    BY <1>t, <2>3 DEF Manifest
  <2> QED BY <2>2, <2>4, <2>5, <2>6, EntrySound
<1>4. CASE AlreadyThere(p)
  <2>1. /\ stage[p] = "body" /\ op[p].kind \in {"cache", "coordinates"}
        /\ UNCHANGED <<man, base, final, temp, mem, op>> /\ stage'[p] = "done"
    BY <1>t, <1>4 DEF AlreadyThere, At, Goto, StoreType, diskVars
  <2>2. Within(op[p].entry, man.content) /\ man # NoManifest
    <3>1. mem[p] = man /\ man # NoManifest /\ man.content \in Content
      BY <1>t, <1>c, <2>1 DEF Manifest
    <3>2. CASE op[p].kind = "cache"
      <4>1. PICK b \in Boundary : op[p].entry = BoundaryEntry(b)
        BY <3>2 DEF EntryOf
      <4>2. b \in man.content.boundaries
        BY <1>4, <3>1, <3>2, <4>1, EntryFields DEF AlreadyThere
      <4> QED BY <1>t, <3>1, <4>1, <4>2, EntryFields, WithinIff
    <3>3. CASE op[p].kind = "coordinates"
      <4>1. PICK c \in Coordinates : op[p].entry = CoordinatesEntry(c)
        BY <3>3 DEF EntryOf
      <4>2. {c} = man.content.coordinates
        BY <1>4, <3>1, <3>3, <4>1, EntryFields DEF AlreadyThere
      <4> QED BY <1>t, <3>1, <4>1, <4>2, EntryFields, WithinIff
    <3> QED BY <2>1, <3>2, <3>3
  <2>3. DiskSound'
    BY <2>1 DEF DiskSound
  <2>4. Recovered(p)' /\ Published(p)'
    BY <2>1, <2>2 DEF Recovered, Published, Working, Recovering
  <2> QED BY <1>g, <2>1, <2>3, <2>4
<1>5. CASE CacheStage(p)
  <2>1. /\ stage[p] = "body" /\ op[p].kind = "cache" /\ stage'[p] = "staged"
        /\ UNCHANGED <<man, base, final, mem, op>>
    BY <1>t, <1>5 DEF CacheStage, At, Goto, StoreType
  <2>2. PICK b \in Boundary : op[p].entry.boundaries = {b}
    BY <1>b, <2>1
  <2>3. /\ temp' = [temp EXCEPT ![<<b, p>>] = "partial"]
        /\ Registered(p, b) /\ b \notin mem[p].content.boundaries
    BY <1>5, <2>2 DEF CacheStage
  <2>4. /\ mem[p] = man /\ man # NoManifest /\ man.pending = {}
        /\ final[b] = "none" /\ b[1] \in man.content.profiles
    BY <1>c, <2>1, <2>3 DEF Registered
  <2>5. temp'[<<b, p>>] = "partial"
    BY <1>t, <2>3 DEF StoreType, Temp
  <2>6. DiskSound'
    BY <2>1, <2>4 DEF DiskSound
  <2>7. Recovered(p)' /\ Published(p)'
    BY <2>1, <2>2, <2>4, <2>5 DEF Recovered, Published, Working, Recovering
  <2> QED BY <1>g, <2>1, <2>6, <2>7
<1>6. CASE CachePrepare(p)
  <2>1. /\ stage[p] = "staged" /\ stage'[p] = "prepared"
        /\ UNCHANGED <<man, base, final, mem, op>>
    BY <1>t, <1>6 DEF CachePrepare, At, Goto, StoreType
  <2>2. /\ op[p].kind = "cache" /\ mem[p] = man /\ man # NoManifest /\ man.pending = {}
    BY <2>1 DEF Published, Working, Recovering
  <2>3. PICK b \in Boundary : op[p].entry.boundaries = {b}
    BY <1>b, <2>2
  <2>4. /\ temp[<<b, p>>] = "partial" /\ final[b] = "none" /\ b[1] \in man.content.profiles
    BY <2>1, <2>3 DEF Published
  <2>5. temp'[<<b, p>>] = "whole"
    BY <1>t, <1>6, <2>3, <2>4 DEF CachePrepare, StoreType, Temp
  <2>6. DiskSound'
    BY <2>1, <2>2 DEF DiskSound
  <2>7. Recovered(p)' /\ Published(p)'
    BY <2>1, <2>2, <2>3, <2>4, <2>5 DEF Recovered, Published, Working, Recovering
  <2> QED BY <1>g, <2>1, <2>6, <2>7
<1>7. CASE CacheJournal(p)
  <2>1. /\ stage[p] = "prepared" /\ stage'[p] = "journaled"
        /\ UNCHANGED <<base, final, temp, op>>
    BY <1>t, <1>7 DEF CacheJournal, At, Goto, StoreType
  <2>2. /\ op[p].kind = "cache" /\ mem[p] = man /\ man # NoManifest /\ man.pending = {}
    BY <2>1 DEF Published, Working, Recovering
  <2>3. PICK b \in Boundary : op[p].entry.boundaries = {b}
    BY <1>b, <2>2
  <2>4. /\ temp[<<b, p>>] = "whole" /\ final[b] = "none" /\ b[1] \in man.content.profiles
    BY <2>1, <2>3 DEF Published
  <2>5. man' = [content |-> man.content, pending |-> {<<b, p>>}] /\ mem'[p] = man'
    BY <1>t, <1>7, <2>2, <2>3 DEF CacheJournal, Write, StoreType
  <2>6. /\ man'.content = man.content /\ man'.pending = {<<b, p>>} /\ man' # NoManifest
        /\ man.content \in Content
    <3>1. man.content \in Content /\ {<<b, p>>} \in SUBSET Temp
      BY <1>t, <2>2 DEF Manifest, Temp
    <3>2. [content |-> man.content, pending |-> {<<b, p>>}] \in Manifest
      BY <3>1 DEF Manifest
    <3> QED BY <1>m, <2>5, <3>1, <3>2
  <2>7. Grows
    BY <2>6, WithinMerge DEF Grows
  <2>8. DiskSound'
    BY <2>1, <2>2, <2>4, <2>6 DEF DiskSound
  <2>9. Recovered(p)' /\ Published(p)'
    BY <2>1, <2>2, <2>3, <2>4, <2>5, <2>6 DEF Recovered, Published, Working, Recovering
  <2> QED BY <2>7, <2>8, <2>9
<1>8. CASE CachePublish(p)
  <2>1. /\ stage[p] = "journaled" /\ stage'[p] = "published"
        /\ UNCHANGED <<man, base, mem, op>>
    BY <1>t, <1>8 DEF CachePublish, At, Goto, StoreType
  <2>2. /\ op[p].kind = "cache" /\ mem[p] = man /\ man # NoManifest
    BY <2>1 DEF Published, Working, Recovering
  <2>3. PICK b \in Boundary : op[p].entry.boundaries = {b}
    BY <1>b, <2>2
  <2>4. /\ temp[<<b, p>>] = "whole" /\ b[1] \in man.content.profiles
        /\ \A t \in man.pending : t[1] = b
    BY <2>1, <2>3 DEF Published
  <2>5. \A a \in Boundary : final'[a] = IF a = b THEN "whole" ELSE final[a]
    BY <1>t, <1>8, <2>3, <2>4 DEF CachePublish, StoreType
  <2>6. man.content.boundaries \subseteq Boundary
    BY <1>t, <2>2 DEF Manifest, Content
  <2>7. DiskSound'
    BY <2>1, <2>2, <2>4, <2>5, <2>6 DEF DiskSound
  <2>8. Recovered(p)' /\ Published(p)'
    BY <2>1, <2>2, <2>3, <2>4, <2>5 DEF Recovered, Published, Working, Recovering
  <2> QED BY <1>g, <2>1, <2>7, <2>8
<1>9. CASE CacheIndex(p)
  <2>1. stage[p] = "published"
    BY <1>9 DEF CacheIndex, At
  <2>2. /\ op[p].kind = "cache" /\ mem[p] = man /\ stage[p] \in Working \ Recovering
    BY <2>1 DEF Published, Working, Recovering
  <2> DEFINE left == {t \in mem[p].pending : t[1] \notin op[p].entry.boundaries}
  <2>3. left \in SUBSET Temp /\ left \subseteq man.pending
    BY <1>t, <2>2 DEF Manifest
  <2>4. /\ man' = [content |-> Merge(mem[p].content, op[p].entry), pending |-> left]
        /\ UNCHANGED <<base, final, temp, op>> /\ stage'[p] = "done"
    BY <1>t, <1>9 DEF CacheIndex, Write, Goto, StoreType
  <2>5. /\ op[p].entry.profiles = {}
        /\ \A b \in op[p].entry.boundaries :
              final[b] = "whole" /\ b[1] \in man.content.profiles
    BY <1>b, <2>1, <2>2 DEF Published
  <2> HIDE DEF left
  <2> QED BY <2>2, <2>3, <2>4, <2>5, EntrySound
<1> QED BY <1>1, <1>2, <1>3, <1>4, <1>5, <1>6, <1>7, <1>8, <1>9 DEF Body

(* Outside the bodies only the calls themselves change.                    *)
LEMMA OuterSound ==
    ASSUME BaseInv, DiskSound, NEW p \in Proc, Recovered(p), Published(p), Outer(p)
    PROVE  DiskSound' /\ Grows /\ Recovered(p)' /\ Published(p)'
<1>t. StoreType
  BY DEF BaseInv, TInv
<1>d. UNCHANGED <<man, base, final, temp>>
  BY OuterSteps DEF diskVars
<1>1. DiskSound'
  BY <1>d DEF DiskSound
<1>2. Grows
  <2> SUFFICES ASSUME man # NoManifest PROVE man' # NoManifest /\ Within(man.content, man'.content)
    BY DEF Grows
  <2>1. man.content \in Content
    BY <1>t DEF StoreType, Manifest
  <2> QED BY <1>d, <2>1, WithinMerge
<1>3. CASE Start(p) \/ Acquire(p) \/ Release(p)
  <2>1. UNCHANGED callVars
    BY <1>3 DEF Start, Acquire, Release, UnchangedStore
  <2> QED BY <1>d, <1>1, <1>2, <2>1 DEF callVars, Recovered, Published
<1>4. CASE CallCreate(p) \/ CallOpen(p) \/ CallMutation(p)
  <2>1. \E k, e, h : Call(p, k, e, h) /\ (k = "create" => h = Fresh)
    BY <1>4 DEF CallCreate, CallOpen, CallMutation, Mutate
  <2>2. stage'[p] = "locking" /\ (op'[p].kind = "create" => mem'[p] = Fresh)
    BY <1>t, <2>1 DEF Call, StoreType
  <2> QED BY <1>1, <1>2, <2>2 DEF Recovered, Published, Working, Recovering
<1>5. CASE Return(p) \/ Die(p)
  <2>1. stage'[p] = "idle"
    BY <1>t, <1>5 DEF Return, Die, StoreType
  <2> QED BY <1>1, <1>2, <2>1 DEF Recovered, Published, Working, Recovering
<1> QED BY <1>3, <1>4, <1>5 DEF Outer

LEMMA InnerSound ==
    ASSUME BaseInv, DiskSound, NEW p \in Proc, Cleaning(p), EntryOf(p), OpensAlone(p),
           Recovered(p), Published(p), Inner(p)
    PROVE  DiskSound' /\ Grows /\ Recovered(p)' /\ Published(p)'
<1>t. StoreType
  BY DEF BaseInv, TInv
<1>g. ASSUME man' = man PROVE Grows
  <2> SUFFICES ASSUME man # NoManifest PROVE man' # NoManifest /\ Within(man.content, man'.content)
    BY DEF Grows
  <2>1. man.content \in Content
    BY <1>t DEF StoreType, Manifest
  <2> QED BY <1>g, <2>1, WithinMerge
<1>1. CASE Raise(p)
  <2>1. /\ UNCHANGED <<man, base, final>> /\ stage'[p] = "raised"
    BY <1>t, <1>1 DEF Raise, Goto, StoreType
  <2>2. DiskSound'
    <3>1. CASE stage[p] \in {"staged", "prepared"}
      <4>1. man.pending = {}
        BY <3>1 DEF Published
      <4> QED BY <2>1, <4>1 DEF DiskSound
    <3>2. CASE stage[p] \notin {"staged", "prepared"}
      <4>1. temp' = temp
        BY <1>1, <3>2 DEF Raise
      <4> QED BY <2>1, <4>1 DEF DiskSound
    <3> QED BY <3>1, <3>2
  <2>3. Recovered(p)' /\ Published(p)'
    BY <2>1 DEF Recovered, Published, Working, Recovering
  <2> QED BY <1>g, <2>1, <2>2, <2>3
<1>2. CASE Leave(p)
  <2>1. UNCHANGED <<man, base, final, temp, mem, op, stage, unvisited, changed>>
    BY <1>2 DEF Leave, UnchangedStore, diskVars, callVars
  <2> QED BY <1>g, <2>1 DEF DiskSound, Recovered, Published
<1> QED BY <1>1, <1>2, RecoverSound, BodySound DEF Inner

(* What callers are told is what their calls have put on disk.             *)
LEMMA DurableStep ==
    ASSUME BaseInv, NEW p \in Proc, Outer(p) \/ Inner(p), Grows, Durable, Published(p)
    PROVE  Durable'
<1>t. /\ StoreType /\ StoreType'
      /\ acked \in Content /\ acked' \in Content /\ op[p].entry \in Content
      /\ man # NoManifest => man.content \in Content
      /\ man' # NoManifest => man'.content \in Content
  <2>1. StoreType /\ StoreType'
    BY StoreTypeStep DEF BaseInv, TInv, Next, Step, Outer, Inner
  <2> QED BY <2>1 DEF StoreType, Manifest
<1>1. CASE acked' = acked
  <2>1. CASE man = NoManifest
    BY <1>1, <1>t, <2>1, WithinMerge DEF Durable
  <2>2. CASE man # NoManifest
    BY <1>1, <1>t, <2>2, WithinTrans DEF Durable, Grows
  <2> QED BY <2>1, <2>2
<1>2. CASE acked' # acked
  <2>1. acked' = acked \/ Return(p)
    BY DEF Outer, Inner, Start, Acquire, Release, Leave, UnchangedStore, CallCreate, CallOpen,
       CallMutation, Mutate, Call, Die, Recover, Load, RecoverPending, RecoverScan, SweepTemp,
       SweepFinal, SweepTears, RecoverDone, Body, CreateBody, RegisterBase, RegisterIndex,
       AnnotateBody, CoordinatesBody, AlreadyThere, CacheStage, CachePrepare, CacheJournal,
       CachePublish, CacheIndex, WriteEntry, Raise
  <2>2. /\ stage[p] = "done" /\ acked' = Merge(acked, op[p].entry) /\ man' = man
    BY <1>2, <2>1 DEF Return, diskVars
  <2>3. man # NoManifest /\ Within(op[p].entry, man.content)
    BY <2>2 DEF Published
  <2>4. Within(acked, man.content)
    BY <2>3 DEF Durable
  <2>5. Within(acked', man'.content)
    BY <1>t, <2>2, <2>3, <2>4, WithinMerge
  <2> QED BY <2>2, <2>3, <2>5 DEF Durable
<1> QED BY <1>1, <1>2

LEMMA EntryStep ==
    ASSUME BaseInv, \A q \in Proc : EntryOf(q), NEW p \in Proc, Outer(p) \/ Inner(p)
    PROVE  \A q \in Proc : EntryOf(q)'
<1>t. op \in [Proc -> [kind : Kinds, entry : Content]]
  BY DEF BaseInv, TInv, StoreType
<1>1. CASE op' = op
  BY <1>1 DEF EntryOf
<1>2. CASE CallCreate(p) \/ CallOpen(p) \/ CallMutation(p)
  <2>1. EntryOf(p)'
    <3>1. CASE CallCreate(p) \/ CallOpen(p)
      <4>1. op'[p].kind \in {"create", "open"} /\ op'[p].entry = Nothing
        BY <1>t, <3>1 DEF CallCreate, CallOpen, Call
      <4> QED BY <4>1 DEF EntryOf
    <3>2. CASE CallMutation(p)
      <4>1. ASSUME NEW k, NEW e, Mutate(p, k, e) PROVE op'[p].kind = k /\ op'[p].entry = e
        BY <1>t, <4>1 DEF Mutate, Call
      <4>2. CASE \E f \in Profile : Mutate(p, "register", ProfileEntry(f))
        BY <4>1, <4>2 DEF EntryOf
      <4>3. CASE \E b \in Boundary : Mutate(p, "cache", BoundaryEntry(b))
        BY <4>1, <4>3 DEF EntryOf
      <4>4. CASE \E n \in Annotation : Mutate(p, "annotate", AnnotationEntry(n))
        BY <4>1, <4>4 DEF EntryOf
      <4>5. CASE \E c \in Coordinates : Mutate(p, "coordinates", CoordinatesEntry(c))
        BY <4>1, <4>5 DEF EntryOf
      <4> QED BY <3>2, <4>2, <4>3, <4>4, <4>5 DEF CallMutation
    <3> QED BY <1>2, <3>1, <3>2
  <2>2. OthersStay(p)
    BY <1>2, OuterSteps DEF Outer
  <2> QED BY <2>1, <2>2 DEF EntryOf, OthersStay
<1>3. CASE Return(p) \/ Die(p)
  <2>1. EntryOf(p)'
    BY <1>t, <1>3 DEF Return, Die, NoOp, EntryOf
  <2>2. OthersStay(p)
    BY <1>3, OuterSteps DEF Outer
  <2> QED BY <2>1, <2>2 DEF EntryOf, OthersStay
<1>4. op' = op \/ CallCreate(p) \/ CallOpen(p) \/ CallMutation(p) \/ Return(p) \/ Die(p)
  BY DEF Outer, Inner, Start, Acquire, Release, Leave, UnchangedStore, callVars,
     Recover, Load, RecoverPending, RecoverScan, SweepTemp,
     SweepFinal, SweepTears, RecoverDone, Body, CreateBody, RegisterBase, RegisterIndex,
     AnnotateBody, CoordinatesBody, AlreadyThere, CacheStage, CachePrepare, CacheJournal,
     CachePublish, CacheIndex, WriteEntry, Raise
<1> QED BY <1>1, <1>2, <1>3, <1>4

LEMMA SoundStep == BaseInv /\ CleanInv /\ SoundInv /\ [Next]_storeVars => SoundInv'
<1> SUFFICES ASSUME BaseInv, CleanInv, SoundInv, [Next]_storeVars, Undisturbed'
             PROVE  Sound'
  BY DEF SoundInv
<1>0. Exclusive /\ Undisturbed /\ Sound /\ Linked /\ \A q \in Proc : Cleaning(q)
  BY UndisturbedBack DEF SoundInv, CleanInv
<1>1. ASSUME NEW p \in Proc, Outer(p) \/ Inner(p) PROVE Sound'
  <2>1. DiskSound' /\ Grows /\ Recovered(p)' /\ Published(p)'
    BY <1>0, <1>1, OuterSound, InnerSound DEF Sound
  <2>2. \A q \in Proc : Recovered(q)' /\ Published(q)'
    <3>1. ASSUME NEW q \in Proc, q # p PROVE Recovered(q)' /\ Published(q)'
      BY <1>0, <1>1, <2>1, <3>1, SoundFrame DEF Sound
    <3> QED BY <2>1, <3>1
  <2>3. Durable'
    BY <1>0, <1>1, <2>1, DurableStep DEF Sound
  <2>4. \A q \in Proc : EntryOf(q)'
    BY <1>0, <1>1, EntryStep DEF Sound
  <2>5. \A q \in Proc : OpensAlone(q)'
    BY <1>0, <1>1, OpensStep DEF Sound
  <2> QED BY <2>1, <2>2, <2>3, <2>4, <2>5 DEF Sound
<1>2. CASE UNCHANGED storeVars
  <2>1. UNCHANGED <<man, base, final, temp, mem, op, stage, unvisited, changed, acked>>
    BY <1>2 DEF storeVars, diskVars, callVars
  <2> QED BY <1>0, <2>1 DEF Sound, DiskSound, Durable, EntryOf, OpensAlone, Busy, Recovered, Published
<1> QED BY <1>1, <1>2, Steps DEF AllGone

LEMMA SoundHolds == Spec => []SoundInv
<1>1. Init => SoundInv
  BY DEF Init, SoundInv, Sound, DiskSound, Durable, EntryOf, OpensAlone, Recovered, Published,
     Busy, NoOp, Working, Recovering
<1> QED BY <1>1, SoundStep, BaseHolds, CleanHolds, PTL DEF Spec

(* Whatever replay.json lists can be restored, at any moment and after any *)
(* crash, failure or interrupted removal: always when processes live one   *)
(* after the other; when they live together, until the first death and as  *)
(* long as nobody opens the artifact while another one uses it.            *)
THEOREM Restorables == Spec => [](Undisturbed => IndexedRestorable)
<1>1. SoundInv => (Undisturbed => IndexedRestorable)
  BY DEF SoundInv, Sound, DiskSound, IndexedRestorable, Restorable
<1> QED BY <1>1, SoundHolds, PTL

(* Under the same conditions a journaled publication can be completed, and *)
(* whoever comes next has completed it or removed it.                      *)
THEOREM Recovers == Spec => [](Undisturbed => JournalRecovers)
<1>1. SoundInv /\ CleanInv => (Undisturbed => JournalRecovers)
  BY DEF SoundInv, Sound, DiskSound, JournalRecovers, JournalCompletable, CleanInv, Undisturbed,
     Exclusive, Cleaning, Clean, RecoveredClean, At
<1> QED BY <1>1, SoundHolds, CleanHolds, PTL

(* Under the same conditions what callers were told the artifact holds is  *)
(* on disk.                                                                *)
THEOREM Acknowledged == Spec => [](Undisturbed => AcknowledgedDurable)
<1>1. SoundInv => (Undisturbed => AcknowledgedDurable)
  BY DEF SoundInv, Sound, Durable, AcknowledgedDurable
<1> QED BY <1>1, SoundHolds, PTL

-----------------------------------------------------------------------------
(* Handles, however old.                                                   *)

(* A boundary that was found in replay.json, or added by a recovery, at any*)
(* time before: its directory is complete, and replay.json lists it or has *)
(* it in its journal, so that no later recovery removes it.                *)
Held(b) == /\ man # NoManifest /\ b[1] \in man.content.profiles
           /\ final[b] = "whole"
           /\ b \in man.content.boundaries \/ \E t \in man.pending : t[1] = b

HandleSound(p) == mem[p] # NoManifest => \A b \in mem[p].content.boundaries : Held(b)

HandlesInv == Undisturbed => \A p \in Proc : HandleSound(p)

LEMMA GrowsLists ==
    ASSUME BaseInv, man \in Manifest, StoreType', Grows
    PROVE  /\ man' # NoManifest
           /\ man.content.profiles \subseteq man'.content.profiles
           /\ man.content.boundaries \subseteq man'.content.boundaries
<1>1. man # NoManifest /\ man.content \in Content
  BY StoreConstants DEF Manifest
<1>2. man' # NoManifest /\ Within(man.content, man'.content)
  BY <1>1 DEF Grows
<1>3. man'.content \in Content
  BY <1>2 DEF StoreType, Manifest
<1> QED BY <1>1, <1>2, <1>3, WithinIff

(* No recovery removes a boundary that is held.                            *)
LEMMA HeldRecover ==
    ASSUME BaseInv, DiskSound, NEW p \in Proc, Cleaning(p), Recovered(p), Recover(p), Grows,
           NEW b \in Boundary, Held(b)
    PROVE  Held(b)'
<1>t. StoreType /\ StoreType' /\ man \in Manifest
  <2>1. StoreType /\ StoreType'
    BY RecoverType DEF BaseInv, TInv
  <2> QED BY <2>1 DEF Held, StoreType
<1>1. /\ man' # NoManifest /\ b[1] \in man'.content.profiles
      /\ b \in man.content.boundaries => b \in man'.content.boundaries
  BY <1>t, GrowsLists DEF Held
<1>2. CASE Load(p) \/ RecoverScan(p)
  <2>1. man' = man /\ final' = final
    BY <1>2 DEF Load, RecoverScan, diskVars
  <2> QED BY <2>1 DEF Held
<1>3. CASE RecoverPending(p)
  <2>1. man' = man
    BY <1>3 DEF RecoverPending
  <2>2. PICK t \in mem[p].pending :
          final' = IF ~HasStateJson(final[t[1]]) /\ HasStateJson(temp[t]) /\ final[t[1]] = "none"
                   THEN [final EXCEPT ![t[1]] = temp[t]] ELSE final
    BY <1>3 DEF RecoverPending
  <2>3. final'[b] = "whole"
    BY <1>t, <2>2 DEF Held, StoreType
  <2> QED BY <2>1, <2>3 DEF Held
<1>4. ASSUME stage[p] = "sweep"
      PROVE  b \in mem[p].content.boundaries /\ b \notin unvisited[p].finals
  <2>1. /\ man.content.boundaries \subseteq mem[p].content.boundaries
        /\ \A t \in man.pending \ mem[p].pending : t[1] \in mem[p].content.boundaries
        /\ unvisited[p].finals \cap mem[p].content.boundaries = {}
    BY <1>4 DEF Recovered, Recovering
  <2>2. mem[p].pending = {}
    BY <1>4 DEF Cleaning, Listed
  <2> QED BY <2>1, <2>2 DEF Held
<1>5. CASE SweepTemp(p) \/ SweepFinal(p) \/ SweepTears(p)
  <2>1. stage[p] = "sweep" /\ man' = man
    BY <1>5 DEF SweepTemp, SweepFinal, SweepTears, At
  <2>2. \A a \in Boundary \ unvisited[p].finals : final'[a] = final[a]
    BY <1>t, <1>5 DEF SweepTemp, SweepFinal, SweepTears, StoreType
  <2>3. final'[b] = "whole"
    BY <1>4, <2>1, <2>2 DEF Held
  <2> QED BY <2>1, <2>3 DEF Held
<1>6. CASE RecoverDone(p)
  <2>1. stage[p] = "sweep" /\ final' = final /\ man' = IF changed[p] THEN mem[p] ELSE man
    BY <1>6 DEF RecoverDone, At
  <2>2. b \in man'.content.boundaries
    <3>1. ~changed[p] => mem[p] = man
      BY <2>1 DEF Recovered, Recovering
    <3> QED BY <1>4, <2>1, <3>1
  <2> QED BY <1>1, <2>1, <2>2 DEF Held
<1> QED BY <1>2, <1>3, <1>5, <1>6 DEF Recover

(* Nor does a body: what leaves the journal is in the index.               *)
LEMMA HeldBody ==
    ASSUME BaseInv, NEW p \in Proc, Published(p), Body(p), Grows, NEW b \in Boundary, Held(b)
    PROVE  Held(b)'
<1>t. StoreType /\ StoreType' /\ man \in Manifest
  <2>1. StoreType /\ StoreType'
    BY BodyType DEF BaseInv, TInv
  <2> QED BY <2>1 DEF Held, StoreType
<1>1. /\ man' # NoManifest /\ b[1] \in man'.content.profiles
      /\ b \in man.content.boundaries => b \in man'.content.boundaries
  BY <1>t, GrowsLists DEF Held
<1>2. final'[b] = "whole"
  <2>1. CASE CachePublish(p)
    <3>1. stage[p] = "journaled"
      BY <2>1 DEF CachePublish, At
    <3>2. PICK a \in op[p].entry.boundaries : final[a] = "none" /\ final' = [final EXCEPT ![a] = temp[<<a, p>>]]
      BY <2>1 DEF CachePublish
    <3> QED BY <1>t, <3>2 DEF Held, StoreType
  <2>2. CASE ~CachePublish(p)
    <3>1. final' = final
      BY <2>2 DEF Body, CreateBody, RegisterBase, RegisterIndex, AnnotateBody, CoordinatesBody,
         AlreadyThere, CacheStage, CachePrepare, CacheJournal, CacheIndex, WriteEntry, diskVars
    <3> QED BY <3>1 DEF Held
  <2> QED BY <2>1, <2>2
<1>3. ASSUME man.pending \subseteq man'.pending PROVE Held(b)'
  BY <1>1, <1>2, <1>3 DEF Held
<1>4. CASE CreateBody(p)
  BY <1>4 DEF CreateBody, Held
<1>5. CASE RegisterBase(p) \/ AlreadyThere(p) \/ CacheStage(p) \/ CachePrepare(p) \/ CachePublish(p)
  <2>1. man' = man
    BY <1>5 DEF RegisterBase, AlreadyThere, CacheStage, CachePrepare, CachePublish, diskVars
  <2> QED BY <1>3, <2>1
<1>6. CASE RegisterIndex(p) \/ AnnotateBody(p) \/ CoordinatesBody(p) \/ CacheJournal(p)
  <2>1. mem[p] = man
    BY <1>6 DEF RegisterIndex, AnnotateBody, CoordinatesBody, CacheJournal, At, Published,
       Working, Recovering
  <2>2. mem[p].pending \subseteq man'.pending
    BY <1>6 DEF RegisterIndex, AnnotateBody, CoordinatesBody, CacheJournal, WriteEntry, Write
  <2> QED BY <1>3, <2>1, <2>2
<1>7. CASE CacheIndex(p)
  <2>1. mem[p] = man
    BY <1>7 DEF CacheIndex, At, Published, Working, Recovering
  <2>2. /\ man'.content = Merge(man.content, op[p].entry)
        /\ man'.pending = {t \in man.pending : t[1] \notin op[p].entry.boundaries}
    BY <1>7, <2>1 DEF CacheIndex, Write
  <2>3. \A t \in man.pending : t \in man'.pending \/ t[1] \in man'.content.boundaries
    BY <2>2 DEF Merge
  <2> QED BY <1>1, <1>2, <2>3 DEF Held
<1> QED BY <1>4, <1>5, <1>6, <1>7 DEF Body

(* Where a handle's manifest comes from.                                   *)
LEMMA HandleFrom ==
    ASSUME BaseInv, NEW p \in Proc, Outer(p) \/ Inner(p)
    PROVE  \/ mem'[p] \in {mem[p], NoManifest, Fresh, man'}
           \/ stage'[p] = "recover"
<1>t. StoreType /\ StoreType'
  BY StoreTypeStep DEF BaseInv, TInv, Next, Step, Outer, Inner
<1>1. CASE CallCreate(p) \/ CallOpen(p) \/ CallMutation(p)
  <2>1. \E k, e, h : Call(p, k, e, h) /\ h \in {Fresh, man, mem[p]}
    BY <1>1 DEF CallCreate, CallOpen, CallMutation, Mutate
  <2> QED BY <1>t, <2>1 DEF Call, StoreType, diskVars
<1>2. CASE Return(p) \/ Die(p)
  BY <1>t, <1>2 DEF Return, Die, StoreType
<1>3. CASE Start(p) \/ Acquire(p) \/ Release(p) \/ Raise(p) \/ Leave(p)
  BY <1>3 DEF Start, Acquire, Release, Raise, Leave, UnchangedStore, callVars
<1>4. CASE Recover(p)
  <2>1. CASE Load(p)
    BY <1>t, <2>1 DEF Load, StoreType, diskVars
  <2>2. CASE RecoverPending(p)
    BY <2>2 DEF RecoverPending, At
  <2> QED BY <1>4, <2>1, <2>2 DEF Recover, RecoverScan, SweepTemp, SweepFinal, SweepTears,
          RecoverDone, callVars
<1>5. CASE Body(p)
  BY <1>t, <1>5, BodyWrites DEF BaseInv, StoreType
<1> QED BY <1>1, <1>2, <1>3, <1>4, <1>5 DEF Outer, Inner

LEMMA HandlesStep ==
    BaseInv /\ CleanInv /\ SoundInv /\ HandlesInv /\ [Next]_storeVars => HandlesInv'
<1> SUFFICES ASSUME BaseInv, CleanInv, SoundInv, HandlesInv, [Next]_storeVars, Undisturbed'
             PROVE  \A q \in Proc : HandleSound(q)'
  BY DEF HandlesInv
<1>0. /\ Exclusive /\ Undisturbed /\ Sound /\ Linked
      /\ \A q \in Proc : Cleaning(q) /\ HandleSound(q)
  BY UndisturbedBack DEF SoundInv, CleanInv, HandlesInv
<1>1. Sound' /\ StoreType /\ StoreType'
  BY SoundStep, StoreTypeStep DEF SoundInv, BaseInv, TInv
<1>m. NoManifest \notin Manifest
  BY StoreConstants
<1>2. ASSUME NEW p \in Proc, Outer(p) \/ Inner(p) PROVE \A q \in Proc : HandleSound(q)'
  <2>1. Grows
    BY <1>0, <1>2, OuterSound, InnerSound DEF Sound
  <2>2. ASSUME NEW b \in Boundary, Held(b) PROVE Held(b)'
    <3>1. CASE Recover(p)
      BY <1>0, <2>1, <2>2, <3>1, HeldRecover DEF Sound
    <3>2. CASE Body(p)
      BY <1>0, <2>1, <2>2, <3>2, HeldBody DEF Sound
    <3>3. CASE Outer(p) \/ Raise(p) \/ Leave(p)
      <4>1. man' = man /\ final' = final
        BY <3>3, OuterSteps DEF Raise, Leave, UnchangedStore, diskVars
      <4> QED BY <2>2, <4>1 DEF Held
    <3> QED BY <1>2, <3>1, <3>2, <3>3 DEF Inner
  <2>3. ASSUME NEW q \in Proc, mem'[q] = mem[q] PROVE HandleSound(q)'
    <3> SUFFICES ASSUME mem[q] # NoManifest, NEW b \in mem[q].content.boundaries PROVE Held(b)'
      BY <2>3 DEF HandleSound
    <3>1. b \in Boundary
      BY <1>1 DEF StoreType, Manifest, Content
    <3>2. Held(b)
      BY <1>0 DEF HandleSound
    <3> QED BY <2>2, <3>1, <3>2
  <2>4. HandleSound(p)'
    <3>1. CASE mem'[p] = mem[p]
      BY <2>3, <3>1
    <3>2. CASE mem'[p] \in {NoManifest, Fresh}
      BY <3>2 DEF HandleSound, Fresh, Nothing
    <3>3. CASE mem'[p] = man'
      BY <1>1, <3>3 DEF HandleSound, Held, Sound, DiskSound
    <3>4. CASE stage'[p] = "recover"
      <4>1. Recovered(p)'
        BY <1>1 DEF Sound
      <4> QED BY <3>4, <4>1 DEF HandleSound, Held, Recovered, Recovering
    <3> QED BY <1>2, <3>1, <3>2, <3>3, <3>4, HandleFrom
  <2> QED BY <1>2, <2>3, <2>4, OuterSteps, InnerSteps DEF OthersStay
<1>3. CASE UNCHANGED storeVars
  <2>1. UNCHANGED <<man, final, mem>>
    BY <1>3 DEF storeVars, diskVars, callVars
  <2> QED BY <1>0, <2>1 DEF HandleSound, Held
<1> QED BY <1>2, <1>3, Steps DEF AllGone

(* Under the same conditions no handle of an idle process, however old its *)
(* manifest, lists a boundary that somebody else's recovery has removed,   *)
(* or whose base is gone.                                                  *)
THEOREM HandlesHold == Spec => []HandlesKept
<1>1. Init => HandlesInv
  BY DEF Init, HandlesInv, HandleSound
<1>2. SoundInv /\ HandlesInv => HandlesKept
  BY DEF SoundInv, Sound, DiskSound, HandlesInv, HandleSound, Held, HandlesRestorable, HandlesKept,
         Restorable
<1> QED BY <1>1, <1>2, HandlesStep, SoundHolds, CleanHolds, BaseHolds, PTL DEF Spec

-----------------------------------------------------------------------------
(* The store implements the catalogue.                                     *)

(* What the catalogue sees of replay.json, and its vocabulary, which is    *)
(* the store's.                                                            *)
Durability == IF man = NoManifest THEN Nothing ELSE man.content

LEMMA SameContent ==
    /\ Catalog!Nothing = Nothing
    /\ \A c, d : Catalog!Merge(c, d) = Merge(c, d)
    /\ \A c, d : Catalog!Within(c, d) <=> Within(c, d)
    /\ \A e : e \in Catalog!Entry <=> e \in Entry
<1>1. Catalog!Nothing = Nothing
  BY DEF Nothing, Catalog!Nothing
<1>2. \A c, d : Catalog!Merge(c, d) = Merge(c, d)
  BY DEF Merge, Catalog!Merge
<1>3. \A c, d : Catalog!Within(c, d) <=> Within(c, d)
  BY <1>2 DEF Within, Catalog!Within
<1>4. \A e : e \in Catalog!Entry <=> e \in Entry
  BY <1>1 DEF Entry, Catalog!Entry, Catalog!Boundary, Boundary,
     ProfileEntry, BoundaryEntry, AnnotationEntry, CoordinatesEntry, Catalog!ProfileEntry,
     Catalog!BoundaryEntry, Catalog!AnnotationEntry, Catalog!CoordinatesEntry
<1> QED BY <1>1, <1>2, <1>3, <1>4

(* Contents with the same members are the same.                            *)
LEMMA SameMembers ==
    ASSUME NEW c \in Content, NEW d \in Content,
           c.profiles = d.profiles, c.boundaries = d.boundaries,
           c.annotations = d.annotations, c.coordinates = d.coordinates
    PROVE  c = d
BY DEF Content

(* A call that adds an entry, or already finds it.                         *)
LEMMA EntryCommits ==
    ASSUME BaseInv, man \in Manifest, man' \in Manifest,
           NEW e \in Entry, man'.content = Merge(man.content, e), acked' = acked,
           \A b \in e.boundaries : b[1] \in man.content.profiles,
           e.coordinates # {} => man.content.coordinates = {}
    PROVE  [Catalog!Next]_<<Durability, acked>>
<1>1. /\ man # NoManifest /\ man' # NoManifest /\ man.content \in Content
      /\ Durability = man.content /\ Durability' = man'.content
  BY StoreConstants DEF Durability, Manifest
<1>2. e \in Content
  BY EntryType DEF Entry
<1>3. CASE Within(e, man.content)
  <2>1. man'.content = man.content
    <3>1. Merge(man.content, e) \in Content
      BY <1>1, <1>2, MergeType
    <3>2. /\ e.profiles \subseteq man.content.profiles
          /\ e.boundaries \subseteq man.content.boundaries
          /\ e.annotations \subseteq man.content.annotations
          /\ e.coordinates \subseteq man.content.coordinates
      BY <1>1, <1>2, <1>3, WithinIff
    <3>3. /\ Merge(man.content, e).profiles = man.content.profiles
          /\ Merge(man.content, e).boundaries = man.content.boundaries
          /\ Merge(man.content, e).annotations = man.content.annotations
          /\ Merge(man.content, e).coordinates = man.content.coordinates
      BY <3>2 DEF Merge
    <3> QED BY <1>1, <3>1, <3>3, SameMembers
  <2> QED BY <1>1, <2>1
<1>4. CASE ~Within(e, man.content)
  <2>1. Catalog!Commit(e)
    BY <1>1, <1>4, SameContent DEF Catalog!Commit, Catalog!Admissible
  <2> QED BY <2>1, SameContent DEF Catalog!Next
<1> QED BY <1>3, <1>4

(* Every call has the entry it adds, or nothing.                           *)
LEMMA EntryKnown == ASSUME NEW p \in Proc, EntryOf(p)
                    PROVE  op[p].entry \in Entry \cup {Nothing}
<1>1. CASE op[p].kind = "register"
  BY <1>1 DEF EntryOf, Entry
<1>2. CASE op[p].kind = "cache"
  BY <1>2 DEF EntryOf, Entry
<1>3. CASE op[p].kind = "annotate"
  BY <1>3 DEF EntryOf, Entry
<1>4. CASE op[p].kind = "coordinates"
  BY <1>4 DEF EntryOf, Entry
<1>5. CASE op[p].kind \notin {"register", "cache", "annotate", "coordinates"}
  BY <1>5 DEF EntryOf
<1> QED BY <1>1, <1>2, <1>3, <1>4, <1>5

(* The end of a recovery adds the one boundary that was journaled, if any. *)
LEMMA RecoverCommits ==
    ASSUME BaseInv, DiskSound, NEW p \in Proc, Recovered(p), RecoverDone(p)
    PROVE  [Catalog!Next]_<<Durability, acked>>
<1>1. /\ stage[p] = "sweep" /\ man # NoManifest
      /\ man' = mem[p] /\ acked' = acked
  BY DEF RecoverDone, At, Recovered, Recovering
<1>2. man \in Manifest /\ mem[p] \in Manifest /\ mem[p] # NoManifest
  BY <1>1, StoreConstants DEF BaseInv, TInv, StoreType, HandleInv, HandleOf, Busy
<1>3. man.content \in Content /\ mem[p].content \in Content
  BY <1>2 DEF Manifest
<1> DEFINE c == mem[p].content
<1>4. /\ c.profiles = man.content.profiles /\ c.annotations = man.content.annotations
      /\ c.coordinates = man.content.coordinates
      /\ man.content.boundaries \subseteq c.boundaries
      /\ \A b \in c.boundaries : b[1] \in c.profiles
      /\ \A b \in c.boundaries \ man.content.boundaries : \E t \in man.pending : t[1] = b
  BY <1>1 DEF Recovered, Recovering
<1>5. CASE c.boundaries = man.content.boundaries
  <2>1. c = man.content
    BY <1>3, <1>4, <1>5, SameMembers
  <2> QED BY <1>1, <1>2, <2>1 DEF Durability
<1>6. CASE c.boundaries # man.content.boundaries
  <2>1. PICK b \in c.boundaries : b \notin man.content.boundaries
    BY <1>4, <1>6
  <2>2. \A a \in c.boundaries \ man.content.boundaries : a = b
    BY <1>1, <1>4, <2>1 DEF DiskSound
  <2>3. b \in Boundary /\ BoundaryEntry(b) \in Entry /\ BoundaryEntry(b) \in Content
    <3>1. b \in Boundary
      BY <1>3, <2>1 DEF Content
    <3> QED BY <3>1, EntryType DEF Entry
  <2>4. c.boundaries = man.content.boundaries \cup {b}
    BY <1>4, <2>1, <2>2
  <2>5. c = Merge(man.content, BoundaryEntry(b))
    <3>1. Merge(man.content, BoundaryEntry(b)) \in Content
      BY <1>3, <2>3, MergeType
    <3>2. /\ Merge(man.content, BoundaryEntry(b)).profiles = man.content.profiles
          /\ Merge(man.content, BoundaryEntry(b)).boundaries = man.content.boundaries \cup {b}
          /\ Merge(man.content, BoundaryEntry(b)).annotations = man.content.annotations
          /\ Merge(man.content, BoundaryEntry(b)).coordinates = man.content.coordinates
      BY EntryFields DEF Merge
    <3> QED BY ZenonT(40), <1>3, <1>4, <2>4, <3>1, <3>2, SameMembers
  <2>6. /\ \A a \in BoundaryEntry(b).boundaries : a[1] \in man.content.profiles
        /\ BoundaryEntry(b).coordinates = {}
    BY <1>4, <2>1, EntryFields
  <2>7. man' \in Manifest /\ man'.content = Merge(man.content, BoundaryEntry(b))
    BY <1>1, <1>2, <2>5
  <2> QED BY <1>1, <1>2, <2>3, <2>6, <2>7, EntryCommits
<1> QED BY <1>5, <1>6

LEMMA BodyCommits ==
    ASSUME BaseInv, NEW p \in Proc, EntryOf(p), Published(p), Cleaning(p), Body(p)
    PROVE  [Catalog!Next]_<<Durability, acked>>
<1>t. /\ StoreType /\ mem[p] \in Manifest /\ op[p].entry \in Content
      /\ man' \in Manifest \cup {NoManifest}
  <2>1. Busy(p) /\ StoreType /\ HandleOf(p)
    BY InnerSteps DEF BaseInv, TInv, HandleInv, Inner
  <2>2. StoreType'
    BY BodyType DEF BaseInv
  <2> QED BY <2>1, <2>2 DEF HandleOf, StoreType
<1>a. acked' = acked
  BY DEF Body, CreateBody, RegisterBase, RegisterIndex, AnnotateBody, CoordinatesBody,
     AlreadyThere, CacheStage, CachePrepare, CacheJournal, CachePublish, CacheIndex, WriteEntry
<1>1. CASE CreateBody(p)
  <2>1. man = NoManifest /\ man' = Fresh
    BY <1>1 DEF CreateBody, At, Write, Published
  <2> QED BY <1>a, <2>1 DEF Durability, Fresh
<1>2. CASE RegisterBase(p) \/ AlreadyThere(p) \/ CacheStage(p) \/ CachePrepare(p) \/ CachePublish(p)
  <2>1. man' = man
    BY <1>2 DEF RegisterBase, AlreadyThere, CacheStage, CachePrepare, CachePublish, diskVars
  <2> QED BY <1>a, <2>1 DEF Durability
<1>3. CASE CacheJournal(p)
  <2>1. mem[p] = man /\ man # NoManifest
    BY <1>3 DEF CacheJournal, At, Published, Working, Recovering
  <2>2. man'.content = man.content
    BY <1>3, <2>1 DEF CacheJournal, Write
  <2>3. man' # NoManifest
    <3>1. PICK b \in op[p].entry.boundaries :
            man' = [content |-> mem[p].content, pending |-> mem[p].pending \cup {<<b, p>>}]
      BY <1>3 DEF CacheJournal, Write
    <3>2. mem[p].content \in Content /\ mem[p].pending \cup {<<b, p>>} \in SUBSET Temp
      BY <1>t DEF Manifest, Temp, Content
    <3>3. [content |-> mem[p].content, pending |-> mem[p].pending \cup {<<b, p>>}] \in Manifest
      BY <3>2 DEF Manifest
    <3> QED BY <3>1, <3>3, StoreConstants
  <2> QED BY <1>a, <2>1, <2>2, <2>3 DEF Durability
<1>4. CASE RegisterIndex(p) \/ AnnotateBody(p) \/ CoordinatesBody(p) \/ CacheIndex(p)
  <2>1. /\ mem[p] = man /\ man # NoManifest
        /\ op[p].kind \in {"register", "annotate", "coordinates", "cache"}
    BY <1>4 DEF RegisterIndex, AnnotateBody, CoordinatesBody, CacheIndex, At, Published,
       Working, Recovering
  <2>2. op[p].entry \in Entry
    BY <2>1 DEF EntryOf, Entry
  <2>3. PICK d \in SUBSET Temp : man' = [content |-> Merge(man.content, op[p].entry), pending |-> d]
    <3>1. CASE CacheIndex(p)
      <4>1. {t \in mem[p].pending : t[1] \notin op[p].entry.boundaries} \in SUBSET Temp
        BY <1>t DEF Manifest
      <4> QED BY <2>1, <3>1, <4>1 DEF CacheIndex, Write
    <3>2. CASE RegisterIndex(p) \/ AnnotateBody(p) \/ CoordinatesBody(p)
      <4>1. WriteEntry(p) /\ mem[p].pending \in SUBSET Temp
        BY <1>t, <3>2 DEF RegisterIndex, AnnotateBody, CoordinatesBody, Manifest
      <4> QED BY <2>1, <4>1 DEF WriteEntry, Write
    <3> QED BY <1>4, <3>1, <3>2
  <2>4. man \in Manifest /\ man' \in Manifest /\ man'.content = Merge(man.content, op[p].entry)
    <3>1. Merge(man.content, op[p].entry) \in Content
      BY <1>t, <2>1, MergeType DEF Manifest
    <3> QED BY <1>t, <2>1, <2>3, <3>1 DEF Manifest
  <2>5. \A b \in op[p].entry.boundaries : b[1] \in man.content.profiles
    <3>1. CASE CacheIndex(p)
      BY <3>1 DEF CacheIndex, At, Published
    <3>2. CASE RegisterIndex(p) \/ AnnotateBody(p) \/ CoordinatesBody(p)
      <4>1. op[p].kind \in {"register", "annotate", "coordinates"}
        BY <3>2 DEF RegisterIndex, AnnotateBody, CoordinatesBody, At, Published
      <4> QED BY <4>1, EntryFields DEF EntryOf
    <3> QED BY <1>4, <3>1, <3>2
  <2>6. op[p].entry.coordinates # {} => man.content.coordinates = {}
    <3>1. CASE CoordinatesBody(p)
      BY <2>1, <3>1 DEF CoordinatesBody
    <3>2. CASE RegisterIndex(p) \/ AnnotateBody(p) \/ CacheIndex(p)
      <4>1. op[p].kind \in {"register", "annotate", "cache"}
        BY <3>2 DEF RegisterIndex, AnnotateBody, CacheIndex, At, Published
      <4> QED BY <4>1, EntryFields DEF EntryOf
    <3> QED BY <1>4, <3>1, <3>2
  <2> QED BY <1>a, <2>2, <2>4, <2>5, <2>6, EntryCommits
<1> QED BY <1>1, <1>2, <1>3, <1>4 DEF Body

LEMMA CatalogStep ==
    BaseInv /\ CleanInv /\ SoundInv /\ Undisturbed /\ Exclusive /\ [Next]_storeVars
        => [Catalog!Next]_<<Durability, acked>>
<1> SUFFICES ASSUME BaseInv, CleanInv, SoundInv, Undisturbed, Exclusive, [Next]_storeVars
             PROVE  [Catalog!Next]_<<Durability, acked>>
  OBVIOUS
<1>0. Sound /\ \A q \in Proc : Cleaning(q)
  BY DEF SoundInv, CleanInv
<1>s. ASSUME man' = man, acked' = acked PROVE [Catalog!Next]_<<Durability, acked>>
  BY <1>s DEF Durability
<1>1. ASSUME NEW p \in Proc, Return(p) PROVE [Catalog!Next]_<<Durability, acked>>
  <2>1. man' = man
    BY <1>1 DEF Return, diskVars
  <2>2. CASE stage[p] # "done"
    BY <1>1, <1>s, <2>1, <2>2 DEF Return
  <2>3. CASE stage[p] = "done"
    <3>1. /\ acked' = Merge(acked, op[p].entry) /\ man # NoManifest
          /\ Within(op[p].entry, man.content)
      BY <1>0, <1>1, <2>3 DEF Return, Sound, Published
    <3>2. CASE op[p].entry = Nothing
      <4>1. Merge(acked, Nothing) = acked
        <5>1. acked \in Content /\ Merge(acked, Nothing) \in Content
          BY MergeType, EntryType DEF BaseInv, TInv, StoreType
        <5> QED BY <5>1, SameMembers DEF Merge, Nothing
      <4> QED BY <1>s, <2>1, <3>1, <3>2, <4>1
    <3>3. CASE op[p].entry \in Entry
      <4>1. Durability = man.content /\ Durability' = Durability
        BY <2>1, <3>1 DEF Durability
      <4>2. Catalog!Acknowledge(op[p].entry)
        BY <3>1, <4>1, SameContent DEF Catalog!Acknowledge, Durability
      <4> QED BY <3>3, <4>2, SameContent DEF Catalog!Next
    <3> QED BY <1>0, <3>2, <3>3, EntryKnown DEF Sound
  <2> QED BY <2>2, <2>3
<1>2. ASSUME NEW p \in Proc, Outer(p), ~Return(p) PROVE [Catalog!Next]_<<Durability, acked>>
  <2>1. man' = man
    BY <1>2, OuterSteps DEF diskVars
  <2>2. acked' = acked
    BY <1>2 DEF Outer, Start, Acquire, Release, UnchangedStore, CallCreate, CallOpen,
       CallMutation, Mutate, Call, Die
  <2> QED BY <1>s, <2>1, <2>2
<1>3. ASSUME NEW p \in Proc, Inner(p) PROVE [Catalog!Next]_<<Durability, acked>>
  <2>1. CASE RecoverDone(p)
    BY <1>0, <2>1, RecoverCommits DEF Sound
  <2>2. CASE Body(p)
    BY <1>0, <2>2, BodyCommits DEF Sound
  <2>3. CASE Load(p) \/ RecoverPending(p) \/ RecoverScan(p) \/ SweepTemp(p) \/ SweepFinal(p)
             \/ SweepTears(p) \/ Raise(p) \/ Leave(p)
    <3>1. man' = man /\ acked' = acked
      BY <2>3 DEF Load, RecoverPending, RecoverScan, SweepTemp, SweepFinal, SweepTears, Raise,
         Leave, UnchangedStore, diskVars
    <3> QED BY <1>s, <3>1
  <2> QED BY <1>3, <2>1, <2>2, <2>3 DEF Inner, Recover
<1>4. CASE UNCHANGED storeVars
  BY <1>4, <1>s DEF storeVars, diskVars
<1> QED BY <1>1, <1>2, <1>3, <1>4, Steps DEF AllGone

(* The artifact is the atomic, durable catalogue it promises to be in      *)
(* every behaviour in which nothing disturbs it: its entries appear one at *)
(* a time, each as a whole, none is lost, and what callers were told is    *)
(* there.                                                                  *)
THEOREM CatalogKept == Spec /\ []Undisturbed => ImplementsCatalog
<1>1. Init => Catalog!Init
  BY SameContent DEF Init, Catalog!Init
<1>2. Undisturbed => Exclusive
  BY DEF Undisturbed, Exclusive
<1>3. [Catalog!Next]_<<Durability, acked>> => [Catalog!Next]_Catalog!catalogVars
  BY DEF Catalog!catalogVars, Durability
<1> QED BY <1>1, <1>2, <1>3, CatalogStep, BaseHolds, CleanHolds, SoundHolds, PTL
        DEF Spec, ImplementsCatalog, Catalog!Spec

(* In particular when processes live one after the other, however many of  *)
(* them die and wherever.                                                  *)
THEOREM SequentialCatalog == ASSUME ~Concurrent PROVE Spec => ImplementsCatalog
<1>1. Spec => []Undisturbed
  <2>1. Undisturbed
    BY DEF Undisturbed
  <2> QED BY <2>1, PTL
<1> QED BY <1>1, CatalogKept, PTL
=============================================================================
