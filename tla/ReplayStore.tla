----------------------------- MODULE ReplayStore -----------------------------
(***************************************************************************)
(* The persistent side of a replay artifact (class ReplayArtifact of       *)
(* src/dos_re/replay.py): the manifest replay.json, the base snapshot and  *)
(* the cached boundaries of each execution profile, and the mutations that *)
(* processes run on them under the lock of module ArtifactLock.            *)
(*                                                                         *)
(* replay.json is always replaced as a whole (_write_json writes a         *)
(* temporary file and renames it).  A boundary is staged in a temporary    *)
(* directory, journaled as pending in the manifest, renamed to its final   *)
(* name and then indexed; every mutation first reloads the manifest and    *)
(* recovers what an interrupted predecessor left.  A process may raise in, *)
(* or die after, any step.                                                 *)
(*                                                                         *)
(* What directories contain is reduced to how complete they are, a state   *)
(* to its being there, an annotation or a coordinate table to a value.     *)
(***************************************************************************)
EXTENDS Naturals, ReplayContent

LOCAL INSTANCE TLC

CONSTANTS
    Proc, Concurrent, MaxDeaths,  \* see ArtifactLock
    OverlappingOpens,             \* environment: may open() overlap other calls?
    NoManifest                    \* replay.json does not exist / no handle

VARIABLES
    lock, lpc, deaths,            \* see ArtifactLock
    man,        \* replay.json
    base,       \* profiles/<profile>/base
    final,      \* profiles/<profile>/boundaries/<point>
    temp,       \* profiles/<profile>/boundaries/.<point>-<uuid>.tmp, by its writer
    mem,        \* ReplayArtifact._manifest of each process's handle
    op,         \* the call each process is executing
    stage,      \* how far it has got
    unvisited,  \* directories _recover_incomplete_publications has yet to visit
    changed,    \* its local variable of that name
    acked       \* history: what callers were told the artifact holds

lockVars == <<lock, lpc, deaths>>
diskVars == <<man, base, final, temp>>
callVars == <<mem, op, stage, unvisited, changed>>
storeVars == <<lockVars, diskVars, callVars, acked>>

L == INSTANCE ArtifactLock

Temp == Boundary \X Proc

Manifest == [content : Content, pending : SUBSET Temp]

ASSUME StoreConstants == /\ OverlappingOpens \in BOOLEAN
                         /\ Concurrent \in BOOLEAN
                         /\ MaxDeaths \in Nat
                         /\ NoManifest \notin Manifest

Fresh == [content |-> Nothing, pending |-> {}]

(* A directory: absent; with some of its payload files; with its state.json*)
(* but not every payload file; complete.  state.json is written last.      *)
DirState == {"none", "partial", "torn", "whole"}
HasStateJson(d) == d \in {"torn", "whole"}

Kinds == {"none", "open", "create", "register", "cache", "annotate", "coordinates"}
NoOp == [kind |-> "none", entry |-> Nothing]

Stages == {"idle", "locking", "recover", "sweep", "body", "basing", "based",
           "staged", "prepared", "journaled", "published", "done", "raised"}

NoChildren == [temps |-> {}, finals |-> {}]

TypeOK ==
    /\ L!TypeOK
    /\ man \in Manifest \cup {NoManifest}
    /\ base \in [Profile -> DirState]
    /\ final \in [Boundary -> DirState]
    /\ temp \in [Temp -> DirState]
    /\ mem \in [Proc -> Manifest \cup {NoManifest}]
    /\ op \in [Proc -> [kind : Kinds, entry : Content]]
    /\ stage \in [Proc -> Stages]
    /\ unvisited \in [Proc -> [temps : SUBSET Temp, finals : SUBSET Boundary]]
    /\ changed \in [Proc -> BOOLEAN]
    /\ acked \in Content

Init == /\ L!Init
        /\ man = NoManifest
        /\ base = [f \in Profile |-> "none"]
        /\ final = [b \in Boundary |-> "none"]
        /\ temp = [t \in Temp |-> "none"]
        /\ mem = [p \in Proc |-> NoManifest]
        /\ op = [p \in Proc |-> NoOp]
        /\ stage = [p \in Proc |-> "idle"]
        /\ unvisited = [p \in Proc |-> NoChildren]
        /\ changed = [p \in Proc |-> FALSE]
        /\ acked = Nothing

Busy(p) == stage[p] # "idle"

-----------------------------------------------------------------------------
(* Calls.                                                                  *)

(* With OverlappingOpens = FALSE the environment opens an artifact only    *)
(* while nobody is using it.                                               *)
MayCall(p, kind) == OverlappingOpens
                    \/ \A q \in Proc \ {p} : Busy(q) => "open" \notin {kind, op[q].kind}

Call(p, kind, entry, handle) ==
    /\ ~Busy(p)
    /\ MayCall(p, kind)
    /\ L!Enter(p)
    /\ op' = [op EXCEPT ![p] = [kind |-> kind, entry |-> entry]]
    /\ stage' = [stage EXCEPT ![p] = "locking"]
    /\ mem' = [mem EXCEPT ![p] = handle]
    /\ UNCHANGED <<diskVars, unvisited, changed, acked>>

(* create() and open() prepare the handle's manifest before the lock: open *)
(* reads replay.json at this point and does not read it again.             *)
CallCreate(p) == man = NoManifest /\ Call(p, "create", Nothing, Fresh)
CallOpen(p) == man # NoManifest /\ Call(p, "open", Nothing, man)

Mutate(p, kind, entry) == mem[p] # NoManifest /\ Call(p, kind, entry, mem[p])

CallMutation(p) ==
    \/ \E f \in Profile : Mutate(p, "register", ProfileEntry(f))
    \/ \E b \in Boundary : Mutate(p, "cache", BoundaryEntry(b))
    \/ \E n \in Annotation : Mutate(p, "annotate", AnnotationEntry(n))
    \/ \E c \in Coordinates :
          Mutate(p, "coordinates", CoordinatesEntry(c))

(* The call comes back: with success, with the exception its body raised,  *)
(* or (still "locking") because the lock was refused.  A caller that gets  *)
(* an exception from create() or open() has no handle.                     *)
Return(p) ==
    /\ lpc[p] = "out"
    /\ Busy(p)
    /\ acked' = IF stage[p] = "done" THEN Merge(acked, op[p].entry) ELSE acked
    /\ mem' = IF stage[p] # "done" /\ op[p].kind \in {"create", "open"}
              THEN [mem EXCEPT ![p] = NoManifest] ELSE mem
    /\ op' = [op EXCEPT ![p] = NoOp]
    /\ stage' = [stage EXCEPT ![p] = "idle"]
    /\ changed' = [changed EXCEPT ![p] = FALSE]
    /\ UNCHANGED <<lockVars, diskVars, unvisited>>

-----------------------------------------------------------------------------
(* The steps of a body, all of them under the lock.                        *)

At(p, s) == L!InBody(p) /\ stage[p] = s
Goto(p, s) == stage' = [stage EXCEPT ![p] = s]

(* _write: the handle's manifest, changed to m, replaces replay.json.      *)
Write(p, m) == man' = m /\ mem' = [mem EXCEPT ![p] = m]

Registered(p, b) == b[1] \in mem[p].content.profiles

-----------------------------------------------------------------------------
(* Faulty variants of steps below: what a plausible slip in the code would *)
(* do.  No specification uses them; each is there to break properties.     *)

(* a mutation that reloads the manifest but does not recover               *)
LoadWithoutRecovery(p) ==
    /\ At(p, "locking")
    /\ mem' = IF op[p].kind \in {"create", "open"} THEN mem ELSE [mem EXCEPT ![p] = man]
    /\ Goto(p, IF op[p].kind = "open" THEN "recover" ELSE "body")
    /\ changed' = [changed EXCEPT ![p] = FALSE]
    /\ UNCHANGED <<lockVars, diskVars, op, unvisited, acked>>

(* reload=False everywhere                                                 *)
LoadWithoutReload(p) ==
    /\ At(p, "locking")
    /\ Goto(p, IF op[p].kind = "create" THEN "body" ELSE "recover")
    /\ changed' = [changed EXCEPT ![p] = FALSE]
    /\ UNCHANGED <<lockVars, diskVars, mem, op, unvisited, acked>>

(* the sweep that does not ask whether a directory is indexed              *)
ScanIndexedToo(p) ==
    /\ At(p, "recover")
    /\ mem[p].pending = {}
    /\ unvisited' = [unvisited EXCEPT ![p] =
          [temps |-> {t \in Temp : Registered(p, t[1]) /\ temp[t] # "none"},
           finals |-> {b \in Boundary : Registered(p, b) /\ final[b] # "none"}]]
    /\ Goto(p, "sweep")
    /\ UNCHANGED <<lockVars, diskVars, mem, op, changed, acked>>

(* coordinates materialised again and again                                *)
CoordinatesOverwrite(p) == /\ At(p, "body") /\ op[p].kind = "coordinates"
                           /\ Write(p, [mem[p] EXCEPT !.content =
                                 [@ EXCEPT !.coordinates = op[p].entry.coordinates]])
                           /\ Goto(p, "done")
                           /\ UNCHANGED <<lockVars, base, final, temp, op, unvisited, changed, acked>>

(* a boundary indexed before its directory is in place                     *)
JournalAsIndex(p) ==
    /\ At(p, "prepared")
    /\ Write(p, [content |-> Merge(mem[p].content, op[p].entry),
                 pending |-> mem[p].pending])
    /\ Goto(p, "journaled")
    /\ UNCHANGED <<lockVars, base, final, temp, op, unvisited, changed, acked>>

(* a journal entry that does not say which directory is staged             *)
JournalWithoutTemp(p) ==
    /\ At(p, "prepared")
    /\ Write(p, [mem[p] EXCEPT !.pending = @ \cup op[p].entry.boundaries])
    /\ Goto(p, "journaled")
    /\ UNCHANGED <<lockVars, base, final, temp, op, unvisited, changed, acked>>

(* cache() cleaning up although its staging directory is journaled         *)
RaiseRemovesJournaled(p) ==
    /\ L!InBody(p)
    /\ stage[p] \notin {"done", "raised"}
    /\ temp' = [t \in Temp |-> IF t[2] = p /\ t[1] \in op[p].entry.boundaries
                               THEN "none" ELSE temp[t]]
    /\ Goto(p, "raised")
    /\ unvisited' = [unvisited EXCEPT ![p] = NoChildren]
    /\ UNCHANGED <<lockVars, man, base, final, mem, op, changed, acked>>

(* no finally around the body                                              *)
LeaveOnSuccess(p) == /\ stage[p] = "done"
                     /\ L!Leave(p)
                     /\ UNCHANGED <<diskVars, callVars, acked>>

-----------------------------------------------------------------------------
(* The manifest is reloaded, except by create() and open().                *)
Load(p) ==
    /\ At(p, "locking")
    /\ mem' = IF op[p].kind \in {"create", "open"} THEN mem ELSE [mem EXCEPT ![p] = man]
    /\ Goto(p, IF op[p].kind = "create" THEN "body" ELSE "recover")
    /\ changed' = [changed EXCEPT ![p] = FALSE]
    /\ UNCHANGED <<lockVars, diskVars, op, unvisited, acked>>

(* _recover_incomplete_publications, one journal entry: the rename is made *)
(* up for if the staged directory is complete, the boundary is indexed if  *)
(* it is in place, and the entry is dropped.  (Entries of several profiles *)
(* may be taken in any order.)                                             *)
RecoverPending(p) ==
    /\ At(p, "recover")
    /\ \E t \in mem[p].pending :
         LET b == t[1]
             staged == ~HasStateJson(final[b]) /\ HasStateJson(temp[t])
             rename == staged /\ final[b] = "none"
         IN  /\ final' = IF rename THEN [final EXCEPT ![b] = temp[t]] ELSE final
             /\ temp' = IF staged THEN [temp EXCEPT ![t] = "none"] ELSE temp
             /\ mem' = [mem EXCEPT ![p] =
                   [content |-> IF HasStateJson(final'[b])
                                THEN Merge(@.content, BoundaryEntry(b)) ELSE @.content,
                    pending |-> @.pending \ {t}]]
    /\ changed' = [changed EXCEPT ![p] = TRUE]
    /\ UNCHANGED <<lockVars, man, base, op, stage, unvisited, acked>>

(* ... then the boundary directories of the profiles it knows are listed ..*)
RecoverScan(p) ==
    /\ At(p, "recover")
    /\ mem[p].pending = {}
    /\ unvisited' = [unvisited EXCEPT ![p] =
          [temps |-> {t \in Temp : Registered(p, t[1]) /\ temp[t] # "none"},
           finals |-> {b \in Boundary : Registered(p, b) /\ final[b] # "none"
                                        /\ b \notin mem[p].content.boundaries}]]
    /\ Goto(p, "sweep")
    /\ UNCHANGED <<lockVars, diskVars, mem, op, changed, acked>>

(* ... staging directories and directories without an index entry go ...   *)
SweepTemp(p) ==
    /\ At(p, "sweep")
    /\ \E t \in unvisited[p].temps :
         /\ temp[t] # "none"
         /\ temp' = [temp EXCEPT ![t] = "none"]
         /\ unvisited' = [unvisited EXCEPT ![p] = [temps |-> @.temps \ {t}, finals |-> @.finals]]
    /\ changed' = [changed EXCEPT ![p] = TRUE]
    /\ UNCHANGED <<lockVars, man, base, final, mem, op, stage, acked>>

SweepFinal(p) ==
    /\ At(p, "sweep")
    /\ \E b \in unvisited[p].finals :
         /\ final' = [final EXCEPT ![b] = "none"]
         /\ unvisited' = [unvisited EXCEPT ![p] = [temps |-> @.temps, finals |-> @.finals \ {b}]]
         /\ changed' = [changed EXCEPT ![p] = changed[p] \/ final[b] # "none"]
    /\ UNCHANGED <<lockVars, man, base, temp, mem, op, stage, acked>>

(* (rmtree takes its time: a complete directory is incomplete for a while, *)
(* for good if the process dies)                                           *)
SweepTears(p) ==
    /\ At(p, "sweep")
    /\ \E d \in {"torn", "partial"} :
         \/ \E t \in unvisited[p].temps : /\ temp[t] = "whole"
                                     /\ temp' = [temp EXCEPT ![t] = d]
                                     /\ UNCHANGED final
         \/ \E b \in unvisited[p].finals : /\ final[b] = "whole"
                                      /\ final' = [final EXCEPT ![b] = d]
                                      /\ UNCHANGED temp
    /\ UNCHANGED <<lockVars, man, base, callVars, acked>>

(* ... and the manifest is written if anything was found.                  *)
RecoverDone(p) ==
    /\ At(p, "sweep")
    /\ unvisited[p] = NoChildren
    /\ man' = IF changed[p] THEN mem[p] ELSE man
    /\ Goto(p, IF op[p].kind = "open" THEN "done" ELSE "body")
    /\ UNCHANGED <<lockVars, base, final, temp, mem, op, unvisited, changed, acked>>

-----------------------------------------------------------------------------
(* create(): the existence check repeated under the lock, then the first   *)
(* manifest.                                                               *)
CreateBody(p) ==
    /\ At(p, "body") /\ op[p].kind = "create"
    /\ man = NoManifest
    /\ Write(p, mem[p])
    /\ Goto(p, "done")
    /\ UNCHANGED <<lockVars, base, final, temp, op, unvisited, changed, acked>>

(* register_profile(): refuse a profile the manifest has, then             *)
(* _write_full_state: mkdir(exist_ok=False) and the payload of the base    *)
(* snapshot, its state.json, and at last the manifest.                     *)
RegisterBase(p) ==
    /\ op[p].kind = "register"
    /\ \E f \in op[p].entry.profiles :
         \/ /\ At(p, "body")
            /\ f \notin mem[p].content.profiles
            /\ base[f] = "none"
            /\ base' = [base EXCEPT ![f] = "partial"]
            /\ Goto(p, "basing")
         \/ /\ At(p, "basing")
            /\ base' = [base EXCEPT ![f] = "whole"]
            /\ Goto(p, "based")
    /\ UNCHANGED <<lockVars, man, final, temp, mem, op, unvisited, changed, acked>>

(* The entry of a call is added to the manifest, and the call is done.     *)
WriteEntry(p) ==
    /\ Write(p, [content |-> Merge(mem[p].content, op[p].entry),
                 pending |-> mem[p].pending])
    /\ Goto(p, "done")
    /\ UNCHANGED <<lockVars, base, final, temp, op, unvisited, changed, acked>>

RegisterIndex(p) == At(p, "based") /\ WriteEntry(p)

(* annotate()                                                              *)
AnnotateBody(p) == At(p, "body") /\ op[p].kind = "annotate" /\ WriteEntry(p)

(* set_timeline_coordinates(): only where there are none yet.              *)
CoordinatesBody(p) == /\ At(p, "body") /\ op[p].kind = "coordinates"
                      /\ mem[p].content.coordinates = {}
                      /\ WriteEntry(p)

(* cache() and set_timeline_coordinates() return False when the manifest   *)
(* already says what the caller asks for.                                  *)
AlreadyThere(p) ==
    /\ At(p, "body")
    /\ \/ op[p].kind = "cache" /\ op[p].entry.boundaries \subseteq mem[p].content.boundaries
       \/ op[p].kind = "coordinates" /\ op[p].entry.coordinates = mem[p].content.coordinates
    /\ Goto(p, "done")
    /\ UNCHANGED <<lockVars, diskVars, mem, op, unvisited, changed, acked>>

(* cache(): require_profile, has_cached, the base is read, mkdir.          *)
CacheStage(p) ==
    /\ At(p, "body") /\ op[p].kind = "cache"
    /\ \E b \in op[p].entry.boundaries :
         /\ Registered(p, b)
         /\ b \notin mem[p].content.boundaries
         /\ base[b[1]] = "whole"
         /\ temp' = [temp EXCEPT ![<<b, p>>] = "partial"]
    /\ Goto(p, "staged")
    /\ UNCHANGED <<lockVars, man, base, final, mem, op, unvisited, changed, acked>>

(* Changed pages, then state.json; their mkdir(parents=True) recreates a   *)
(* staging directory somebody swept away, without the pages it had.        *)
CachePrepare(p) ==
    /\ At(p, "staged")
    /\ \E b \in op[p].entry.boundaries, d \in {"whole", "torn"} :
         /\ temp[<<b, p>>] = "partial" => d = "whole"
         /\ temp' = [temp EXCEPT ![<<b, p>>] = d]
    /\ Goto(p, "prepared")
    /\ UNCHANGED <<lockVars, man, base, final, mem, op, unvisited, changed, acked>>

CacheJournal(p) ==
    /\ At(p, "prepared")
    /\ \E b \in op[p].entry.boundaries :
          Write(p, [content |-> mem[p].content,
                    pending |-> mem[p].pending \cup {<<b, p>>}])
    /\ Goto(p, "journaled")
    /\ UNCHANGED <<lockVars, base, final, temp, op, unvisited, changed, acked>>

(* os.replace(temp, final), unless final exists.                           *)
CachePublish(p) ==
    /\ At(p, "journaled")
    /\ \E b \in op[p].entry.boundaries :
         /\ final[b] = "none"
         /\ temp[<<b, p>>] # "none"
         /\ final' = [final EXCEPT ![b] = temp[<<b, p>>]]
         /\ temp' = [temp EXCEPT ![<<b, p>>] = "none"]
    /\ Goto(p, "published")
    /\ UNCHANGED <<lockVars, man, base, mem, op, unvisited, changed, acked>>

CacheIndex(p) ==
    /\ At(p, "published")
    /\ Write(p, [content |-> Merge(mem[p].content, op[p].entry),
                 pending |-> {t \in mem[p].pending : t[1] \notin op[p].entry.boundaries}])
    /\ Goto(p, "done")
    /\ UNCHANGED <<lockVars, base, final, temp, op, unvisited, changed, acked>>

Body(p) == \/ CreateBody(p) \/ RegisterBase(p) \/ RegisterIndex(p)
           \/ AnnotateBody(p) \/ CoordinatesBody(p) \/ AlreadyThere(p)
           \/ CacheStage(p) \/ CachePrepare(p) \/ CacheJournal(p)
           \/ CachePublish(p) \/ CacheIndex(p)

Recover(p) == \/ Load(p) \/ RecoverPending(p) \/ RecoverScan(p)
              \/ SweepTemp(p) \/ SweepFinal(p) \/ SweepTears(p) \/ RecoverDone(p)

(* A body raises: a check of the code fails (a guard above is false), the  *)
(* file system refuses, the user interrupts.  cache() removes its staging  *)
(* directory on the way out unless it has been journaled.                  *)
Raise(p) ==
    /\ L!InBody(p)
    /\ stage[p] \notin {"idle", "done", "raised"}
    /\ temp' = IF stage[p] \in {"staged", "prepared"}
               THEN [t \in Temp |-> IF t[2] = p /\ t[1] \in op[p].entry.boundaries
                                    THEN "none" ELSE temp[t]]
               ELSE temp
    /\ Goto(p, "raised")
    /\ unvisited' = [unvisited EXCEPT ![p] = NoChildren]
    /\ UNCHANGED <<lockVars, man, base, final, mem, op, changed, acked>>

-----------------------------------------------------------------------------
(* The lock's own steps leave the store alone.                             *)
UnchangedStore == UNCHANGED <<diskVars, callVars, acked>>

Start(p) == L!Start(p) /\ UnchangedStore
Acquire(p) == L!Acquire(p) /\ UnchangedStore
Leave(p) == stage[p] \in {"done", "raised"} /\ L!Leave(p) /\ UnchangedStore
Release(p) == L!Release(p) /\ UnchangedStore

(* A process dies: its memory is gone, the disk is as it left it.          *)
Die(p) == /\ L!Die(p)
          /\ mem' = [mem EXCEPT ![p] = NoManifest]
          /\ op' = [op EXCEPT ![p] = NoOp]
          /\ stage' = [stage EXCEPT ![p] = "idle"]
          /\ unvisited' = [unvisited EXCEPT ![p] = NoChildren]
          /\ changed' = [changed EXCEPT ![p] = FALSE]
          /\ UNCHANGED <<diskVars, acked>>

AllGone == Proc = {p \in Proc : lpc[p] = "dead"} /\ UNCHANGED storeVars

Step(p) == Acquire(p) \/ Recover(p) \/ Body(p) \/ Raise(p) \/ Leave(p) \/ Release(p) \/ Return(p)

Next == \/ \E p \in Proc : \/ Start(p) \/ CallCreate(p) \/ CallOpen(p) \/ CallMutation(p)
                           \/ Step(p) \/ Die(p)
        \/ AllGone

Fairness == \A p \in Proc : WF_storeVars(Step(p))

Spec == Init /\ [][Next]_storeVars /\ Fairness

-----------------------------------------------------------------------------
(* What the manifest on disk, or a handle, lists can be restored: the      *)
(* directory of the boundary and the base it is relative to are complete.  *)
Restorable(m) == m # NoManifest =>
    \A b \in m.content.boundaries : final[b] = "whole" /\ base[b[1]] = "whole"

(* At any time, in particular after a crash at any step, every boundary    *)
(* replay.json lists is restorable (restore() needs every page it names).  *)
IndexedRestorable == Restorable(man)

(* open() reads the manifest it goes on with before it has the lock: what  *)
(* relies on it needs that nobody else uses the artifact meanwhile, and a  *)
(* process that dies in open() must not leave its successor's to overlap.  *)
Undisturbed == ~Concurrent \/ (deaths = 0 /\ ~OverlappingOpens)

(* Unless disturbed so, an idle handle, whose manifest may be old, never   *)
(* lists a boundary that somebody else's recovery has removed, or whose    *)
(* base is gone.                                                           *)
HandlesRestorable == \A p \in Proc : ~Busy(p) => Restorable(mem[p])
HandlesKept == Undisturbed => HandlesRestorable

(* A journaled publication can always be brought to its end: its complete  *)
(* directory is on disk under one of its two names.                        *)
JournalCompletable ==
    man # NoManifest => \A t \in man.pending : "whole" \in {temp[t], final[t[1]]}

(* Whoever starts to mutate the artifact works on the current manifest and *)
(* finds no trace of an interrupted publication in any registered profile: *)
(* no journal entry, no staging directory and no boundary directory that   *)
(* is not indexed.                                                         *)
(* replay.py:1715: "Finish or discard cache publications interrupted at any*)
(* stage."                                                                 *)
RecoveredClean ==
    \A p \in Proc : At(p, "body") /\ op[p].kind # "create" =>
        /\ mem[p] = man
        /\ man.pending = {}
        /\ \A t \in Temp : Registered(p, t[1]) => temp[t] = "none"
        /\ \A b \in Boundary :
              Registered(p, b) /\ final[b] # "none" => b \in man.content.boundaries

(* Both: whatever step of a publication a crash or a failure cut short, it *)
(* can be completed, and whoever comes next has completed or removed it.   *)
JournalRecovers == JournalCompletable /\ RecoveredClean

(* What callers have been told is there is there, and stays.               *)
(* replay.py:1656: "tooling gets a precise failure instead of silently     *)
(* interleaving two manifests".                                            *)
AcknowledgedDurable == man = NoManifest \/ Within(acked, man.content)

(* The artifact is an atomic, durable catalogue, whatever crashes and      *)
(* failures come in between.                                               *)
Catalog == INSTANCE ReplayCatalog
              WITH durable <- IF man = NoManifest THEN Nothing ELSE man.content

ImplementsCatalog == Catalog!Spec

(* No call hangs: it returns, raises, or its process dies.                 *)
CallReturns == \A p \in Proc : Busy(p) ~> ~Busy(p)

-----------------------------------------------------------------------------
(* For TLC: processes, and the points of a profile, are interchangeable.   *)
(* Used only where no liveness property is checked.                        *)
Symmetry == Permutations(Proc) \cup Permutations(Point)
=============================================================================
