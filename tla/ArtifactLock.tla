---------------------------- MODULE ArtifactLock ----------------------------
(***************************************************************************)
(* The writer lock of a replay artifact: ReplayArtifact._locked_mutation   *)
(* and ReplayArtifact._reclaim_stale_lock in src/dos_re/replay.py.         *)
(*                                                                         *)
(* Every mutation of an artifact is bracketed by a lock file created with  *)
(* O_CREAT|O_EXCL that names its owner's pid and a fresh token.  The lock  *)
(* does not wait: a mutation that finds the file is rejected, unless the   *)
(* file names a dead process of this host, in which case it is unlinked    *)
(* and the creation tried once more.  One step of the module is one system *)
(* call, so two processes interleave between the read of an owner and the  *)
(* unlink that follows it, and a process may die between any two.          *)
(*                                                                         *)
(* A process is one pid: it lives once, and its pid is not reused.  A      *)
(* process runs one mutation at a time, so the owner stands for the token. *)
(***************************************************************************)
EXTENDS Naturals

CONSTANTS
    Proc,        \* the processes of one host that ever touch the artifact
    Concurrent,  \* environment: may several of them live at the same time?
    MaxDeaths    \* bound: how many of them die (a crash, a kill or an exit)

ASSUME LockConstants == /\ Concurrent \in BOOLEAN
                        /\ MaxDeaths \in Nat

VARIABLES
    lock,        \* the lock file, or Free when there is none
    lpc,         \* where each process stands in _locked_mutation
    deaths       \* how many processes have died

lockVars == <<lock, lpc, deaths>>

Free == [owner |-> {}, readable |-> FALSE]

(* The file is created empty and its payload is written afterwards: until  *)
(* then, or if the writer dies in between, _read_json cannot read it.      *)
LockFile(p, r) == [owner |-> {p}, readable |-> r]

PCs == {"unborn", "out", "create", "inspect", "unlink", "recreate",
        "write", "holding", "check", "drop", "dead"}

TypeOK == /\ lock \in {Free} \cup [owner : {{p} : p \in Proc}, readable : BOOLEAN]
          /\ lpc \in [Proc -> PCs]
          /\ deaths \in Nat

Init == /\ lock = Free
        /\ lpc = [p \in Proc |-> "unborn"]
        /\ deaths = 0

Alive(p) == lpc[p] \notin {"unborn", "dead"}
Inside(p) == Alive(p) /\ lpc[p] # "out"

Goto(p, from, to) == lpc[p] = from /\ lpc' = [lpc EXCEPT ![p] = to]

-----------------------------------------------------------------------------
(* Faulty variants of steps below: what a plausible slip in the code would *)
(* do.  No specification uses them; each is there to break one property.   *)

(* the lock file opened without O_EXCL                                     *)
CreateWithoutExcl(p) == /\ \/ Goto(p, "create", "write")
                           \/ Goto(p, "recreate", "write")
                        /\ lock' = LockFile(p, FALSE)
                        /\ UNCHANGED deaths

(* the owner's pid never probed                                            *)
StaleIfReadable == lock.readable

(* the stale file reported as reclaimed but left in place                  *)
UnlinkForgotten(p) == Goto(p, "unlink", "recreate") /\ UNCHANGED <<lock, deaths>>

(* a lock that waits                                                       *)
RejectAsWait(p) == /\ \/ Goto(p, "inspect", "create")
                      \/ lock # Free /\ Goto(p, "recreate", "create")
                   /\ UNCHANGED <<lock, deaths>>

(* the file truncated instead of removed                                   *)
UnlinkAsTruncate(p) == /\ Goto(p, "drop", "out")
                       /\ lock' = [lock EXCEPT !.owner = {}]
                       /\ UNCHANGED deaths

-----------------------------------------------------------------------------
(* A new process starts using the artifact.                                *)
Start(p) == /\ Concurrent \/ \A q \in Proc : ~Alive(q)
            /\ Goto(p, "unborn", "out")
            /\ UNCHANGED <<lock, deaths>>

(* A process calls a mutation and enters _locked_mutation.                 *)
Enter(p) == Goto(p, "out", "create") /\ UNCHANGED <<lock, deaths>>

(* os.open(O_CREAT | O_EXCL) succeeds, at either attempt.                  *)
CreateFile(p) == /\ lock = Free
                 /\ \/ Goto(p, "create", "write")
                    \/ Goto(p, "recreate", "write")
                 /\ lock' = LockFile(p, FALSE)
                 /\ UNCHANGED deaths

(* FileExistsError at the first attempt: the owner is inspected.           *)
FileExists(p) == /\ lock # Free
                 /\ Goto(p, "create", "inspect")
                 /\ UNCHANGED <<lock, deaths>>

Stale == lock.readable /\ \A q \in lock.owner : lpc[q] = "dead"

(* _reclaim_stale_lock reads a dead owner ...                              *)
FindStale(p) == /\ Stale
                /\ Goto(p, "inspect", "unlink")
                /\ UNCHANGED <<lock, deaths>>

(* ... and unlinks whatever file has that name by then.                    *)
UnlinkStale(p) == /\ Goto(p, "unlink", "recreate")
                  /\ lock' = Free
                  /\ UNCHANGED deaths

(* ConcurrentReplayWriterError: the owner is alive, or the file cannot be  *)
(* read, or it is gone by now; or the second creation failed too.          *)
Reject(p) == /\ \/ ~Stale /\ Goto(p, "inspect", "out")
                \/ lock # Free /\ Goto(p, "recreate", "out")
             /\ UNCHANGED <<lock, deaths>>

(* The owner record is written and synced.  If the file was unlinked in    *)
(* between the bytes go to a nameless file.                                *)
WriteOwner(p) == /\ Goto(p, "write", "holding")
                 /\ lock' = IF lock.owner = {p} THEN LockFile(p, TRUE) ELSE lock
                 /\ UNCHANGED deaths

(* Writing or syncing the owner record raises.  This is before the try     *)
(* block whose finally removes the file, so the file stays.                *)
WriteFails(p) == /\ Goto(p, "write", "out")
                 /\ \/ lock' = lock
                    \/ lock.owner = {p} /\ lock' = LockFile(p, TRUE)
                 /\ UNCHANGED deaths

(* The body of the mutation returned or raised: the finally block runs.    *)
Leave(p) == Goto(p, "holding", "check") /\ UNCHANGED <<lock, deaths>>

OwnToken(p) == lock = LockFile(p, TRUE)

(* The finally block compares tokens and only then unlinks.                *)
CheckToken(p) == /\ \/ OwnToken(p) /\ Goto(p, "check", "drop")
                    \/ ~OwnToken(p) /\ Goto(p, "check", "out")
                 /\ UNCHANGED <<lock, deaths>>

UnlinkOwn(p) == /\ Goto(p, "drop", "out")
                /\ lock' = Free
                /\ UNCHANGED deaths

(* The process ends: a crash or a kill anywhere, or a normal exit.         *)
Die(p) == /\ Alive(p)
          /\ deaths < MaxDeaths
          /\ lpc' = [lpc EXCEPT ![p] = "dead"]
          /\ deaths' = deaths + 1
          /\ UNCHANGED lock

(* The steps inside one call of _locked_mutation, its body excepted.       *)
Acquire(p) == \/ CreateFile(p) \/ FileExists(p)
              \/ FindStale(p) \/ UnlinkStale(p) \/ Reject(p)
              \/ WriteOwner(p) \/ WriteFails(p)
Release(p) == CheckToken(p) \/ UnlinkOwn(p)

(* No process is left and none can start.                                  *)
AllGone == Proc = {p \in Proc : lpc[p] = "dead"} /\ UNCHANGED lockVars

Next == \/ \E p \in Proc : \/ Start(p) \/ Enter(p) \/ Acquire(p)
                           \/ Leave(p) \/ Release(p) \/ Die(p)
        \/ AllGone

(* The operating system schedules every process, and no body runs forever: *)
(* a process inside a mutation takes its next step.                        *)
Fairness == \A p \in Proc : WF_lockVars(Acquire(p) \/ Leave(p) \/ Release(p))

Spec == Init /\ [][Next]_lockVars /\ Fairness

-----------------------------------------------------------------------------
InBody(p) == lpc[p] = "holding"

(* At most one process is in the body of a mutation.                       *)
(* replay.py:1653: "Serialize mutations and reject a live competing writer".*)
MutualExclusion == \A p, q \in Proc : InBody(p) /\ InBody(q) => p = q

(* As long as no process has died, mutations exclude each other, whatever  *)
(* the number of processes and although a lock may be left behind by a     *)
(* failing write of its owner record.                                      *)
ExclusiveUntilDeath == deaths = 0 => MutualExclusion

(* As long as no process has died, whoever is in its body, or about to     *)
(* unlink its lock, still has its own lock file on disk, so that the       *)
(* unlink of the finally block never removes the lock of somebody else.    *)
OwnFileUntilDeath ==
    deaths = 0 => \A p \in Proc : lpc[p] \in {"holding", "check", "drop"} => OwnToken(p)

(* The lock never waits: a mutation, refused or not, comes to its end.     *)
MutationEnds == \A p \in Proc : Inside(p) ~> ~Inside(p)

(* A readable lock of a dead process goes away once somebody who survives  *)
(* has met it.                                                             *)
StaleLockReclaimed ==
    \A p \in Proc : (lpc[p] = "inspect" /\ Stale) ~> (~Stale \/ lpc[p] = "dead")
=============================================================================
