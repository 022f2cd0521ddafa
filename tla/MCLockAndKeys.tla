---------------------------- MODULE MCLockAndKeys ----------------------------
(* The two components with threads of their own and nothing in common, the *)
(* lock and the key dispatcher, in one run: it is one or the other.        *)
EXTENDS ArtifactLock, KeyDispatcher

VARIABLE part

BothVars == <<part, lockVars, keyVars>>

BothInit == part \in {"lock", "keys"} /\ Init /\ KeysInit

LockStep == part = "lock" /\ Next /\ UNCHANGED <<part, keyVars>>
KeysStep == part = "keys" /\ KeysNext /\ UNCHANGED <<part, lockVars>>

BothFairness ==
    /\ \A p \in Proc : WF_lockVars(part = "lock" /\ (Acquire(p) \/ Leave(p) \/ Release(p)))
    /\ WF_keyVars(part = "keys" /\ Pumping)
    /\ SF_keyVars(part = "keys" /\ Begin("pump"))

BothSpec == BothInit /\ [][LockStep \/ KeysStep]_BothVars /\ BothFairness
=============================================================================
