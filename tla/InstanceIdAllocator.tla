------------------------ MODULE InstanceIdAllocator ------------------------
(***************************************************************************)
(* What the instance ID database promises its users: an instance ID of a   *)
(* terminus is held by at most one of them at a time, is handed out only   *)
(* when nobody holds it, and comes back when its holder frees it or dies.  *)
(***************************************************************************)
CONSTANTS Contexts, TIDs, IIDs

VARIABLE held    \* the <<tid, iid>> pairs each context holds

Free(tid, iid) == \A c \in Contexts : <<tid, iid>> \notin held[c]

AllocatorInit == held = [c \in Contexts |-> {}]

Acquire(c, tid, iid) ==
    /\ Free(tid, iid)
    /\ held' = [held EXCEPT ![c] = @ \cup {<<tid, iid>>}]

Release(c, tid, iid) ==
    /\ <<tid, iid>> \in held[c]
    /\ held' = [held EXCEPT ![c] = @ \ {<<tid, iid>>}]

ReleaseAll(c) == held' = [held EXCEPT ![c] = {}]

AllocatorNext ==
    \E c \in Contexts :
       \/ \E tid \in TIDs, iid \in IIDs : Acquire(c, tid, iid) \/ Release(c, tid, iid)
       \/ ReleaseAll(c)

AllocatorSpec == AllocatorInit /\ [][AllocatorNext]_held

=============================================================================
