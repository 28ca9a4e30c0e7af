----------------------------- MODULE InstanceId -----------------------------
(***************************************************************************)
(* The instance ID database of src/requester/instance-id.c: any number of  *)
(* contexts (struct pldm_instance_db, each with its own open file          *)
(* description of the lock database) allocate instance IDs per terminus    *)
(* with open-file-description locks, one byte of the file per <<tid, iid>>.*)
(*                                                                         *)
(* The fcntl() calls are the only steps contexts can observe of each       *)
(* other; the code between two of them is one step with the second.  Any   *)
(* fcntl() may fail, and a process may die at any point.                   *)
(*                                                                         *)
(* An operator named X_Y is X with the defect Y, and used nowhere.         *)
(***************************************************************************)
EXTENDS Integers, FiniteSets

CONSTANTS
    Contexts,
    TIDs,                \* a set of terminus IDs, numbers below PLDM_TID_MAX
    PLDM_INST_ID_MAX,    \* 32 in the code
    NoTID                \* no call has been made

ASSUME InstanceIdAssumption ==
    /\ TIDs \subseteq Nat
    /\ NoTID \notin TIDs
    /\ PLDM_INST_ID_MAX \in Nat \ {0}

IIDs == 0 .. (PLDM_INST_ID_MAX - 1)

VARIABLES
    open,           \* the contexts that exist
    prev,           \* state[tid].prev of each context
    allocations,    \* state[tid].allocations of each context, as a set
    locks,          \* the bytes each open file description has a shared lock on
    call,           \* the alloc call each context is in, as at its next fcntl()
    leaky,          \* an unlock of this context has failed
    alone           \* no other context is in a call or has taken a step since
                    \* the last call began

vars == <<open, prev, allocations, locks, call, leaky, alone>>

\* How many times iid_next() leads from one instance ID to another.
Distance(from, to) ==
    IF to >= from THEN to - from ELSE to - from + PLDM_INST_ID_MAX

\* The byte of the lock database for an instance ID of a terminus.
Offset(tid, iid) == tid * PLDM_INST_ID_MAX + iid

Offsets == {Offset(tid, iid) : tid \in TIDs, iid \in IIDs}

\* Outside alloc; "full" is the same after the -EAGAIN of a whole loop.
NoCall == [pc |-> "idle", tid |-> NoTID, iid |-> 0, err |-> FALSE]

Full(tid) == [pc |-> "full", tid |-> tid, iid |-> 0, err |-> FALSE]

CallType ==
    [pc : {"idle", "full", "reserve", "probe", "release"}, tid : TIDs \cup {NoTID},
     iid : IIDs, err : BOOLEAN]

Idle(c) == call[c].pc \in {"idle", "full"}

\* "Initialise previous ID values so the next one is zero".
FreshPrev == [tid \in TIDs |-> PLDM_INST_ID_MAX - 1]

Init ==
    /\ open = {}
    /\ prev = [c \in Contexts |-> FreshPrev]
    /\ allocations = [c \in Contexts |-> [tid \in TIDs |-> {}]]
    /\ locks = [c \in Contexts |-> {}]
    /\ call = [c \in Contexts |-> NoCall]
    /\ leaky = [c \in Contexts |-> FALSE]
    /\ alone = [c \in Contexts |-> FALSE]

\* Every step of c disturbs the calls of the others.
Disturb(c) == alone' = [d \in Contexts |-> d = c /\ alone[d]]

-----------------------------------------------------------------------------
(* The life of a context *)

InstanceDbInit(c) ==
    /\ c \notin open
    /\ open' = open \cup {c}
    /\ UNCHANGED <<prev, allocations, locks, call, leaky>>
    /\ Disturb(c)

\* The file description is closed, and its locks go with it: by
\* pldm_instance_db_destroy(), or by the kernel when the process dies.  The
\* context is left as the next pldm_instance_db_init() will make it.
Close(c) ==
    /\ c \in open
    /\ open' = open \ {c}
    /\ locks' = [locks EXCEPT ![c] = {}]
    /\ prev' = [prev EXCEPT ![c] = FreshPrev]
    /\ allocations' = [allocations EXCEPT ![c] = [tid \in TIDs |-> {}]]
    /\ call' = [call EXCEPT ![c] = NoCall]
    /\ leaky' = [leaky EXCEPT ![c] = FALSE]
    /\ Disturb(c)

InstanceDbDestroy(c) == Idle(c) /\ Close(c)

Die(c) == ~Idle(c) /\ Close(c)

-----------------------------------------------------------------------------
(* pldm_instance_id_alloc *)

Candidates_Endless(c, tid, iid) == IIDs \ (allocations[c][tid] \cup {iid})

Candidates_SkipsOne(c, tid, iid) ==
    {i \in IIDs \ allocations[c][tid] :
        Distance(prev[c][tid], i) > Distance(prev[c][tid], iid) + 1}

\* The rest of the loop from iid on: up to prev, which is not tried, and without
\* what this context has allocated itself.
Candidates(c, tid, iid) ==
    {i \in IIDs \ allocations[c][tid] :
        Distance(prev[c][tid], i) > Distance(prev[c][tid], iid)}

\* On to the first of them, or -EAGAIN.
Advance(c, tid, iid) ==
    LET rest == Candidates(c, tid, iid)
    IN  \/ rest = {} /\ call' = [call EXCEPT ![c] = Full(tid)]
        \/ \E i \in rest :
              /\ \A j \in rest : Distance(iid, i) <= Distance(iid, j)
              /\ call' = [call EXCEPT ![c] = [pc |-> "reserve", tid |-> tid,
                                             iid |-> i, err |-> FALSE]]

AllocStart(c, tid) ==
    /\ c \in open
    /\ Idle(c)
    /\ Advance(c, tid, prev[c][tid])
    /\ alone' = [d \in Contexts |-> /\ d = c
                                     /\ \A e \in Contexts \ {c} : Idle(e)]
    /\ UNCHANGED <<open, prev, allocations, locks, leaky>>

\* F_OFD_SETLK of the shared lock.  Shared locks do not exclude each other.
Reserve(c, failed) ==
    /\ call[c].pc = "reserve"
    /\ IF failed
       THEN /\ call' = [call EXCEPT ![c] = NoCall]
            /\ UNCHANGED locks
       ELSE /\ locks' = [locks EXCEPT ![c] = @ \cup {Offset(call[c].tid, call[c].iid)}]
            /\ call' = [call EXCEPT ![c].pc = "probe"]
    /\ UNCHANGED <<open, prev, allocations, leaky>>
    /\ Disturb(c)

\* F_OFD_GETLK: would an exclusive lock conflict with another description's lock?
Excludable(c, offset) == \A d \in Contexts \ {c} : offset \notin locks[d]

Probe(c, failed) ==
    /\ call[c].pc = "probe"
    /\ LET tid == call[c].tid
           iid == call[c].iid
       IN  \/ /\ failed
              /\ call' = [call EXCEPT ![c].pc = "release", ![c].err = TRUE]
              /\ UNCHANGED <<prev, allocations>>
           \/ /\ ~failed
              /\ ~Excludable(c, Offset(tid, iid))
              /\ call' = [call EXCEPT ![c].pc = "release"]
              /\ UNCHANGED <<prev, allocations>>
           \/ /\ ~failed
              /\ Excludable(c, Offset(tid, iid))
              /\ prev' = [prev EXCEPT ![c][tid] = iid]
              /\ allocations' = [allocations EXCEPT ![c][tid] = @ \cup {iid}]
              /\ call' = [call EXCEPT ![c] = NoCall]
    /\ UNCHANGED <<open, locks, leaky>>
    /\ Disturb(c)

ReleaseCfls_KeepsLock(c, failed) ==
    /\ call[c].pc = "release"
    /\ Advance(c, call[c].tid, call[c].iid)
    /\ UNCHANGED <<open, prev, allocations, locks, leaky>>
    /\ Disturb(c)

\* F_OFD_SETLK of F_UNLCK; the loop goes on unless something failed.
ReleaseCfls(c, failed) ==
    /\ call[c].pc = "release"
    /\ locks' = IF failed THEN locks
                ELSE [locks EXCEPT ![c] = @ \ {Offset(call[c].tid, call[c].iid)}]
    /\ IF failed \/ call[c].err THEN call' = [call EXCEPT ![c] = NoCall]
                                 ELSE Advance(c, call[c].tid, call[c].iid)
    /\ leaky' = [leaky EXCEPT ![c] = @ \/ failed]
    /\ UNCHANGED <<open, prev, allocations>>
    /\ Disturb(c)

-----------------------------------------------------------------------------
(* pldm_instance_id_free: an instance ID that is not allocated is refused, *)
(* and one that cannot be unlocked stays allocated.                        *)

InstanceIdFree_KeepsAllocation(c, tid, iid) ==
    /\ c \in open
    /\ Idle(c)
    /\ iid \in allocations[c][tid]
    /\ locks' = [locks EXCEPT ![c] = @ \ {Offset(tid, iid)}]
    /\ call' = [call EXCEPT ![c] = NoCall]
    /\ UNCHANGED <<open, prev, allocations, leaky>>
    /\ Disturb(c)

InstanceIdFree(c, tid, iid) ==
    /\ c \in open
    /\ Idle(c)
    /\ iid \in allocations[c][tid]
    /\ locks' = [locks EXCEPT ![c] = @ \ {Offset(tid, iid)}]
    /\ allocations' = [allocations EXCEPT ![c][tid] = @ \ {iid}]
    /\ call' = [call EXCEPT ![c] = NoCall]
    /\ UNCHANGED <<open, prev, leaky>>
    /\ Disturb(c)

Next ==
    \E c \in Contexts :
       \/ InstanceDbInit(c) \/ InstanceDbDestroy(c) \/ Die(c)
       \/ \E tid \in TIDs : AllocStart(c, tid)
       \/ \E failed \in BOOLEAN :
             Reserve(c, failed) \/ Probe(c, failed) \/ ReleaseCfls(c, failed)
       \/ \E tid \in TIDs, iid \in IIDs : InstanceIdFree(c, tid, iid)

Spec == Init /\ [][Next]_vars

\* A process that is in a call goes on with it (or dies).
Step(c) == \E failed \in BOOLEAN : Reserve(c, failed) \/ Probe(c, failed)
                                      \/ ReleaseCfls(c, failed)

FairSpec == Spec /\ \A c \in Contexts : WF_vars(Step(c))

-----------------------------------------------------------------------------
(* Properties *)

\* The contexts and the file locks have their types, and a call has a terminus.
TypeOK ==
    /\ open \subseteq Contexts
    /\ prev \in [Contexts -> [TIDs -> IIDs]]
    /\ allocations \in [Contexts -> [TIDs -> SUBSET IIDs]]
    /\ locks \in [Contexts -> SUBSET Offsets]
    /\ call \in [Contexts -> CallType]
    /\ leaky \in [Contexts -> BOOLEAN]
    /\ alone \in [Contexts -> BOOLEAN]
    /\ \A c \in Contexts : call[c].pc # "idle" => call[c].tid \in TIDs

\* An instance ID of a terminus is allocated to one context at most, however their
\* fcntl() calls interleave and fail and whoever dies on the way.
OneHolder ==
    \A c, d \in Contexts : c # d =>
       \A tid \in TIDs : allocations[c][tid] \cap allocations[d][tid] = {}

\* A context must have locked what it has allocated and the instance ID it is trying.
Needs(c, tid, iid) ==
    \/ iid \in allocations[c][tid]
    \/ call[c].pc \in {"probe", "release"} /\ call[c].tid = tid /\ call[c].iid = iid

\* Unless an unlock failed, a context has locked what it needs and nothing else: an
\* instance ID that was in conflict is given back ("Release read lock on conflict"),
\* and nothing is left locked by a context that is gone.
LocksMatch ==
    \A c \in Contexts : ~leaky[c] =>
       \A tid \in TIDs, iid \in IIDs :
          Offset(tid, iid) \in locks[c] <=> Needs(c, tid, iid)

\* An instance ID is in use when its context has it or another one has locked it.
InUse(c, tid, iid) == iid \in allocations[c][tid] \/ ~Excludable(c, Offset(tid, iid))

\* A call that no other context disturbs gives up only when every instance ID but
\* the last one allocated is in use.
UndisturbedAllocFindsFree ==
    \A c \in Contexts : alone[c] /\ call[c].pc = "full" =>
       \A iid \in IIDs \ {prev[c][call[c].tid]} : InUse(c, call[c].tid, iid)

\* The instance IDs an undisturbed call of c has tried in vain.
Passed(c, iid) ==
    LET last == prev[c][call[c].tid]
    IN  \/ iid # last /\ Distance(last, iid) < Distance(last, call[c].iid)
        \/ iid = call[c].iid /\ call[c].pc = "release" /\ ~call[c].err

\* The inductive invariant behind the three: what a context needs is locked, leaky or
\* not; the instance ID being tried is not one of its own; and in an
\* undisturbed call those already passed are in use.
IInv ==
    /\ TypeOK
    /\ OneHolder
    /\ LocksMatch
    /\ UndisturbedAllocFindsFree
    /\ \A c \in Contexts, tid \in TIDs, iid \in IIDs :
          Needs(c, tid, iid) => Offset(tid, iid) \in locks[c]
    /\ \A c \in Contexts : ~Idle(c) =>
          /\ call[c].iid \notin allocations[c][call[c].tid]
          /\ alone[c] =>
               \A iid \in IIDs : Passed(c, iid) => InUse(c, call[c].tid, iid)

\* Every call comes to its end: the loop tries no instance ID twice.
AllocReturns ==
    \A c \in Contexts : ~Idle(c) ~> Idle(c)

Allocator ==
    INSTANCE InstanceIdAllocator WITH
       held <- [c \in Contexts |-> {p \in TIDs \X IIDs : p[2] \in allocations[c][p[1]]}]

\* The allocator with its locks implements the abstract one: an ID is handed out
\* only when nobody has it, and leaves its holder only by free, destroy or death.
ImplementsAllocator == Allocator!AllocatorSpec

=============================================================================
