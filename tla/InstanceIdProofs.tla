-------------------------- MODULE InstanceIdProofs --------------------------
(***************************************************************************)
(* Proofs about InstanceId, for any number of contexts, termini and        *)
(* instance IDs.                                                           *)
(***************************************************************************)
EXTENDS InstanceId, TLAPS

\* Different instance IDs have different bytes in the lock database.
LEMMA OffsetInjective ==
    ASSUME NEW t \in TIDs, NEW u \in TIDs, NEW i \in IIDs, NEW j \in IIDs,
           Offset(t, i) = Offset(u, j)
    PROVE  t = u /\ i = j
<1> DEFINE M == PLDM_INST_ID_MAX
<1>1. t \in Nat /\ u \in Nat /\ M \in Nat /\ i \in 0 .. (M - 1) /\ j \in 0 .. (M - 1)
  BY InstanceIdAssumption DEF InstanceIdAssumption, IIDs
<1>2. t * M + i = u * M + j
  BY DEF Offset
<1>3. ASSUME NEW a \in Nat, NEW b \in Nat, a < b
      PROVE  a * M + M <= b * M
  <2>1. PICK k \in Nat : b = a + 1 + k
    <3>1. b - a - 1 \in Nat /\ b = a + 1 + (b - a - 1)
      BY <1>3
    <3>2. QED
      BY <3>1
  <2>2. b * M = a * M + M + k * M
    BY <1>1, <2>1
  <2>3. k * M \in Nat
    BY <1>1
  <2>4. QED
    BY <1>1, <2>2, <2>3
<1> HIDE DEF M
<1>4. t * M \in Nat /\ u * M \in Nat
  BY <1>1
<1>5. CASE t < u
  BY <1>1, <1>2, <1>3, <1>4, <1>5
<1>6. CASE u < t
  BY <1>1, <1>2, <1>3, <1>4, <1>6
<1>7. CASE t = u
  BY <1>1, <1>2, <1>4, <1>7
<1>8. QED
  BY <1>1, <1>5, <1>6, <1>7

-----------------------------------------------------------------------------
(* The conjuncts of IInv by name *)

Locked ==
    \A c \in Contexts, tid \in TIDs, iid \in IIDs :
       Needs(c, tid, iid) => Offset(tid, iid) \in locks[c]

NotOwn == \A c \in Contexts : ~Idle(c) => call[c].iid \notin allocations[c][call[c].tid]

PassedInUse ==
    \A c \in Contexts : ~Idle(c) /\ alone[c] =>
       \A iid \in IIDs : Passed(c, iid) => InUse(c, call[c].tid, iid)

\* IInv is their conjunction.
LEMMA IInvParts ==
    IInv <=> /\ TypeOK /\ OneHolder /\ LocksMatch /\ UndisturbedAllocFindsFree
             /\ Locked /\ NotOwn /\ PassedInUse
BY DEF IInv, Locked, NotOwn, PassedInUse

\* The steps, one case for each action of Next.
ActorStep(c) ==
    \/ InstanceDbInit(c)
    \/ Close(c)
    \/ \E tid \in TIDs : AllocStart(c, tid)
    \/ \E failed \in BOOLEAN : Reserve(c, failed)
    \/ \E failed \in BOOLEAN : Probe(c, failed)
    \/ \E failed \in BOOLEAN : ReleaseCfls(c, failed)
    \/ \E tid \in TIDs, iid \in IIDs : InstanceIdFree(c, tid, iid)

\* Every step is a step of one context.
LEMMA NextActor ==
    ASSUME Next
    PROVE  \E c \in Contexts : ActorStep(c)
BY DEF Next, ActorStep, InstanceDbDestroy, Die

\* The instance IDs are numbers, 0 among them.
LEMMA IIDFacts ==
    /\ IIDs \subseteq Nat
    /\ 0 \in IIDs
    /\ PLDM_INST_ID_MAX - 1 \in IIDs
    /\ PLDM_INST_ID_MAX \in Nat
    /\ \A iid \in IIDs : iid < PLDM_INST_ID_MAX
BY InstanceIdAssumption DEF InstanceIdAssumption, IIDs

\* What the loop does next: try an instance ID that is not allocated, or give up.
LEMMA AdvanceResult ==
    ASSUME NEW c, NEW tid \in TIDs, NEW iid, Advance(c, tid, iid)
    PROVE  \E r \in CallType :
              /\ call' = [call EXCEPT ![c] = r]
              /\ r.tid = tid
              /\ \/ r.pc = "full" /\ Candidates(c, tid, iid) = {}
                 \/ /\ r.pc = "reserve" /\ ~r.err
                    /\ r.iid \in Candidates(c, tid, iid)
                    /\ \A j \in Candidates(c, tid, iid) :
                          Distance(iid, r.iid) <= Distance(iid, j)
<1>1. CASE Candidates(c, tid, iid) = {} /\ call' = [call EXCEPT ![c] = Full(tid)]
  <2>1. Full(tid) \in CallType
    BY IIDFacts DEF Full, CallType
  <2>2. Full(tid).tid = tid /\ Full(tid).pc = "full"
    BY DEF Full
  <2>3. QED
    BY <1>1, <2>1, <2>2
<1>2. ASSUME NEW i \in Candidates(c, tid, iid),
             \A j \in Candidates(c, tid, iid) : Distance(iid, i) <= Distance(iid, j),
             call' = [call EXCEPT ![c] = [pc |-> "reserve", tid |-> tid,
                                          iid |-> i, err |-> FALSE]]
      PROVE  \E r \in CallType :
                /\ call' = [call EXCEPT ![c] = r]
                /\ r.tid = tid
                /\ r.pc = "reserve" /\ ~r.err
                /\ r.iid \in Candidates(c, tid, iid)
                /\ \A j \in Candidates(c, tid, iid) :
                      Distance(iid, r.iid) <= Distance(iid, j)
  <2> DEFINE r == [pc |-> "reserve", tid |-> tid, iid |-> i, err |-> FALSE]
  <2>1. i \in IIDs
    BY <1>2 DEF Candidates
  <2>2. r \in CallType
    BY <2>1 DEF CallType
  <2>3. r.tid = tid /\ r.pc = "reserve" /\ ~r.err /\ r.iid = i
    OBVIOUS
  <2> HIDE DEF r
  <2>4. call' = [call EXCEPT ![c] = r]
    BY <1>2 DEF r
  <2>5. QED
    BY <1>2, <2>2, <2>3, <2>4
<1>3. QED
  BY <1>1, <1>2 DEF Advance

-----------------------------------------------------------------------------
(* Type correctness, and what a step leaves alone *)

\* The record of a context outside alloc has its type.
LEMMA NoCallType == NoCall \in CallType /\ NoCall.pc = "idle"
BY IIDFacts DEF NoCall, CallType

\* The initial state is typed.
LEMMA InitType == Init => TypeOK
<1> SUFFICES ASSUME Init PROVE TypeOK
  OBVIOUS
<1>1. prev \in [Contexts -> [TIDs -> IIDs]]
  BY IIDFacts DEF Init, FreshPrev
<1>2. call \in [Contexts -> CallType] /\ \A c \in Contexts : call[c].pc = "idle"
  BY NoCallType DEF Init
<1>3. QED
  BY <1>1, <1>2 DEF Init, TypeOK

\* Replacing a context's call by a well-typed one.
LEMMA CallStep ==
    ASSUME TypeOK, NEW c \in Contexts, NEW r \in CallType,
           r.pc # "idle" => r.tid \in TIDs, call' = [call EXCEPT ![c] = r]
    PROVE  /\ call' \in [Contexts -> CallType]
           /\ \A d \in Contexts : call'[d].pc # "idle" => call'[d].tid \in TIDs
           /\ call'[c] = r
           /\ \A d \in Contexts \ {c} : call'[d] = call[d]
BY DEF TypeOK

\* A step of a context changes nothing of another one, but disturbs its call.
LEMMA OthersUnchanged ==
    ASSUME TypeOK, NEW c \in Contexts, ActorStep(c), NEW d \in Contexts, d # c
    PROVE  /\ prev'[d] = prev[d] /\ allocations'[d] = allocations[d]
           /\ locks'[d] = locks[d] /\ call'[d] = call[d] /\ leaky'[d] = leaky[d]
           /\ ~alone'[d]
<1>1. CASE InstanceDbInit(c)
  BY <1>1 DEF InstanceDbInit, Disturb
<1>2. CASE Close(c)
  BY <1>2 DEF Close, Disturb, TypeOK
<1>3. ASSUME NEW tid \in TIDs, AllocStart(c, tid)
      PROVE  /\ prev'[d] = prev[d] /\ allocations'[d] = allocations[d]
             /\ locks'[d] = locks[d] /\ call'[d] = call[d] /\ leaky'[d] = leaky[d]
             /\ ~alone'[d]
  BY <1>3 DEF AllocStart, Advance, TypeOK
<1>4. ASSUME NEW failed \in BOOLEAN, Reserve(c, failed)
      PROVE  /\ prev'[d] = prev[d] /\ allocations'[d] = allocations[d]
             /\ locks'[d] = locks[d] /\ call'[d] = call[d] /\ leaky'[d] = leaky[d]
             /\ ~alone'[d]
  BY <1>4 DEF Reserve, Disturb, TypeOK
<1>5. ASSUME NEW failed \in BOOLEAN, Probe(c, failed)
      PROVE  /\ prev'[d] = prev[d] /\ allocations'[d] = allocations[d]
             /\ locks'[d] = locks[d] /\ call'[d] = call[d] /\ leaky'[d] = leaky[d]
             /\ ~alone'[d]
  BY <1>5 DEF Probe, Disturb, TypeOK
<1>6. ASSUME NEW failed \in BOOLEAN, ReleaseCfls(c, failed)
      PROVE  /\ prev'[d] = prev[d] /\ allocations'[d] = allocations[d]
             /\ locks'[d] = locks[d] /\ call'[d] = call[d] /\ leaky'[d] = leaky[d]
             /\ ~alone'[d]
  BY <1>6 DEF ReleaseCfls, Advance, Disturb, TypeOK
<1>7. ASSUME NEW tid \in TIDs, NEW iid \in IIDs, InstanceIdFree(c, tid, iid)
      PROVE  /\ prev'[d] = prev[d] /\ allocations'[d] = allocations[d]
             /\ locks'[d] = locks[d] /\ call'[d] = call[d] /\ leaky'[d] = leaky[d]
             /\ ~alone'[d]
  BY <1>7 DEF InstanceIdFree, Disturb, TypeOK
<1>8. QED
  BY <1>1, <1>2, <1>3, <1>4, <1>5, <1>6, <1>7 DEF ActorStep

\* The byte of an instance ID is in the lock database.
LEMMA OffsetType ==
    ASSUME NEW tid \in TIDs, NEW iid \in IIDs
    PROVE  Offset(tid, iid) \in Offsets
BY DEF Offsets

\* What each step makes of the context that takes it.
LEMMA InitEffect ==
    ASSUME TypeOK, NEW c \in Contexts, InstanceDbInit(c)
    PROVE  /\ TypeOK'
           /\ UNCHANGED <<prev, allocations, locks, call, leaky>>
           /\ alone'[c] = alone[c]
BY DEF InstanceDbInit, Disturb, TypeOK

\* Closing a context leaves it with nothing and outside any call.
LEMMA CloseEffect ==
    ASSUME TypeOK, NEW c \in Contexts, Close(c)
    PROVE  /\ TypeOK'
           /\ locks'[c] = {} /\ call'[c].pc = "idle"
           /\ \A tid \in TIDs : allocations'[c][tid] = {}
<1>1. /\ call' \in [Contexts -> CallType]
      /\ \A d \in Contexts : call'[d].pc # "idle" => call'[d].tid \in TIDs
      /\ call'[c].pc = "idle"
  BY NoCallType, CallStep DEF Close
<1>2. prev' \in [Contexts -> [TIDs -> IIDs]]
  BY IIDFacts DEF Close, FreshPrev, TypeOK
<1>3. /\ allocations' \in [Contexts -> [TIDs -> SUBSET IIDs]]
      /\ \A tid \in TIDs : allocations'[c][tid] = {}
  BY DEF Close, TypeOK
<1>4. open' \subseteq Contexts /\ locks' \in [Contexts -> SUBSET Offsets] /\ locks'[c] = {}
  BY DEF Close, TypeOK
<1>5. leaky' \in [Contexts -> BOOLEAN] /\ alone' \in [Contexts -> BOOLEAN]
  BY DEF Close, Disturb, TypeOK
<1>6. QED
  BY <1>1, <1>2, <1>3, <1>4, <1>5 DEF TypeOK

\* Starting a call only chooses the instance ID to try.
LEMMA StartEffect ==
    ASSUME TypeOK, NEW c \in Contexts, NEW tid \in TIDs, AllocStart(c, tid)
    PROVE  /\ TypeOK'
           /\ UNCHANGED <<prev, allocations, locks, leaky>>
           /\ call'[c].tid = tid
           /\ \/ call'[c].pc = "full" /\ Candidates(c, tid, prev[c][tid]) = {}
              \/ /\ call'[c].pc = "reserve" /\ ~call'[c].err
                 /\ call'[c].iid \in Candidates(c, tid, prev[c][tid])
                 /\ \A j \in Candidates(c, tid, prev[c][tid]) :
                       Distance(prev[c][tid], call'[c].iid) <= Distance(prev[c][tid], j)
<1>1. PICK r \in CallType :
              /\ call' = [call EXCEPT ![c] = r]
              /\ r.tid = tid
              /\ \/ r.pc = "full" /\ Candidates(c, tid, prev[c][tid]) = {}
                 \/ /\ r.pc = "reserve" /\ ~r.err
                    /\ r.iid \in Candidates(c, tid, prev[c][tid])
                    /\ \A j \in Candidates(c, tid, prev[c][tid]) :
                          Distance(prev[c][tid], r.iid) <= Distance(prev[c][tid], j)
  BY AdvanceResult DEF AllocStart
<1>2. /\ call' \in [Contexts -> CallType]
      /\ \A d \in Contexts : call'[d].pc # "idle" => call'[d].tid \in TIDs
      /\ call'[c] = r
  BY <1>1, CallStep
<1>3. UNCHANGED <<open, prev, allocations, locks, leaky>>
  BY DEF AllocStart
<1>4. alone' \in [Contexts -> BOOLEAN]
  BY DEF AllocStart
<1>5. TypeOK'
  BY <1>2, <1>3, <1>4 DEF TypeOK
<1>6. QED
  BY <1>1, <1>2, <1>3, <1>5

\* Reserving locks the instance ID being tried, or ends the call.
LEMMA ReserveEffect ==
    ASSUME TypeOK, NEW c \in Contexts, NEW failed \in BOOLEAN, Reserve(c, failed)
    PROVE  /\ TypeOK'
           /\ UNCHANGED <<prev, allocations, leaky>>
           /\ alone'[c] = alone[c]
           /\ call[c].tid \in TIDs /\ call[c].iid \in IIDs /\ call[c].pc = "reserve"
           /\ \/ call'[c].pc = "idle" /\ UNCHANGED locks
              \/ /\ call'[c].pc = "probe" /\ call'[c].tid = call[c].tid
                 /\ call'[c].iid = call[c].iid
                 /\ locks'[c] = locks[c] \cup {Offset(call[c].tid, call[c].iid)}
<1>1. call[c] \in CallType /\ call[c].tid \in TIDs /\ call[c].iid \in IIDs
  BY DEF TypeOK, CallType, Reserve
<1>2. alone' \in [Contexts -> BOOLEAN] /\ alone'[c] = alone[c]
  BY DEF Reserve, Disturb, TypeOK
<1>3. UNCHANGED <<open, prev, allocations, leaky>>
  BY DEF Reserve
<1>4. CASE failed
  <2>1. /\ call' \in [Contexts -> CallType]
        /\ \A d \in Contexts : call'[d].pc # "idle" => call'[d].tid \in TIDs
        /\ call'[c].pc = "idle"
    BY <1>4, NoCallType, CallStep DEF Reserve
  <2>2. UNCHANGED locks
    BY <1>4 DEF Reserve
  <2>3. TypeOK'
    BY <1>2, <1>3, <2>1, <2>2 DEF TypeOK
  <2>4. QED
    BY <1>1, <1>2, <1>3, <2>1, <2>2, <2>3 DEF Reserve
<1>5. CASE ~failed
  <2> DEFINE r == [call[c] EXCEPT !.pc = "probe"]
  <2>1. r \in CallType /\ r.pc = "probe" /\ r.tid = call[c].tid /\ r.iid = call[c].iid
    BY <1>1 DEF CallType
  <2>2. call' = [call EXCEPT ![c] = r]
    BY <1>5 DEF Reserve
  <2> HIDE DEF r
  <2>3. /\ call' \in [Contexts -> CallType]
        /\ \A d \in Contexts : call'[d].pc # "idle" => call'[d].tid \in TIDs
        /\ call'[c] = r
    BY <1>1, <2>1, <2>2, CallStep
  <2>4. Offset(call[c].tid, call[c].iid) \in Offsets
    BY <1>1, OffsetType
  <2>5. /\ locks' \in [Contexts -> SUBSET Offsets]
        /\ locks'[c] = locks[c] \cup {Offset(call[c].tid, call[c].iid)}
    BY <1>5, <2>4 DEF Reserve, TypeOK
  <2>6. TypeOK'
    BY <1>2, <1>3, <2>3, <2>5 DEF TypeOK
  <2>7. QED
    BY <1>1, <1>2, <1>3, <2>1, <2>3, <2>5, <2>6 DEF Reserve
<1>6. QED
  BY <1>4, <1>5

\* Probing allocates the instance ID being tried, or goes on to give it back.
LEMMA ProbeEffect ==
    ASSUME TypeOK, NEW c \in Contexts, NEW failed \in BOOLEAN, Probe(c, failed)
    PROVE  /\ TypeOK'
           /\ UNCHANGED <<locks, leaky>>
           /\ alone'[c] = alone[c]
           /\ call[c].tid \in TIDs /\ call[c].iid \in IIDs /\ call[c].pc = "probe"
           /\ \/ /\ call'[c].pc = "release" /\ call'[c].tid = call[c].tid
                 /\ call'[c].iid = call[c].iid
                 /\ ~call'[c].err =>
                       ~Excludable(c, Offset(call[c].tid, call[c].iid))
                 /\ UNCHANGED <<prev, allocations>>
              \/ /\ call'[c].pc = "idle"
                 /\ Excludable(c, Offset(call[c].tid, call[c].iid))
                 /\ allocations' = [allocations EXCEPT ![c][call[c].tid] =
                                       @ \cup {call[c].iid}]
<1> DEFINE tid == call[c].tid
           iid == call[c].iid
<1>1. call[c] \in CallType /\ tid \in TIDs /\ iid \in IIDs
  BY DEF TypeOK, CallType, Probe
<1>2. alone' \in [Contexts -> BOOLEAN] /\ alone'[c] = alone[c]
  BY DEF Probe, Disturb, TypeOK
<1>3. UNCHANGED <<open, locks, leaky>> /\ call[c].pc = "probe"
  BY DEF Probe
<1>4. ASSUME NEW r \in CallType, call' = [call EXCEPT ![c] = r],
             r.pc = "release", r.tid = tid, UNCHANGED <<prev, allocations>>
      PROVE  TypeOK' /\ call'[c] = r
  <2>1. /\ call' \in [Contexts -> CallType]
        /\ \A d \in Contexts : call'[d].pc # "idle" => call'[d].tid \in TIDs
        /\ call'[c] = r
    BY <1>1, <1>4, CallStep
  <2>2. QED
    BY <1>2, <1>3, <1>4, <2>1 DEF TypeOK
<1>5. CASE failed /\ call' = [call EXCEPT ![c].pc = "release", ![c].err = TRUE]
                  /\ UNCHANGED <<prev, allocations>>
  <2> DEFINE r == [call[c] EXCEPT !.pc = "release", !.err = TRUE]
  <2>1. r \in CallType /\ r.pc = "release" /\ r.tid = tid /\ r.iid = iid /\ r.err
    BY <1>1 DEF CallType
  <2>2. call' = [call EXCEPT ![c] = r]
    BY <1>5 DEF TypeOK
  <2> HIDE DEF r
  <2>3. TypeOK' /\ call'[c] = r
    BY <1>4, <1>5, <2>1, <2>2
  <2>4. QED
    BY <1>1, <1>2, <1>3, <1>5, <2>1, <2>3
<1>6. CASE /\ ~failed /\ ~Excludable(c, Offset(tid, iid))
           /\ call' = [call EXCEPT ![c].pc = "release"]
           /\ UNCHANGED <<prev, allocations>>
  <2> DEFINE r == [call[c] EXCEPT !.pc = "release"]
  <2>1. r \in CallType /\ r.pc = "release" /\ r.tid = tid /\ r.iid = iid
    BY <1>1 DEF CallType
  <2>2. call' = [call EXCEPT ![c] = r]
    BY <1>6
  <2> HIDE DEF r
  <2>3. TypeOK' /\ call'[c] = r
    BY <1>4, <1>6, <2>1, <2>2
  <2>4. QED
    BY <1>1, <1>2, <1>3, <1>6, <2>1, <2>3
<1>7. CASE /\ ~failed /\ Excludable(c, Offset(tid, iid))
           /\ prev' = [prev EXCEPT ![c][tid] = iid]
           /\ allocations' = [allocations EXCEPT ![c][tid] = @ \cup {iid}]
           /\ call' = [call EXCEPT ![c] = NoCall]
  <2>1. /\ call' \in [Contexts -> CallType]
        /\ \A d \in Contexts : call'[d].pc # "idle" => call'[d].tid \in TIDs
        /\ call'[c].pc = "idle"
    BY <1>7, NoCallType, CallStep
  <2>2. /\ prev' \in [Contexts -> [TIDs -> IIDs]]
        /\ allocations' \in [Contexts -> [TIDs -> SUBSET IIDs]]
    BY <1>1, <1>7 DEF TypeOK
  <2>3. TypeOK'
    BY <1>2, <1>3, <2>1, <2>2 DEF TypeOK
  <2>4. QED
    BY <1>1, <1>2, <1>3, <1>7, <2>1, <2>3
<1>8. QED
  BY <1>5, <1>6, <1>7 DEF Probe

\* Giving an instance ID back unlocks it and goes on with the loop; a failure ends
\* the call and may leave the lock.
LEMMA ReleaseEffect ==
    ASSUME TypeOK, NEW c \in Contexts, NEW failed \in BOOLEAN, ReleaseCfls(c, failed)
    PROVE  LET tid == call[c].tid
               iid == call[c].iid
           IN  /\ TypeOK'
               /\ UNCHANGED <<prev, allocations>>
               /\ alone'[c] = alone[c]
               /\ tid \in TIDs /\ iid \in IIDs /\ call[c].pc = "release"
               /\ \/ UNCHANGED locks /\ leaky'[c]
                  \/ locks'[c] = locks[c] \ {Offset(tid, iid)} /\ leaky'[c] = leaky[c]
               /\ \/ call'[c].pc = "idle"
                  \/ /\ call'[c].tid = tid /\ ~call[c].err
                     /\ \/ call'[c].pc = "full" /\ Candidates(c, tid, iid) = {}
                        \/ /\ call'[c].pc = "reserve" /\ ~call'[c].err
                           /\ call'[c].iid \in Candidates(c, tid, iid)
                           /\ \A j \in Candidates(c, tid, iid) :
                                 Distance(iid, call'[c].iid) <= Distance(iid, j)
<1> DEFINE tid == call[c].tid
           iid == call[c].iid
<1>1. tid \in TIDs /\ iid \in IIDs /\ call[c].pc = "release"
  BY DEF TypeOK, CallType, ReleaseCfls
<1>2. /\ alone' \in [Contexts -> BOOLEAN] /\ alone'[c] = alone[c]
      /\ leaky' \in [Contexts -> BOOLEAN]
      /\ UNCHANGED <<open, prev, allocations>>
  BY DEF ReleaseCfls, Disturb, TypeOK
<1>3. /\ locks' \in [Contexts -> SUBSET Offsets]
      /\ \/ UNCHANGED locks /\ leaky'[c]
         \/ locks'[c] = locks[c] \ {Offset(tid, iid)} /\ leaky'[c] = leaky[c]
  BY DEF ReleaseCfls, TypeOK
<1>4. PICK r \in CallType :
         /\ call' = [call EXCEPT ![c] = r]
         /\ \/ r.pc = "idle"
            \/ /\ r.tid = tid /\ ~call[c].err
               /\ \/ r.pc = "full" /\ Candidates(c, tid, iid) = {}
                  \/ /\ r.pc = "reserve" /\ ~r.err
                     /\ r.iid \in Candidates(c, tid, iid)
                     /\ \A j \in Candidates(c, tid, iid) :
                           Distance(iid, r.iid) <= Distance(iid, j)
  <2>1. CASE call' = [call EXCEPT ![c] = NoCall]
    BY <2>1, NoCallType
  <2>2. CASE Advance(c, tid, iid) /\ ~call[c].err
    BY <1>1, <2>2, AdvanceResult
  <2>3. QED
    BY <2>1, <2>2 DEF ReleaseCfls
<1>5. /\ call' \in [Contexts -> CallType]
      /\ \A d \in Contexts : call'[d].pc # "idle" => call'[d].tid \in TIDs
      /\ call'[c] = r
  BY <1>1, <1>4, CallStep
<1>6. TypeOK'
  BY <1>2, <1>3, <1>5 DEF TypeOK
<1>7. QED
  BY <1>1, <1>2, <1>3, <1>4, <1>5, <1>6

\* Freeing takes an instance ID off the allocations and its lock with it.
LEMMA FreeEffect ==
    ASSUME TypeOK, NEW c \in Contexts, NEW tid \in TIDs, NEW iid \in IIDs,
           InstanceIdFree(c, tid, iid)
    PROVE  /\ TypeOK'
           /\ UNCHANGED <<prev, leaky>>
           /\ call'[c].pc = "idle" /\ Idle(c)
           /\ iid \in allocations[c][tid]
           /\ allocations' = [allocations EXCEPT ![c][tid] = @ \ {iid}]
           /\ locks'[c] = locks[c] \ {Offset(tid, iid)}
<1>1. /\ call' \in [Contexts -> CallType]
      /\ \A d \in Contexts : call'[d].pc # "idle" => call'[d].tid \in TIDs
      /\ call'[c].pc = "idle"
  BY NoCallType, CallStep DEF InstanceIdFree
<1>2. /\ allocations' \in [Contexts -> [TIDs -> SUBSET IIDs]]
      /\ locks' \in [Contexts -> SUBSET Offsets]
      /\ locks'[c] = locks[c] \ {Offset(tid, iid)}
  BY DEF InstanceIdFree, TypeOK
<1>3. UNCHANGED <<open, prev, leaky>> /\ alone' \in [Contexts -> BOOLEAN]
  BY DEF InstanceIdFree, Disturb, TypeOK
<1>4. TypeOK'
  BY <1>1, <1>2, <1>3 DEF TypeOK
<1>5. QED
  BY <1>1, <1>2, <1>3, <1>4 DEF InstanceIdFree

-----------------------------------------------------------------------------
(* The locks *)

\* What the actor has locked after its step, byte by byte.
LocksOK(c) ==
    \A tid \in TIDs, iid \in IIDs :
       /\ Needs(c, tid, iid) => Offset(tid, iid) \in locks[c]
       /\ ~leaky[c] /\ Offset(tid, iid) \in locks[c] => Needs(c, tid, iid)

\* Locked and LocksMatch, context by context.
LEMMA LocksParts == Locked /\ LocksMatch <=> \A c \in Contexts : LocksOK(c)
BY DEF Locked, LocksMatch, LocksOK

\* The actor still has what it needs, and nothing else unless it is leaky.
LEMMA ActorLocks ==
    ASSUME IInv, NEW c \in Contexts, ActorStep(c)
    PROVE  LocksOK(c)'
<1> USE IInvParts
<1>0. TypeOK /\ LocksOK(c) /\ NotOwn
  BY LocksParts
<1>1. CASE InstanceDbInit(c)
  BY <1>0, <1>1, InitEffect DEF LocksOK, Needs
<1>2. CASE Close(c)
  BY <1>0, <1>2, CloseEffect DEF LocksOK, Needs
<1>3. ASSUME NEW t \in TIDs, AllocStart(c, t)
      PROVE  LocksOK(c)'
  <2>1. /\ UNCHANGED <<allocations, locks, leaky>>
        /\ call'[c].pc \notin {"probe", "release"}
    BY <1>0, <1>3, StartEffect
  <2>2. call[c].pc \notin {"probe", "release"}
    BY <1>3 DEF AllocStart, Idle
  <2>3. QED
    BY <1>0, <2>1, <2>2 DEF LocksOK, Needs
<1>4. ASSUME NEW failed \in BOOLEAN, Reserve(c, failed)
      PROVE  LocksOK(c)'
  <2> DEFINE t == call[c].tid
             i == call[c].iid
  <2>1. /\ UNCHANGED <<allocations, leaky>> /\ t \in TIDs /\ i \in IIDs
        /\ call[c].pc = "reserve"
        /\ \/ call'[c].pc = "idle" /\ UNCHANGED locks
           \/ /\ call'[c].pc = "probe" /\ call'[c].tid = t /\ call'[c].iid = i
              /\ locks'[c] = locks[c] \cup {Offset(t, i)}
    BY <1>0, <1>4, ReserveEffect
  <2>2. ASSUME NEW tid \in TIDs, NEW iid \in IIDs
        PROVE  Offset(tid, iid) = Offset(t, i) => tid = t /\ iid = i
    BY <2>1, OffsetInjective
  <2>3. QED
    BY <1>0, <2>1, <2>2 DEF LocksOK, Needs
<1>5. ASSUME NEW failed \in BOOLEAN, Probe(c, failed)
      PROVE  LocksOK(c)'
  <2> DEFINE t == call[c].tid
             i == call[c].iid
  <2>1. /\ UNCHANGED <<locks, leaky>> /\ t \in TIDs /\ i \in IIDs
        /\ call[c].pc = "probe"
        /\ \/ /\ call'[c].pc = "release" /\ call'[c].tid = t /\ call'[c].iid = i
              /\ UNCHANGED allocations
           \/ /\ call'[c].pc = "idle"
              /\ allocations' = [allocations EXCEPT ![c][t] = @ \cup {i}]
    BY <1>0, <1>5, ProbeEffect
  <2>2. ASSUME NEW tid \in TIDs, NEW iid \in IIDs
        PROVE  Needs(c, tid, iid)' <=> Needs(c, tid, iid)
    BY <1>0, <2>1 DEF Needs, TypeOK
  <2>3. QED
    BY <1>0, <2>1, <2>2 DEF LocksOK
<1>6. ASSUME NEW failed \in BOOLEAN, ReleaseCfls(c, failed)
      PROVE  LocksOK(c)'
  <2> DEFINE t == call[c].tid
             i == call[c].iid
  <2>1. /\ UNCHANGED allocations /\ t \in TIDs /\ i \in IIDs
        /\ call[c].pc = "release"
        /\ \/ UNCHANGED locks /\ leaky'[c]
           \/ locks'[c] = locks[c] \ {Offset(t, i)} /\ leaky'[c] = leaky[c]
        /\ call'[c].pc \notin {"probe", "release"}
    BY <1>0, <1>6, ReleaseEffect
  <2>2. i \notin allocations[c][t]
    BY <1>0, <2>1 DEF NotOwn, Idle
  <2>3. ASSUME NEW tid \in TIDs, NEW iid \in IIDs
        PROVE  Offset(tid, iid) = Offset(t, i) => tid = t /\ iid = i
    BY <2>1, OffsetInjective
  <2>4. QED
    BY <1>0, <2>1, <2>2, <2>3 DEF LocksOK, Needs
<1>7. ASSUME NEW t \in TIDs, NEW i \in IIDs, InstanceIdFree(c, t, i)
      PROVE  LocksOK(c)'
  <2>1. /\ UNCHANGED leaky /\ call'[c].pc = "idle" /\ Idle(c)
        /\ allocations' = [allocations EXCEPT ![c][t] = @ \ {i}]
        /\ locks'[c] = locks[c] \ {Offset(t, i)}
    BY <1>0, <1>7, FreeEffect
  <2>2. ASSUME NEW tid \in TIDs, NEW iid \in IIDs
        PROVE  /\ Offset(tid, iid) = Offset(t, i) => tid = t /\ iid = i
               /\ iid \in allocations'[c][tid] <=>
                     iid \in allocations[c][tid] /\ ~(tid = t /\ iid = i)
    BY <1>0, <2>1, OffsetInjective DEF TypeOK
  <2>3. QED
    BY <1>0, <2>1, <2>2 DEF LocksOK, Needs, Idle
<1>8. QED
  BY <1>1, <1>2, <1>3, <1>4, <1>5, <1>6, <1>7 DEF ActorStep

\* The locks are in order after every step.
LEMMA LocksStep ==
    ASSUME IInv, NEW c \in Contexts, ActorStep(c)
    PROVE  Locked' /\ LocksMatch'
<1>1. ASSUME NEW d \in Contexts, d # c
      PROVE  LocksOK(d)'
  <2>1. TypeOK /\ LocksOK(d)
    BY IInvParts, LocksParts
  <2>2. /\ allocations'[d] = allocations[d] /\ locks'[d] = locks[d]
        /\ call'[d] = call[d] /\ leaky'[d] = leaky[d]
    BY <1>1, <2>1, OthersUnchanged
  <2>3. QED
    BY <2>1, <2>2 DEF LocksOK, Needs
<1>2. \A d \in Contexts : LocksOK(d)'
  BY <1>1, ActorLocks
<1>3. QED
  BY <1>2, LocksParts DEF Locked, LocksMatch, LocksOK

-----------------------------------------------------------------------------
(* One holder *)

\* A context gains an instance ID only by a probe that found it locked by no other,
\* and whoever has an instance ID has it locked.
LEMMA HolderStep ==
    ASSUME IInv, NEW c \in Contexts, ActorStep(c)
    PROVE  OneHolder'
<1>0. TypeOK /\ OneHolder /\ Locked
  BY IInvParts
<1>1. ASSUME NEW d \in Contexts, d # c, NEW t \in TIDs
      PROVE  allocations'[c][t] \cap allocations[d][t] = {}
  <2>0. allocations[c][t] \cap allocations[d][t] = {}
    BY <1>0, <1>1 DEF OneHolder
  <2>1. CASE InstanceDbInit(c)
    BY <1>0, <2>0, <2>1, InitEffect
  <2>2. CASE Close(c)
    BY <1>0, <2>2, CloseEffect
  <2>3. ASSUME NEW tid \in TIDs, AllocStart(c, tid)
        PROVE  allocations'[c][t] \cap allocations[d][t] = {}
    BY <1>0, <2>0, <2>3, StartEffect
  <2>4. ASSUME NEW failed \in BOOLEAN, Reserve(c, failed)
        PROVE  allocations'[c][t] \cap allocations[d][t] = {}
    BY <1>0, <2>0, <2>4, ReserveEffect
  <2>5. ASSUME NEW failed \in BOOLEAN, Probe(c, failed)
        PROVE  allocations'[c][t] \cap allocations[d][t] = {}
    <3> DEFINE tid == call[c].tid
               iid == call[c].iid
    <3>1. \/ UNCHANGED allocations
          \/ /\ Excludable(c, Offset(tid, iid)) /\ tid \in TIDs /\ iid \in IIDs
             /\ allocations' = [allocations EXCEPT ![c][tid] = @ \cup {iid}]
      BY <1>0, <2>5, ProbeEffect
    <3>2. CASE UNCHANGED allocations
      BY <2>0, <3>2
    <3>3. CASE /\ Excludable(c, Offset(tid, iid)) /\ tid \in TIDs /\ iid \in IIDs
               /\ allocations' = [allocations EXCEPT ![c][tid] = @ \cup {iid}]
      <4>1. iid \notin allocations[d][tid]
        BY <1>0, <1>1, <3>3 DEF Excludable, Locked, Needs
      <4>2. allocations'[c][t] = IF t = tid THEN allocations[c][t] \cup {iid}
                                 ELSE allocations[c][t]
        BY <1>0, <3>3 DEF TypeOK
      <4>3. QED
        BY <2>0, <4>1, <4>2
    <3>4. QED
      BY <3>1, <3>2, <3>3
  <2>6. ASSUME NEW failed \in BOOLEAN, ReleaseCfls(c, failed)
        PROVE  allocations'[c][t] \cap allocations[d][t] = {}
    BY <1>0, <2>0, <2>6, ReleaseEffect
  <2>7. ASSUME NEW tid \in TIDs, NEW iid \in IIDs, InstanceIdFree(c, tid, iid)
        PROVE  allocations'[c][t] \cap allocations[d][t] = {}
    <3>1. allocations' = [allocations EXCEPT ![c][tid] = @ \ {iid}]
      BY <1>0, <2>7, FreeEffect
    <3>2. allocations'[c][t] \subseteq allocations[c][t]
      BY <1>0, <3>1 DEF TypeOK
    <3>3. QED
      BY <2>0, <3>2
  <2>8. QED
    BY <2>1, <2>2, <2>3, <2>4, <2>5, <2>6, <2>7 DEF ActorStep
<1>2. \A d \in Contexts \ {c} : allocations'[d] = allocations[d]
  BY <1>0, OthersUnchanged
<1>3. QED
  BY <1>0, <1>1, <1>2 DEF OneHolder

-----------------------------------------------------------------------------
(* The loop *)

\* Distances are numbers, different for different instance IDs, and add up along
\* the loop.
LEMMA DistanceFacts ==
    ASSUME NEW p \in IIDs, NEW i \in IIDs, NEW j \in IIDs
    PROVE  /\ Distance(p, i) \in Nat
           /\ Distance(p, i) = 0 <=> i = p
           /\ Distance(p, i) = Distance(p, j) => i = j
           /\ Distance(p, i) < Distance(p, j) =>
                 Distance(i, j) = Distance(p, j) - Distance(p, i)
BY IIDFacts DEF Distance

\* Of two distances in the loop one is no larger.
LEMMA NatOrder ==
    ASSUME NEW m \in Nat, NEW n \in Nat
    PROVE  m <= n \/ (m > n /\ n < m)
OBVIOUS

\* IDs no further on than another are nearer, or are it.
LEMMA NearerOrSame ==
    ASSUME NEW p \in IIDs, NEW i \in IIDs, NEW n \in IIDs,
           Distance(p, n) <= Distance(p, i)
    PROVE  Distance(p, n) < Distance(p, i) \/ n = i
<1>1. /\ Distance(p, n) \in Nat /\ Distance(p, i) \in Nat
      /\ Distance(p, n) = Distance(p, i) => n = i
  BY DistanceFacts
<1> QED
  BY <1>1

\* The first candidate after i is the next in the loop: what lies between is allocated.
LEMMA BetweenIsOwn ==
    ASSUME TypeOK, NEW c \in Contexts, NEW tid \in TIDs, NEW i \in IIDs,
           NEW k \in Candidates(c, tid, i),
           \A j \in Candidates(c, tid, i) : Distance(i, k) <= Distance(i, j),
           NEW n \in IIDs, Distance(prev[c][tid], i) < Distance(prev[c][tid], n),
           Distance(prev[c][tid], n) < Distance(prev[c][tid], k)
    PROVE  n \in allocations[c][tid]
<1> DEFINE p == prev[c][tid]
<1>1. p \in IIDs /\ k \in IIDs /\ Distance(p, i) < Distance(p, k)
  BY DEF TypeOK, Candidates
<1>2. SUFFICES ASSUME n \notin allocations[c][tid] PROVE FALSE
  OBVIOUS
<1>3. n \in Candidates(c, tid, i)
  BY <1>2 DEF Candidates
<1>4. Distance(i, k) <= Distance(i, n)
  BY <1>3
<1> HIDE DEF p
<1>5. Distance(p, n) < Distance(p, k) /\ Distance(p, i) < Distance(p, n)
  BY DEF p
<1>6. /\ Distance(i, k) = Distance(p, k) - Distance(p, i)
      /\ Distance(i, n) = Distance(p, n) - Distance(p, i)
      /\ Distance(p, k) \in Nat /\ Distance(p, n) \in Nat /\ Distance(p, i) \in Nat
  BY <1>1, <1>5, DistanceFacts
<1>7. QED
  BY <1>4, <1>5, <1>6

\* What another context has locked is what it had locked.
LEMMA ExcludableStep ==
    ASSUME TypeOK, NEW c \in Contexts, ActorStep(c), NEW offset
    PROVE  Excludable(c, offset)' <=> Excludable(c, offset)
<1>1. \A d \in Contexts \ {c} : locks'[d] = locks[d]
  BY OthersUnchanged
<1>2. QED
  BY <1>1 DEF Excludable

\* The loop of the actor, before a step and after.
LoopOK(c) ==
    /\ ~Idle(c) => call[c].iid \notin allocations[c][call[c].tid]
    /\ ~Idle(c) /\ alone[c] =>
          \A iid \in IIDs : Passed(c, iid) => InUse(c, call[c].tid, iid)
    /\ alone[c] /\ call[c].pc = "full" =>
          \A iid \in IIDs \ {prev[c][call[c].tid]} : InUse(c, call[c].tid, iid)

\* NotOwn, PassedInUse and UndisturbedAllocFindsFree, context by context.
LEMMA LoopParts ==
    NotOwn /\ PassedInUse /\ UndisturbedAllocFindsFree <=> \A c \in Contexts : LoopOK(c)
BY DEF NotOwn, PassedInUse, UndisturbedAllocFindsFree, LoopOK

\* The actor passes over nothing that is free.
LEMMA ActorLoop ==
    ASSUME IInv, NEW c \in Contexts, ActorStep(c)
    PROVE  LoopOK(c)'
<1>0. TypeOK /\ LoopOK(c)
  BY IInvParts, LoopParts
<1>x. \A offset : Excludable(c, offset)' <=> Excludable(c, offset)
  BY <1>0, ExcludableStep
<1>i. ASSUME call'[c].pc = "idle" PROVE LoopOK(c)'
  BY <1>i DEF LoopOK, Idle
<1>1. CASE InstanceDbInit(c)
  <2>1. UNCHANGED <<prev, allocations, locks, call>> /\ alone'[c] = alone[c]
    BY <1>0, <1>1, InitEffect
  <2>2. QED
    BY <1>0, <2>1 DEF LoopOK, Idle, Passed, InUse, Excludable
<1>2. CASE Close(c)
  BY <1>0, <1>2, <1>i, CloseEffect
<1>3. ASSUME NEW t \in TIDs, AllocStart(c, t)
      PROVE  LoopOK(c)'
  <2> DEFINE p == prev[c][t]
  <2>p. p \in IIDs
    BY <1>0 DEF TypeOK
  <2>1. /\ UNCHANGED <<prev, allocations>> /\ call'[c].tid = t
        /\ \/ call'[c].pc = "full" /\ Candidates(c, t, p) = {}
           \/ /\ call'[c].pc = "reserve" /\ ~call'[c].err
              /\ call'[c].iid \in Candidates(c, t, p)
              /\ \A j \in Candidates(c, t, p) :
                    Distance(p, call'[c].iid) <= Distance(p, j)
    BY <1>0, <1>3, StartEffect
  <2>2. CASE call'[c].pc = "full" /\ Candidates(c, t, p) = {}
    <3>1. ASSUME NEW n \in IIDs, n # p PROVE n \in allocations[c][t]
      <4>1. Distance(p, n) > Distance(p, p)
        BY <2>p, <3>1, DistanceFacts
      <4>2. QED
        BY <2>2, <4>1 DEF Candidates
    <3>2. QED
      BY <2>1, <2>2, <3>1 DEF LoopOK, Idle, InUse
  <2>3. CASE /\ call'[c].pc = "reserve" /\ ~call'[c].err
             /\ call'[c].iid \in Candidates(c, t, p)
             /\ \A j \in Candidates(c, t, p) :
                   Distance(p, call'[c].iid) <= Distance(p, j)
    <3> DEFINE k == call'[c].iid
    <3>1. k \in Candidates(c, t, p) /\ k \notin allocations[c][t]
      BY <2>3 DEF Candidates
    <3>2. ASSUME NEW n \in IIDs, n # p, Distance(p, n) < Distance(p, k)
          PROVE  n \in allocations[c][t]
      <4>1. Distance(p, p) < Distance(p, n)
        BY <2>p, <3>2, DistanceFacts
      <4>2. QED
        BY <1>0, <2>p, <2>3, <3>2, <4>1, BetweenIsOwn
    <3>3. QED
      BY <2>1, <2>3, <3>1, <3>2 DEF LoopOK, Idle, InUse, Passed
  <2>4. QED
    BY <2>1, <2>2, <2>3
<1>4. ASSUME NEW failed \in BOOLEAN, Reserve(c, failed)
      PROVE  LoopOK(c)'
  <2>1. /\ UNCHANGED <<prev, allocations>> /\ alone'[c] = alone[c]
        /\ call[c].pc = "reserve"
        /\ \/ call'[c].pc = "idle"
           \/ /\ call'[c].pc = "probe" /\ call'[c].tid = call[c].tid
              /\ call'[c].iid = call[c].iid
    BY <1>0, <1>4, ReserveEffect
  <2>2. QED
    BY <1>0, <1>i, <1>x, <2>1 DEF LoopOK, Idle, Passed, InUse
<1>5. ASSUME NEW failed \in BOOLEAN, Probe(c, failed)
      PROVE  LoopOK(c)'
  <2> DEFINE t == call[c].tid
             i == call[c].iid
  <2>1. /\ alone'[c] = alone[c] /\ call[c].pc = "probe"
        /\ \/ call'[c].pc = "idle"
           \/ /\ call'[c].pc = "release" /\ call'[c].tid = t /\ call'[c].iid = i
              /\ ~call'[c].err => ~Excludable(c, Offset(t, i))
              /\ UNCHANGED <<prev, allocations>>
    BY <1>0, <1>5, ProbeEffect
  <2>2. QED
    BY <1>0, <1>i, <1>x, <2>1 DEF LoopOK, Idle, Passed, InUse
<1>6. ASSUME NEW failed \in BOOLEAN, ReleaseCfls(c, failed)
      PROVE  LoopOK(c)'
  <2> DEFINE t == call[c].tid
             i == call[c].iid
             p == prev[c][t]
  <2>1. /\ UNCHANGED <<prev, allocations>> /\ alone'[c] = alone[c]
        /\ t \in TIDs /\ i \in IIDs /\ call[c].pc = "release"
        /\ \/ call'[c].pc = "idle"
           \/ /\ call'[c].tid = t /\ ~call[c].err
              /\ \/ call'[c].pc = "full" /\ Candidates(c, t, i) = {}
                 \/ /\ call'[c].pc = "reserve" /\ ~call'[c].err
                    /\ call'[c].iid \in Candidates(c, t, i)
                    /\ \A j \in Candidates(c, t, i) :
                          Distance(i, call'[c].iid) <= Distance(i, j)
    BY <1>0, <1>6, ReleaseEffect
  <2>p. p \in IIDs
    BY <1>0, <2>1 DEF TypeOK
  <2>2. ASSUME alone[c], ~call[c].err, NEW n \in IIDs, n # p,
               Distance(p, n) <= Distance(p, i)
        PROVE  InUse(c, t, n)
    <3>1. Distance(p, n) < Distance(p, i) \/ n = i
      BY <2>1, <2>p, <2>2, NearerOrSame
    <3>2. Passed(c, n)
      BY <2>1, <2>2, <3>1 DEF Passed
    <3>3. QED
      BY <1>0, <2>1, <2>2, <3>2 DEF LoopOK, Idle
  <2>3. CASE /\ call'[c].tid = t /\ ~call[c].err
             /\ call'[c].pc = "full" /\ Candidates(c, t, i) = {}
    <3>1. ASSUME alone[c], NEW n \in IIDs, n # p PROVE InUse(c, t, n)
      <4>1. CASE Distance(p, n) <= Distance(p, i)
        BY <2>2, <2>3, <3>1, <4>1
      <4>2. CASE Distance(p, n) > Distance(p, i)
        BY <2>3, <4>2 DEF Candidates, InUse
      <4>3. Distance(p, n) \in Nat /\ Distance(p, i) \in Nat
        BY <2>1, <2>p, DistanceFacts
      <4>4. Distance(p, n) <= Distance(p, i) \/ Distance(p, n) > Distance(p, i)
        BY <4>3, NatOrder
      <4>5. QED
        BY <4>1, <4>2, <4>4
    <3>2. QED
      BY <1>x, <2>1, <2>3, <3>1 DEF LoopOK, Idle, InUse
  <2>4. CASE /\ call'[c].tid = t /\ ~call[c].err
             /\ call'[c].pc = "reserve" /\ ~call'[c].err
             /\ call'[c].iid \in Candidates(c, t, i)
             /\ \A j \in Candidates(c, t, i) :
                   Distance(i, call'[c].iid) <= Distance(i, j)
    <3> DEFINE k == call'[c].iid
    <3>1. k \in Candidates(c, t, i) /\ k \notin allocations[c][t]
      BY <2>4 DEF Candidates
    <3>2. ASSUME alone[c], NEW n \in IIDs, n # p, Distance(p, n) < Distance(p, k)
          PROVE  InUse(c, t, n)
      <4>1. CASE Distance(p, n) <= Distance(p, i)
        BY <2>2, <2>4, <3>2, <4>1
      <4>2. CASE Distance(p, i) < Distance(p, n)
        BY <1>0, <2>1, <2>4, <3>2, <4>2, BetweenIsOwn DEF InUse
      <4>3. Distance(p, n) \in Nat /\ Distance(p, i) \in Nat
        BY <2>1, <2>p, DistanceFacts
      <4>4. Distance(p, n) <= Distance(p, i) \/ Distance(p, i) < Distance(p, n)
        BY <4>3, NatOrder
      <4>5. QED
        BY <4>1, <4>2, <4>4
    <3>3. QED
      BY <1>x, <2>1, <2>4, <3>1, <3>2 DEF LoopOK, Idle, InUse, Passed
  <2>5. QED
    BY <1>i, <2>1, <2>3, <2>4
<1>7. ASSUME NEW t \in TIDs, NEW i \in IIDs, InstanceIdFree(c, t, i)
      PROVE  LoopOK(c)'
  BY <1>0, <1>7, <1>i, FreeEffect
<1>8. QED
  BY <1>1, <1>2, <1>3, <1>4, <1>5, <1>6, <1>7 DEF ActorStep

\* The loops are in order after every step.
LEMMA LoopStep ==
    ASSUME IInv, NEW c \in Contexts, ActorStep(c)
    PROVE  NotOwn' /\ PassedInUse' /\ UndisturbedAllocFindsFree'
<1>1. ASSUME NEW d \in Contexts, d # c
      PROVE  LoopOK(d)'
  <2>1. TypeOK /\ LoopOK(d)
    BY IInvParts, LoopParts
  <2>2. /\ allocations'[d] = allocations[d] /\ call'[d] = call[d] /\ ~alone'[d]
    BY <1>1, <2>1, OthersUnchanged
  <2>3. QED
    BY <2>1, <2>2 DEF LoopOK, Idle
<1>2. \A d \in Contexts : LoopOK(d)'
  BY <1>1, ActorLoop
<1>3. QED
  BY <1>2 DEF NotOwn, PassedInUse, UndisturbedAllocFindsFree, LoopOK

-----------------------------------------------------------------------------
(* The theorems *)

\* The types are kept by every step.
LEMMA TypeStep ==
    ASSUME TypeOK, NEW c \in Contexts, ActorStep(c)
    PROVE  TypeOK'
BY InitEffect, CloseEffect, StartEffect, ReserveEffect, ProbeEffect, ReleaseEffect,
   FreeEffect DEF ActorStep

\* IInv holds at first: nothing is allocated, locked or called for.
LEMMA InitIInv == Init => IInv
<1> SUFFICES ASSUME Init PROVE IInv
  OBVIOUS
<1>1. TypeOK
  BY InitType
<1>2. ASSUME NEW c \in Contexts
      PROVE  call[c].pc = "idle" /\ locks[c] = {} /\ \A t \in TIDs : allocations[c][t] = {}
  BY NoCallType DEF Init
<1>3. OneHolder
  BY <1>2 DEF OneHolder
<1>4. \A c \in Contexts : LocksOK(c)
  BY <1>2 DEF LocksOK, Needs
<1>5. \A c \in Contexts : LoopOK(c)
  BY <1>2 DEF LoopOK, Idle
<1>6. QED
  BY <1>1, <1>3, <1>4, <1>5, IInvParts, LocksParts, LoopParts

\* IInv is inductive.
LEMMA IInvStep == IInv /\ [Next]_vars => IInv'
<1> SUFFICES ASSUME IInv, [Next]_vars PROVE IInv'
  OBVIOUS
<1>1. CASE Next
  <2>1. PICK c \in Contexts : ActorStep(c)
    BY <1>1, NextActor
  <2>2. TypeOK' /\ OneHolder'
    BY <2>1, TypeStep, HolderStep, IInvParts
  <2>3. Locked' /\ LocksMatch'
    BY <2>1, LocksStep
  <2>4. NotOwn' /\ PassedInUse' /\ UndisturbedAllocFindsFree'
    BY <2>1, LoopStep
  <2>5. QED
    BY <2>2, <2>3, <2>4 DEF IInv, Locked, NotOwn, PassedInUse
<1>2. CASE UNCHANGED vars
  <2> USE <1>2 DEF vars
  <2>1. TypeOK'
    BY DEF IInv, TypeOK
  <2>2. OneHolder'
    BY DEF IInv, OneHolder
  <2>3. Locked' /\ LocksMatch'
    <3>1. Locked /\ LocksMatch
      BY DEF IInv, Locked
    <3>2. ASSUME NEW c \in Contexts, NEW tid \in TIDs, NEW iid \in IIDs
          PROVE  Needs(c, tid, iid)' <=> Needs(c, tid, iid)
      BY DEF Needs, Idle
    <3>3. Locked'
      BY <3>1, <3>2 DEF Locked
    <3>4. LocksMatch'
      BY <3>1, <3>2 DEF LocksMatch
    <3>5. QED
      BY <3>3, <3>4
  <2>4. NotOwn' /\ PassedInUse'
    <3>1. NotOwn /\ PassedInUse
      BY DEF IInv, NotOwn, PassedInUse
    <3>2. NotOwn'
      BY <3>1 DEF NotOwn, Idle
    <3>3. ASSUME NEW c \in Contexts, NEW iid \in IIDs
          PROVE  /\ Passed(c, iid)' <=> Passed(c, iid)
                 /\ InUse(c, call[c].tid, iid)' <=> InUse(c, call[c].tid, iid)
      BY DEF Passed, InUse, Excludable
    <3>4. PassedInUse'
      BY <3>1, <3>3 DEF PassedInUse, Idle
    <3>5. QED
      BY <3>2, <3>4
  <2>5. UndisturbedAllocFindsFree'
    BY DEF IInv, UndisturbedAllocFindsFree, Passed, InUse, Excludable
  <2>6. QED
    BY <2>1, <2>2, <2>3, <2>4, <2>5 DEF IInv, Locked, NotOwn, PassedInUse
<1>3. QED
  BY <1>1, <1>2

\* IInv holds in every reachable state.
THEOREM Invariance == Spec => []IInv
BY InitIInv, IInvStep, PTL DEF Spec

\* The contexts and the lock database keep their types.
THEOREM TypeCorrect == Spec => []TypeOK
<1>1. IInv => TypeOK
  BY DEF IInv
<1>2. QED
  BY <1>1, Invariance, PTL

\* Two contexts never have the same instance ID of a terminus.
THEOREM AllocationsExclusive == Spec => []OneHolder
<1>1. IInv => OneHolder
  BY DEF IInv
<1>2. QED
  BY <1>1, Invariance, PTL

\* Without a failed unlock, the locks of a context are those of its allocations and of
\* the instance ID it tries.
THEOREM NoLockLeftBehind == Spec => []LocksMatch
<1>1. IInv => LocksMatch
  BY DEF IInv
<1>2. QED
  BY <1>1, Invariance, PTL

\* An undisturbed alloc finds a free instance ID if there is one besides prev.
THEOREM AllocFindsFree == Spec => []UndisturbedAllocFindsFree
<1>1. IInv => UndisturbedAllocFindsFree
  BY DEF IInv
<1>2. QED
  BY <1>1, Invariance, PTL

-----------------------------------------------------------------------------
(* Refinement *)

\* What each context holds, as the abstract allocator sees it.
Held == [c \in Contexts |-> {p \in TIDs \X IIDs : p[2] \in allocations[c][p[1]]}]

\* Nobody holds anything at first.
LEMMA RefinementInit == Init => Allocator!AllocatorInit
<1> SUFFICES ASSUME Init PROVE Allocator!AllocatorInit
  OBVIOUS
<1>1. \A c \in Contexts : {p \in TIDs \X IIDs : p[2] \in allocations[c][p[1]]} = {}
  BY DEF Init
<1>2. QED
  BY <1>1 DEF Allocator!AllocatorInit

\* When a step leaves the other contexts' allocations alone, it changes Held only at
\* the actor.
LEMMA HeldStep ==
    ASSUME NEW c \in Contexts,
           \A d \in Contexts \ {c} : allocations'[d] = allocations[d],
           NEW S, {p \in TIDs \X IIDs : p[2] \in allocations'[c][p[1]]} = S
    PROVE  Held' = [Held EXCEPT ![c] = S]
BY DEF Held

\* A step that leaves the actor's allocations alone too leaves Held alone.
LEMMA HeldSame ==
    ASSUME UNCHANGED allocations
    PROVE  UNCHANGED Held
BY DEF Held

\* A successful probe acquires the instance ID, which nobody held.
LEMMA ProbeAcquires ==
    ASSUME IInv, NEW c \in Contexts, NEW failed \in BOOLEAN, Probe(c, failed),
           allocations' # allocations
    PROVE  \E tid \in TIDs, iid \in IIDs : Allocator!Acquire(c, tid, iid)
<1>0. TypeOK /\ Locked /\ NotOwn /\ ActorStep(c)
  BY IInvParts DEF ActorStep
<1>1. PICK t \in TIDs, i \in IIDs :
         /\ t = call[c].tid /\ i = call[c].iid /\ call[c].pc = "probe"
         /\ Excludable(c, Offset(t, i))
         /\ allocations' = [allocations EXCEPT ![c][t] = @ \cup {i}]
  BY <1>0, ProbeEffect
<1>2. ASSUME NEW d \in Contexts PROVE i \notin allocations[d][t]
  <2>1. CASE d = c
    BY <1>0, <1>1, <2>1 DEF NotOwn, Idle
  <2>2. CASE d # c
    BY <1>0, <1>1, <2>2 DEF Excludable, Locked, Needs
  <2>3. QED
    BY <2>1, <2>2
<1>3. {p \in TIDs \X IIDs : p[2] \in allocations'[c][p[1]]} = Held[c] \cup {<<t, i>>}
  <2>1. ASSUME NEW p \in TIDs \X IIDs
        PROVE  p[2] \in allocations'[c][p[1]] <=>
                  p[2] \in allocations[c][p[1]] \/ p = <<t, i>>
    <3>1. p[1] \in TIDs /\ p[2] \in IIDs /\ p = <<p[1], p[2]>>
      OBVIOUS
    <3>2. allocations'[c][p[1]] = IF p[1] = t THEN allocations[c][p[1]] \cup {i}
                                  ELSE allocations[c][p[1]]
      BY <1>0, <1>1, <3>1 DEF TypeOK
    <3>3. QED
      BY <3>1, <3>2
  <2>2. <<t, i>> \in TIDs \X IIDs
    BY <1>1
  <2>3. QED
    BY <2>1, <2>2 DEF Held
<1>4. \A d \in Contexts \ {c} : allocations'[d] = allocations[d]
  BY <1>0, OthersUnchanged
<1>5. Held' = [Held EXCEPT ![c] = Held[c] \cup {<<t, i>>}]
  BY <1>3, <1>4, HeldStep
<1>6. \A d \in Contexts : <<t, i>> \notin Held[d]
  BY <1>2 DEF Held
<1>7. Allocator!Acquire(c, t, i)
  BY <1>5, <1>6 DEF Allocator!Acquire, Allocator!Free, Held
<1>8. QED
  BY <1>7

\* Freeing releases an instance ID its caller holds.
LEMMA FreeReleases ==
    ASSUME IInv, NEW c \in Contexts, NEW t \in TIDs, NEW i \in IIDs,
           InstanceIdFree(c, t, i)
    PROVE  Allocator!Release(c, t, i)
<1>0. TypeOK /\ ActorStep(c)
  BY IInvParts DEF ActorStep
<1>1. /\ i \in allocations[c][t]
      /\ allocations' = [allocations EXCEPT ![c][t] = @ \ {i}]
  BY <1>0, FreeEffect
<1>2. {p \in TIDs \X IIDs : p[2] \in allocations'[c][p[1]]} = Held[c] \ {<<t, i>>}
  <2>1. ASSUME NEW p \in TIDs \X IIDs
        PROVE  p[2] \in allocations'[c][p[1]] <=>
                  p[2] \in allocations[c][p[1]] /\ p # <<t, i>>
    <3>1. p[1] \in TIDs /\ p[2] \in IIDs /\ p = <<p[1], p[2]>>
      OBVIOUS
    <3>2. allocations'[c][p[1]] = IF p[1] = t THEN allocations[c][p[1]] \ {i}
                                  ELSE allocations[c][p[1]]
      BY <1>0, <1>1, <3>1 DEF TypeOK
    <3>3. QED
      BY <3>1, <3>2
  <2>2. QED
    BY <2>1 DEF Held
<1>3. \A d \in Contexts \ {c} : allocations'[d] = allocations[d]
  BY <1>0, OthersUnchanged
<1>4. Held' = [Held EXCEPT ![c] = Held[c] \ {<<t, i>>}]
  BY <1>2, <1>3, HeldStep
<1>5. <<t, i>> \in Held[c]
  BY <1>1 DEF Held
<1>6. QED
  BY <1>4, <1>5 DEF Allocator!Release, Held

\* Every step is a step of the abstract allocator, or changes nothing of it.
LEMMA RefinementStep ==
    ASSUME IInv, [Next]_vars
    PROVE  Allocator!AllocatorNext \/ UNCHANGED Held
<1>1. CASE UNCHANGED vars
  BY <1>1, HeldSame DEF vars
<1>2. ASSUME NEW c \in Contexts, ActorStep(c)
      PROVE  Allocator!AllocatorNext \/ UNCHANGED Held
  <2>0. TypeOK
    BY IInvParts
  <2>1. CASE Close(c)
    <3>1. \A t \in TIDs : allocations'[c][t] = {}
      BY <2>0, <2>1, CloseEffect
    <3>2. {p \in TIDs \X IIDs : p[2] \in allocations'[c][p[1]]} = {}
      BY <3>1
    <3>3. \A d \in Contexts \ {c} : allocations'[d] = allocations[d]
      BY <1>2, <2>0, OthersUnchanged
    <3>4. Held' = [Held EXCEPT ![c] = {}]
      BY <3>2, <3>3, HeldStep
    <3>5. Allocator!ReleaseAll(c)
      BY <3>4 DEF Allocator!ReleaseAll, Held
    <3>6. QED
      BY <3>5 DEF Allocator!AllocatorNext
  <2>2. ASSUME NEW failed \in BOOLEAN, Probe(c, failed)
        PROVE  Allocator!AllocatorNext \/ UNCHANGED Held
    BY <2>2, ProbeAcquires, HeldSame DEF Allocator!AllocatorNext
  <2>3. ASSUME NEW t \in TIDs, NEW i \in IIDs, InstanceIdFree(c, t, i)
        PROVE  Allocator!AllocatorNext
    BY <2>3, FreeReleases DEF Allocator!AllocatorNext
  <2>4. CASE \/ InstanceDbInit(c)
             \/ \E t \in TIDs : AllocStart(c, t)
             \/ \E failed \in BOOLEAN : Reserve(c, failed) \/ ReleaseCfls(c, failed)
    <3>1. UNCHANGED allocations
      BY <2>0, <2>4, InitEffect, StartEffect, ReserveEffect, ReleaseEffect
    <3>2. QED
      BY <3>1, HeldSame
  <2>5. QED
    BY <1>2, <2>1, <2>2, <2>3, <2>4 DEF ActorStep
<1>3. QED
  BY <1>1, <1>2, NextActor

\* The database implements the abstract allocator.
THEOREM Refinement == Spec => ImplementsAllocator
<1>1. Init => Allocator!AllocatorInit
  BY RefinementInit
<1>2. IInv /\ [Next]_vars => [Allocator!AllocatorNext]_Held
  BY RefinementStep
<1>3. QED
  BY <1>1, <1>2, Invariance, PTL DEF Spec, ImplementsAllocator, Allocator!AllocatorSpec, Held
=============================================================================
