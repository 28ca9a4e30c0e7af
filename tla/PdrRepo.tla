------------------------------ MODULE PdrRepo ------------------------------
(***************************************************************************)
(* The repository of platform descriptor records (PDRs) of                 *)
(* src/dsp/pdr.c: a singly linked list of records, their number and        *)
(* their total size.                                                       *)
(*                                                                         *)
(* The list is a sequence; repo->first and repo->last are its ends.  Of a  *)
(* record's data the model keeps the type, the handle in the header, one   *)
(* ID (the FRU record set, the sensor, the effecter, or the terminus,      *)
(* TID and EID of a locator), the validity of a locator, and the contained *)
(* entities of an association.  A call that fails changes nothing and is   *)
(* no step; that includes a failing malloc().  Uninitialized memory is any *)
(* value.                                                                  *)
(***************************************************************************)
EXTENDS Integers, Sequences, FiniteSets, Functions

CONSTANTS
    Ids,              \* IDs of FRU record sets, sensors, effecters, locators
    Entities,         \* entities contained in associations
    Unknown,          \* the content of memory that nobody has written
    TerminusHandles,
    Own,              \* the terminus handle of this terminus
    AddedTypes,       \* types of the records that callers add, by terminus
    NullTypes,        \* those that are added without a place for the handle
    UINT32_MAX,       \* the largest record handle
    UINT16,           \* 2^16: the modulus of uint16_t arithmetic
    UINT8_MAX,        \* the largest number of contained entities
    MaxRecords,       \* bound on record_count, and with it on the repository
    MaxExtended       \* bound on the associations of several entities at a time

ASSUME PdrAssumption ==
    /\ Unknown \notin Entities
    /\ Own \in TerminusHandles
    /\ UINT32_MAX \in Nat \ {0}
    /\ UINT16 \in Nat \ {0}
    /\ UINT8_MAX \in Nat \ {0}
    /\ MaxRecords \in 0 .. UINT32_MAX

VARIABLES
    records,
    record_count,
    size

vars == <<records, record_count, size>>

Handles == 1 .. UINT32_MAX

PlainTypes == {"FRU_RECORD_SET", "STATE_SENSOR", "STATE_EFFECTER", "TERMINUS_LOCATOR"}

\* The data of a record, the handle in its header apart.
PlainData == [type : PlainTypes, id : Ids, validity : {0, 1}, children : {<<>>}]

AssociationData(children) ==
    [type |-> "ENTITY_ASSOCIATION", id |-> 0, validity |-> 0, children |-> children]

\* What pldm_pdr_add is given.
NewData ==
    {d \in PlainData : d.validity = IF d.type = "TERMINUS_LOCATOR" THEN 1 ELSE 0}
       \cup {AssociationData(<<e>>) : e \in Entities}

Record(handle, header, remote, terminus, data) ==
    [record_handle |-> handle, hdr_handle |-> header, is_remote |-> remote,
     terminus_handle |-> terminus, type |-> data.type, id |-> data.id,
     validity |-> data.validity, children |-> data.children]

RecordSize(r) ==
    CASE r.type = "FRU_RECORD_SET" -> 20
      [] r.type = "STATE_SENSOR" -> 28
      [] r.type = "STATE_EFFECTER" -> 30
      [] r.type = "TERMINUS_LOCATOR" -> 19
      [] OTHER -> 20 + 6 * Len(r.children)

\* The lengths without which a record is not decoded: the structures of state
\* sensor, state effecter, FRU record set and association PDRs.
SENSOR_MIN_SIZE == 24
EFFECTER_MIN_SIZE == 26
PDR_FRU_RECORD_SET_MIN_SIZE == 20
PDR_ENTITY_ASSOCIATION_MIN_SIZE == 26

TotalSize(recs, indices) ==
    SumFunctionOnSet([i \in DOMAIN recs |-> RecordSize(recs[i])], indices)

-----------------------------------------------------------------------------

\* The repository after a step.
Becomes(recs, count, bytes) ==
    /\ records' = recs
    /\ record_count' = count
    /\ size' = bytes

Init ==
    /\ records = <<>>
    /\ record_count = 0
    /\ size = 0

-----------------------------------------------------------------------------
(* Adding *)

\* "if true, then the PDR is not from this terminus" (pdr.h); callers say what is so.
IsRemote(terminus) == IF terminus = Own THEN 0 ELSE 1

PdrAdd(handle, header, terminus, data) ==
    /\ record_count < MaxRecords
    /\ LET r == Record(handle, header, IsRemote(terminus), terminus, data)
       IN  Becomes(Append(records, r), record_count + 1, size + RecordSize(r))

\* pldm_pdr_add, and pldm_pdr_add_fru_record_set for this terminus, with a handle,
\* which is then in the header, too.
AddGiven(handle, terminus, data) == PdrAdd(handle, handle, terminus, data)

\* The handle computed for a new record.
NextHandle == IF records = <<>> THEN 1 ELSE records[Len(records)].record_handle + 1

\* With the handle to be computed.  It is written to the header if the caller
\* passes a place for it, and not if they pass NULL.
AddComputed(terminus, data, pointer) ==
    /\ NextHandle <= UINT32_MAX
    /\ PdrAdd(NextHandle, IF pointer THEN NextHandle ELSE 0, terminus, data)

\* pldm_pdr_update_TL_pdr: the first locator for this terminus, TID and EID.
UpdateTLPdr(id, validity) ==
    \E i \in DOMAIN records :
       LET Matches(r) == r.type = "TERMINUS_LOCATOR" /\ r.id = id
       IN  /\ Matches(records[i])
           /\ \A j \in 1 .. (i - 1) : ~Matches(records[j])
           /\ Becomes([records EXCEPT ![i].validity = validity], record_count, size)

-----------------------------------------------------------------------------
(* Finding *)

\* The search stops with success at record i, the first of the records that match:
\* every record up to it has min bytes, and no earlier one matches.
FoundAt(i, min, matching) ==
    /\ i \in matching
    /\ \A j \in 1 .. i : RecordSize(records[j]) >= min
    /\ \A j \in 1 .. (i - 1) : j \notin matching

\* pldm_pdr_find_record_by_handle, and the record pldm_pdr_find_record returns.
FirstWithHandle(i, handle) ==
    /\ i \in DOMAIN records
    /\ records[i].record_handle = handle
    /\ \A j \in 1 .. (i - 1) : records[j].record_handle # handle

-----------------------------------------------------------------------------
(* Removing single records *)

\* pldm_pdr_get_prev_record goes by the handle: what it returns precedes the first
\* record with the handle of record i, and is NULL (0) if that is the head.
PrevIndex(first) == first - 1

\* pldm_pdr_remove_record: what lies between prev and the record goes with it.
RemoveRecord(i) ==
    \E first \in DOMAIN records :
       /\ FirstWithHandle(first, records[i].record_handle)
       /\ LET prev == PrevIndex(first)
          IN  /\ i = 1 \/ prev # 0
              /\ Becomes(SubSeq(records, 1, prev) \o SubSeq(records, i + 1, Len(records)),
                         record_count - 1, size - RecordSize(records[i]))

\* pldm_pdr_delete_by_sensor_id, pldm_pdr_delete_by_effecter_id and
\* pldm_pdr_remove_fru_record_set_by_rsi: each record is decoded before its
\* type is looked at.
DeleteById(type, min, id, remote) ==
    LET matching == {k \in DOMAIN records : /\ records[k].type = type
                                            /\ records[k].id = id
                                            /\ records[k].is_remote = remote}
    IN  \E i \in DOMAIN records : FoundAt(i, min, matching) /\ RemoveRecord(i)

DeleteBySensorId(id, remote) == DeleteById("STATE_SENSOR", SENSOR_MIN_SIZE, id, remote)

DeleteByEffecterId(id, remote) ==
    DeleteById("STATE_EFFECTER", EFFECTER_MIN_SIZE, id, remote)

RemoveFruRecordSetByRsi(id, remote) ==
    DeleteById("FRU_RECORD_SET", PDR_FRU_RECORD_SET_MIN_SIZE, id, remote)

\* pldm_pdr_delete_by_record_handle takes the handle from the header, as uint16_t.
DeleteByRecordHandle(handle, remote) ==
    LET matching == {k \in DOMAIN records :
                        /\ records[k].hdr_handle % UINT16 = handle
                        /\ records[k].is_remote = remote}
    IN  \E i \in DOMAIN records : FoundAt(i, 0, matching) /\ RemoveRecord(i)

-----------------------------------------------------------------------------
(* Removing many *)

Renumbered_RecordOnly(recs) ==
    [k \in DOMAIN recs |-> [recs[k] EXCEPT !.record_handle = k]]

\* The handles count from 1 again, in the records and in their headers.
Renumbered(recs) ==
    [k \in DOMAIN recs |-> [recs[k] EXCEPT !.record_handle = k, !.hdr_handle = k]]

\* Records m of them, at positions at[1] < at[2] < ..., are those that stay.
Kept(m, at, removed) ==
    /\ \A k, l \in 1 .. m : k < l => at[k] < at[l]
    /\ \A i \in DOMAIN records :
          i \notin removed <=> \E k \in 1 .. m : at[k] = i

RemoveAll(removed) ==
    /\ removed # {}
    /\ LET kept == DOMAIN records \ removed
           m == Cardinality(kept)
       IN  \E at \in [1 .. m -> kept] :
              /\ Kept(m, at, removed)
              /\ Becomes(Renumbered([k \in 1 .. m |-> records[at[k]]]),
                         record_count - (Len(records) - m),
                         size - TotalSize(records, removed))

RemovePdrsByTerminusHandle(terminus) ==
    RemoveAll({i \in DOMAIN records : records[i].terminus_handle = terminus})

RemoveRemotePdrs == RemoveAll({i \in DOMAIN records : records[i].is_remote = 1})

-----------------------------------------------------------------------------
(* Contained entities.  Callers add to what is found as an association. *)

Replace_GrowsOnly(i, r) ==
    Becomes([records EXCEPT ![i] = r], record_count,
            IF RecordSize(r) > RecordSize(records[i])
            THEN (size - RecordSize(records[i])) + RecordSize(r) ELSE size)

\* pldm_pdr_replace_record: at the same place, with the sizes exchanged.
Replace(i, r) ==
    Becomes([records EXCEPT ![i] = r], record_count,
            (size - RecordSize(records[i])) + RecordSize(r))

\* The copy of an association has its terminus_handle from malloc().
Copy(r, children, terminus) ==
    Record(r.record_handle, r.hdr_handle, r.is_remote, terminus, AssociationData(children))

MayExtend(i) ==
    /\ Len(records[i].children) < UINT8_MAX
    /\ Cardinality({k \in DOMAIN records \ {i} : Len(records[k].children) > 1})
          < MaxExtended

AddContained_MakesLocal(entity, handle, uninitialized) ==
    \E i \in DOMAIN records :
       /\ FirstWithHandle(i, handle)
       /\ records[i].type = "ENTITY_ASSOCIATION"
       /\ MayExtend(i)
       /\ Replace(i, [Copy(records[i], Append(records[i].children, entity), uninitialized)
                        EXCEPT !.is_remote = 0])

AddContained(entity, handle, uninitialized) ==
    \E i \in DOMAIN records :
       /\ FirstWithHandle(i, handle)
       /\ records[i].type = "ENTITY_ASSOCIATION"
       /\ MayExtend(i)
       /\ Replace(i, Copy(records[i], Append(records[i].children, entity), uninitialized))

\* pldm_entity_association_pdr_create_new: after the record named, with its handle
\* plus one, whoever has that handle already.
CreateNew(handle, entity, uninitialized) ==
    /\ handle # UINT32_MAX
    /\ record_count < MaxRecords
    /\ \E i \in DOMAIN records :
          /\ FirstWithHandle(i, handle)
          /\ LET r == Record(handle + 1, handle + 1, 0, uninitialized,
                             AssociationData(<<entity>>))
             IN  Becomes(SubSeq(records, 1, i) \o <<r>> \o
                            SubSeq(records, i + 1, Len(records)),
                         record_count + 1, size + RecordSize(r))

Lists(r, entity) == \E k \in DOMAIN r.children : r.children[k] = entity

\* pldm_entity_association_find_record_handle_by_entity: the handle of the first
\* association with this entity; what the caller passed, any handle, if there is
\* none; no handle at all if a record is too short to be an association.
ContainerHandle(entity, remote, handle) ==
    LET matching == {k \in DOMAIN records :
                        /\ records[k].is_remote = remote
                        /\ records[k].type = "ENTITY_ASSOCIATION"
                        /\ Lists(records[k], entity)}
    IN  \/ \E i \in DOMAIN records :
              /\ FoundAt(i, PDR_ENTITY_ASSOCIATION_MIN_SIZE, matching)
              /\ handle = records[i].record_handle
        \/ /\ \A i \in DOMAIN records :
                 RecordSize(records[i]) >= PDR_ENTITY_ASSOCIATION_MIN_SIZE
           /\ matching = {}

LeftOut_StopsAtEntity(children, entity, left) ==
    \E m \in 0 .. Len(left) : \E at \in [1 .. m -> DOMAIN children] :
       /\ \A k, l \in 1 .. m : k < l => at[k] < at[l]
       /\ \A k \in DOMAIN children :
             (\A j \in 1 .. k : children[j] # entity) <=> \E l \in 1 .. m : at[l] = k
       /\ \A k \in 1 .. m : left[k] = children[at[k]]

\* The children that are left when entity is taken out of a record of len + 1: the
\* others in order and, if it was there more than once, memory nobody has written.
LeftOut(children, entity, left) ==
    \E m \in 0 .. Len(left) : \E at \in [1 .. m -> DOMAIN children] :
       /\ \A k, l \in 1 .. m : k < l => at[k] < at[l]
       /\ \A k \in DOMAIN children :
             children[k] # entity <=> \E l \in 1 .. m : at[l] = k
       /\ \A k \in 1 .. m : left[k] = children[at[k]]

\* The record's number of children is read as one.  In its place state sensor and
\* effecter PDRs have the upper byte of a container ID, which may be any; the other
\* records are too short.
CountsOne(r) == Len(r.children) = 1 \/ r.type \in {"STATE_SENSOR", "STATE_EFFECTER"}

RemoveContained(entity, remote) ==
    \E i \in DOMAIN records :
       /\ FirstWithHandle(i, records[i].record_handle)
       /\ ContainerHandle(entity, remote, records[i].record_handle)
       /\ \/ CountsOne(records[i]) /\ RemoveRecord(i)
          \/ \E left \in [1 .. (Len(records[i].children) - 1) -> Entities \cup {Unknown}] :
                /\ Len(records[i].children) > 1
                /\ LeftOut(records[i].children, entity, left)
                /\ \E uninitialized \in TerminusHandles :
                      Replace(i, Copy(records[i], left, uninitialized))

-----------------------------------------------------------------------------

Next ==
    \/ \E terminus \in TerminusHandles, data \in NewData :
          /\ data.type \in AddedTypes[terminus]
          /\ \/ \E handle \in Handles : AddGiven(handle, terminus, data)
             \/ AddComputed(terminus, data, TRUE)
             \/ data.type \in NullTypes /\ AddComputed(terminus, data, FALSE)
    \/ \E id \in Ids, validity \in {0, 1} : UpdateTLPdr(id, validity)
    \/ \E id \in Ids, remote \in {0, 1} :
          \/ DeleteBySensorId(id, remote)
          \/ DeleteByEffecterId(id, remote)
          \/ RemoveFruRecordSetByRsi(id, remote)
    \/ \E handle \in 0 .. UINT32_MAX, remote \in {0, 1} :
          DeleteByRecordHandle(handle, remote)
    \/ \E terminus \in TerminusHandles : RemovePdrsByTerminusHandle(terminus)
    \/ RemoveRemotePdrs
    \/ \E entity \in Entities, handle \in Handles, any \in TerminusHandles :
          \/ AddContained(entity, handle, any)
          \/ CreateNew(handle, entity, any)
    \/ \E entity \in Entities, remote \in {0, 1} : RemoveContained(entity, remote)

Spec == Init /\ [][Next]_vars

-----------------------------------------------------------------------------
(* Properties *)

ChildType == Seq(Entities \cup {Unknown})

RecordType ==
    [record_handle : Handles, hdr_handle : 0 .. UINT32_MAX, is_remote : {0, 1},
     terminus_handle : TerminusHandles, type : PlainTypes \cup {"ENTITY_ASSOCIATION"},
     id : Ids \cup {0}, validity : {0, 1}, children : ChildType]

\* Handles fit 32 bits and are never 0, which asks for the first record, or for a
\* new handle.
TypeOK ==
    /\ records \in Seq(RecordType)
    /\ record_count \in Int

\* Two records have the same handle: callers give handles, pldm_pdr_add takes the
\* one after the last record's and create_new the one after its neighbour's, and
\* nobody asks who has it.
Clash == \E i, j \in DOMAIN records :
            i # j /\ records[i].record_handle = records[j].record_handle

\* What record_count and size say beyond what is in the list.
ExtraCount == record_count - Len(records)
ExtraSize == size - TotalSize(records, DOMAIN records)

\* pldm_pdr_get_record_count and pldm_pdr_get_repo_size are never less than what is
\* in the list, so that no removal wraps them or fails the assert of
\* pldm_pdr_remove_record, and as long as no two records share a handle every
\* addition, replacement and removal changes them by what it does to the list: they
\* begin as 0 and are the number and the bytes of the records.
TotalsMatch ==
    [][ /\ ExtraCount' >= 0 /\ ExtraSize' >= 0
        /\ ~Clash => ExtraCount' = ExtraCount /\ ExtraSize' = ExtraSize ]_vars

\* What pldm_pdr_find_record finds under a handle has that handle in its header,
\* too, unless the record was added without a place for its handle: the header goes
\* to other termini and is what pldm_pdr_delete_by_record_handle looks at. Handles
\* fit 32 bits and are never 0, which asks for the first record.
HeadersAgree ==
    \A i \in DOMAIN records :
       /\ records[i].record_handle \in Handles
       /\ records[i].hdr_handle \in {records[i].record_handle, 0}

ListsTwice(r) ==
    \E a, b \in DOMAIN r.children : a # b /\ r.children[a] = r.children[b]

\* An association lists what was put into it, and no memory that nobody wrote.  Such
\* memory gets in at one place only, when an entity is taken out of an association
\* that lists one twice, and stays in that association.
ChildrenKnown ==
    [][ \A j \in DOMAIN records' : Lists(records'[j], Unknown) =>
           \E i \in DOMAIN records :
              \/ records[i].children = records'[j].children
              \/ /\ records[i].record_handle = records'[j].record_handle
                 /\ ListsTwice(records[i]) \/ Lists(records[i], Unknown) ]_vars

\* The records are one, perhaps with other children.
SameRecord(r, q) ==
    /\ r.record_handle = q.record_handle
    /\ r.hdr_handle = q.hdr_handle
    /\ r.is_remote = q.is_remote
    /\ r.type = q.type
    /\ r.id = q.id

\* What pldm_pdr_find_record finds under a handle that was in use is a record that
\* had the handle before, with its type, its owner and its ID, and the only one that
\* did if there was only one: unless the step is create_new, which takes the handle
\* after its neighbour's whoever has it, or removes a terminus or the remote records
\* and numbers the others anew.
HandlesKeepRecords ==
    [][ \/ \A handle \in Handles, j \in DOMAIN records' :
              /\ FirstWithHandle(j, handle)'
              /\ \E i \in DOMAIN records : records[i].record_handle = handle
              => \/ \E i \in DOMAIN records : SameRecord(records[i], records'[j])
                 \/ \E entity \in Entities, any \in TerminusHandles :
                       CreateNew(handle - 1, entity, any)
        \/ \E terminus \in TerminusHandles : RemovePdrsByTerminusHandle(terminus)
        \/ RemoveRemotePdrs ]_vars
=============================================================================
