------------------------------- MODULE FruTable -------------------------------
(***************************************************************************)
(* The FRU record table of src/dsp/fru.c: records are appended to it, and  *)
(* get_fru_record_by_option copies those out that a requester asks for.    *)
(*                                                                         *)
(* A table is the sequence of its bytes.  Record set IDs are below 256,    *)
(* and the bytes of a field's value do not matter.  A call that is refused *)
(* changes nothing and is no step.                                         *)
(***************************************************************************)
EXTENDS Integers, Sequences, FiniteSets, Strings

CONSTANTS
    RecordSets,       \* record set identifiers, not 0
    RecordTypes,      \* record types, not 0
    FieldTypes,       \* types of fields, not 0
    FieldLengths,     \* lengths of their values
    TotalSize,        \* the memory for the table
    MaxFields         \* of a record

ASSUME FruAssumption ==
    /\ (RecordSets \cup RecordTypes \cup FieldTypes) \subseteq 1..255
    /\ FieldLengths \subseteq 0..255
    /\ TotalSize \in Nat /\ MaxFields \in 0..255

VARIABLES
    fru_table,        \* up to curr_size
    recorded          \* history: the records that were encoded

fruVars == <<fru_table, recorded>>

record_hdr_size == 5  \* of struct pldm_fru_record_data_format, without tlvs
TLV_HDR_SIZE == 2     \* of struct pldm_fru_record_tlv, without a value
MIN_TABLE_SIZE == 8   \* both, with a value of one byte

ENCODING == 1
VALUE_BYTE == 1

\* A field and a record as they are in a table.
Tlv(field) == <<field.type, field.length>> \o [k \in 1..field.length |-> VALUE_BYTE]
Tlvs(fields) == Joined([i \in DOMAIN fields |-> Tlv(fields[i])])
RecordHeader(rsi, type, num) == <<rsi, 0, type, num, ENCODING>>

FruInit == fru_table = <<>> /\ recorded = <<>>

\* A record without fields is encoded with no pointer to them: tlvs_size may not be 0
\* even so, and its room must be there.
encode_fru_record(rsi, type, fields) ==
    LET header == RecordHeader(rsi, type, Len(fields))
        tlvs == Tlvs(fields)
        tlvs_size == IF fields = <<>> THEN 1 ELSE Len(tlvs)
    IN  /\ TotalSize >= Len(fru_table) + record_hdr_size
        /\ TotalSize - (Len(fru_table) + record_hdr_size) >= tlvs_size
        /\ fru_table' = fru_table \o header \o tlvs
        /\ recorded' = Append(recorded, [rsi |-> rsi, type |-> type, fields |-> fields])

\* The application builds the table anew.
Rebuilt == recorded # <<>> /\ fru_table' = <<>> /\ recorded' = <<>>

FruNext ==
    \/ \E rsi \in RecordSets, type \in RecordTypes, n \in 0..MaxFields :
          \E fields \in [1..n -> [type : FieldTypes, length : FieldLengths]] :
             encode_fru_record(rsi, type, fields)
    \/ Rebuilt

FruSpec == FruInit /\ [][FruNext]_fruVars

-----------------------------------------------------------------------------
(* The search.  q is what is asked for: the record set, the type of records *)
(* and that of fields, 0 for any, and the room for what is found.           *)

\* A field of a record: the one before is at tlv and takes len bytes.  Those of a
\* record that is asked for are copied if they are of the type; the room is looked at
\* before.  An error leaves the loop.
FieldTurn(q, copy, s) ==
    LET size == Len(fru_table)
        t == s.tlv + s.len
        n == TLV_HDR_SIZE + fru_table[t + 2]
        short == \/ size - s.len < s.tlv \/ size - TLV_HDR_SIZE < t
                 \/ fru_table[t + 2] > size
                 \/ copy /\ (q.room - Len(s.out) < n \/ size - t < n)
        taken == copy /\ (fru_table[t + 1] = q.ft \/ q.ft = 0)
        after == [s EXCEPT !.tlv = t, !.len = n]
    IN  CASE s.rc # "SUCCESS" -> s
          [] s.rc = "SUCCESS" /\ short -> [s EXCEPT !.rc = "INVALID_LENGTH"]
          [] s.rc = "SUCCESS" /\ ~short /\ ~taken -> after
          [] OTHER -> [after EXCEPT !.out = @ \o SubSeq(fru_table, t + 1, t + n),
                                    !.count = @ + 1]

\* All fields of a record, from tlv on.
Fields(q, copy, tlv, num_fru_fields, out) ==
    LET turn[i \in 0..num_fru_fields] ==
            IF i = 0 THEN [rc |-> "SUCCESS", tlv |-> tlv, len |-> 0, count |-> 0, out |-> out]
            ELSE FieldTurn(q, copy, turn[i - 1])
    IN  turn[num_fru_fields]

Wanted(q, src) ==
    /\ fru_table[src + 1] + 256 * fru_table[src + 2] = q.rsi \/ q.rsi = 0
    /\ fru_table[src + 3] = q.rt \/ q.rt = 0

\* A mutant: a record must have room for a field.
NoRecordAt_WithField(end) == Len(fru_table) - MIN_TABLE_SIZE < end

\* What is left behind a record is too short for another.
NoRecordAt(end) == Len(fru_table) - record_hdr_size < end

\* A record: its header and its fields are copied if it is asked for, and the number of
\* fields is that of those which were copied.  The loop goes on while rc is "MORE".
RecordTurn(q, s) ==
    LET wanted == Wanted(q, s.src)
        header == SubSeq(fru_table, s.src + 1, s.src + record_hdr_size)
        f == Fields(q, wanted, s.src + record_hdr_size, fru_table[s.src + 4],
                    IF wanted THEN s.out \o header ELSE s.out)
        end == f.tlv + f.len
    IN  CASE s.rc # "MORE" -> s
          [] s.rc = "MORE" /\ s.src >= Len(fru_table) -> [s EXCEPT !.rc = "SUCCESS"]
          [] /\ s.rc = "MORE" /\ s.src < Len(fru_table)
             /\ wanted /\ q.room - Len(s.out) < record_hdr_size ->
                 [s EXCEPT !.rc = "INVALID_LENGTH"]
          [] OTHER ->
                 IF f.rc # "SUCCESS" THEN [s EXCEPT !.rc = f.rc]
                 ELSE [rc |-> IF NoRecordAt(end) THEN "SUCCESS" ELSE "MORE",
                       src |-> end,
                       out |-> IF wanted THEN [f.out EXCEPT ![Len(s.out) + 4] = f.count]
                               ELSE s.out]

\* Every turn but the last goes past a header, so that there are fewer than bytes.
get_fru_record_by_option(q) ==
    LET turn[i \in 0..Len(fru_table)] ==
            IF i = 0 THEN [rc |-> "MORE", src |-> 0, out |-> <<>>]
            ELSE RecordTurn(q, turn[i - 1])
    IN  IF Len(fru_table) < MIN_TABLE_SIZE
        THEN [rc |-> "INVALID_LENGTH", src |-> 0, out |-> <<>>]
        ELSE turn[Len(fru_table)]

-----------------------------------------------------------------------------

\* The header and the fields of a record that are asked for.
Selected(q, r) ==
    LET taken == {i \in DOMAIN r.fields : q.ft \in {0, r.fields[i].type}}
    IN  RecordHeader(r.rsi, r.type, Cardinality(taken))
        \o Joined([i \in DOMAIN r.fields |-> IF i \in taken THEN Tlv(r.fields[i]) ELSE <<>>])

Expected(q) ==
    LET chosen == {i \in DOMAIN recorded : /\ q.rsi \in {0, recorded[i].rsi}
                                           /\ q.rt \in {0, recorded[i].type}}
    IN  Joined([i \in DOMAIN recorded |->
                   IF i \in chosen THEN Selected(q, recorded[i]) ELSE <<>>])

\* Whatever is asked for, a search in a table that was encoded record by record
\* finds the records of the set and the type, in their order, with their fields of the
\* type and the number of these in the header, and nothing else; it stays within
\* the room that it is given, and as much room as the table takes is always enough.
\* Excepted is a table that is shorter than a record with one byte in one field.
FruSelected ==
    recorded # <<>> =>
    \A rsi \in RecordSets \cup {0}, rt \in RecordTypes \cup {0},
       ft \in FieldTypes \cup {0}, room \in 0..Len(fru_table) :
       LET q == [rsi |-> rsi, rt |-> rt, ft |-> ft, room |-> room]
           s == get_fru_record_by_option(q)
       IN  /\ s.rc = "SUCCESS" => s.out = Expected(q) /\ Len(s.out) <= room
           /\ room = Len(fru_table) /\ room >= MIN_TABLE_SIZE => s.rc = "SUCCESS"

=============================================================================
