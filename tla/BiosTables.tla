------------------------------ MODULE BiosTables ------------------------------
(***************************************************************************)
(* The BIOS string, attribute and attribute value tables of                *)
(* src/dsp/bios_table.c.  An application encodes entries one behind the    *)
(* other into the rest of a buffer, closes the table with pad bytes and a  *)
(* checksum, and then searches it and updates values.  It has one table at *)
(* a time here; the functions have nothing in common but the two static    *)
(* counters of handles.                                                    *)
(*                                                                         *)
(* A table is the sequence of its bytes.  A byte of an entry is known by   *)
(* the entry and its place in it, a byte of a checksum by the number of    *)
(* bytes that were summed.  A call that is refused leaves the table alone  *)
(* and is no step, and so is one that fails an assertion.                  *)
(***************************************************************************)
EXTENDS Integers, Sequences, FiniteSetsExt

CONSTANTS
    UINT16_MAX,      \* the handle that is not given out
    Capacities,      \* sizes of buffers
    MaxEntries,      \* of a table of values
    Texts,           \* what strings say, up to their lengths
    TextLengths,     \* lengths of strings
    EnumCounts,      \* numbers of possible, default and current values
    AttrStringLengths, \* bounds and lengths of the strings of attributes
    Bounds,          \* of integers
    Integers64,      \* increments, defaults and values of integers
    NameHandles      \* handles that attributes are named by

ASSUME BiosAssumption ==
    /\ UINT16_MAX \in Nat /\ MaxEntries \in Nat
    /\ (Capacities \cup TextLengths \cup EnumCounts) \subseteq Nat
    /\ (AttrStringLengths \cup Bounds \cup Integers64 \cup NameHandles) \subseteq Nat

VARIABLES
    kind,            \* of the table
    buffer,          \* its capacity
    table,           \* its bytes
    closed,          \* it has its pad bytes and checksum
    handles,         \* the static counters of both get_bios_*_handle
    put              \* history: the entries that should be in the table

biosVars == <<kind, buffer, table, closed, handles, put>>

STRING_TABLE == "PLDM_BIOS_STRING_TABLE"
ATTR_TABLE == "PLDM_BIOS_ATTR_TABLE"
ATTR_VAL_TABLE == "PLDM_BIOS_ATTR_VAL_TABLE"

PLDM_BIOS_ENUMERATION == 0
PLDM_BIOS_STRING == 1
PLDM_BIOS_INTEGER == 3
ReadOnly(type) == type + 128
AttrTypes(type) == {type, ReadOnly(type)}

-----------------------------------------------------------------------------
(* Lengths of entries, for the encoders and as they are read from a table.  *)

pldm_bios_table_string_entry_encode_length(string_length) == 4 + string_length

pldm_bios_table_attr_entry_enum_encode_length(pv_num, def_num) ==
    5 + 1 + 2 * pv_num + 1 + def_num
pldm_bios_table_attr_entry_string_encode_length(def_str_len) == 5 + 7 + def_str_len
pldm_bios_table_attr_entry_integer_encode_length == 5 + 28

pldm_bios_table_attr_value_entry_encode_enum_length(count) == 3 + 1 + count
pldm_bios_table_attr_value_entry_encode_string_length(string_length) ==
    3 + 2 + string_length
pldm_bios_table_attr_value_entry_encode_integer_length == 3 + 8

string_table_entry_length(e) == pldm_bios_table_string_entry_encode_length(e.length)

attr_table_entry_length_enum(e) ==
    pldm_bios_table_attr_entry_enum_encode_length(e.info.pv_num, e.info.def_num)
attr_table_entry_length_string(e) ==
    pldm_bios_table_attr_entry_string_encode_length(e.info.def_length)
attr_table_entry_length_integer(e) == pldm_bios_table_attr_entry_integer_encode_length

attr_table_entry_length(e) ==
    CASE e.type \in AttrTypes(PLDM_BIOS_ENUMERATION) -> attr_table_entry_length_enum(e)
      [] e.type \in AttrTypes(PLDM_BIOS_STRING) -> attr_table_entry_length_string(e)
      [] e.type \in AttrTypes(PLDM_BIOS_INTEGER) -> attr_table_entry_length_integer(e)

attr_value_table_entry_length_enum(e) ==
    pldm_bios_table_attr_value_entry_encode_enum_length(e.size)
attr_value_table_entry_length_string(e) ==
    pldm_bios_table_attr_value_entry_encode_string_length(e.size)
attr_value_table_entry_length_integer(e) ==
    pldm_bios_table_attr_value_entry_encode_integer_length

attr_value_table_entry_length(e) ==
    CASE e.type \in AttrTypes(PLDM_BIOS_ENUMERATION) -> attr_value_table_entry_length_enum(e)
      [] e.type \in AttrTypes(PLDM_BIOS_STRING) -> attr_value_table_entry_length_string(e)
      [] e.type \in AttrTypes(PLDM_BIOS_INTEGER) -> attr_value_table_entry_length_integer(e)

-----------------------------------------------------------------------------
(* The encoders.                                                            *)

\* The bytes of an entry that is written with that length.
EntryBytes(e, length) == [k \in 1..length |-> <<e, k>>]

Room == buffer - Len(table)

\* Behind the last entry.
Written(e, length) ==
    /\ table' = table \o EntryBytes(e, length)
    /\ put' = Append(put, e)
    /\ UNCHANGED <<kind, buffer, closed>>

TakesHandle ==
    /\ handles[kind] # UINT16_MAX
    /\ handles' = [handles EXCEPT ![kind] = @ + 1]

pldm_bios_table_string_entry_encode(text, str_length) ==
    LET length == pldm_bios_table_string_entry_encode_length(str_length)
    IN  /\ kind = STRING_TABLE /\ ~closed
        /\ str_length # 0
        /\ Room >= length
        /\ TakesHandle
        /\ Written([handle |-> handles[kind], text |-> text, length |-> str_length], length)

\* attr_table_entry_encode_header, and what is behind the header.
AttrEntryEncode(name_handle, type, info, length) ==
    /\ kind = ATTR_TABLE /\ ~closed
    /\ Room >= length
    /\ Room >= 6
    /\ TakesHandle
    /\ Written([handle |-> handles[kind], type |-> type, name |-> name_handle,
                info |-> info], length)

pldm_bios_table_attr_entry_enum_encode(name_handle, type, pv_num, def_num) ==
    /\ type \in AttrTypes(PLDM_BIOS_ENUMERATION)
    /\ AttrEntryEncode(name_handle, type, [pv_num |-> pv_num, def_num |-> def_num],
                       pldm_bios_table_attr_entry_enum_encode_length(pv_num, def_num))

\* The type of the string and the text of the default are not kept apart.
pldm_bios_table_attr_entry_string_info_check(info) ==
    /\ info.min_length <= info.max_length
    /\ info.min_length = info.max_length => info.def_length = info.min_length
    /\ info.def_length <= info.max_length /\ info.def_length >= info.min_length

pldm_bios_table_attr_entry_string_encode(name_handle, type, info) ==
    /\ type \in AttrTypes(PLDM_BIOS_STRING)
    /\ pldm_bios_table_attr_entry_string_info_check(info)
    /\ AttrEntryEncode(name_handle, type, info,
                       pldm_bios_table_attr_entry_string_encode_length(info.def_length))

pldm_bios_table_attr_entry_integer_info_check(info) ==
    IF info.lower_bound = info.upper_bound
    THEN info.default_value = info.lower_bound /\ info.scalar_increment = 0
    ELSE /\ info.lower_bound <= info.upper_bound
         /\ info.default_value \in info.lower_bound..info.upper_bound
         /\ info.scalar_increment # 0
         /\ (info.default_value - info.lower_bound) % info.scalar_increment = 0

pldm_bios_table_attr_entry_integer_encode(name_handle, type, info) ==
    /\ type \in AttrTypes(PLDM_BIOS_INTEGER)
    /\ pldm_bios_table_attr_entry_integer_info_check(info)
    /\ AttrEntryEncode(name_handle, type, info,
                       pldm_bios_table_attr_entry_integer_encode_length)

\* The entry of a value.  The cv of an enumeration or a string does not matter.
ValueEntry(attr_handle, attr_type, size, cv) ==
    [handle |-> attr_handle, type |-> attr_type, size |-> size, cv |-> cv]

\* The encoders, into entry_length bytes.  The first two have written the header when
\* they find that the rest does not fit; it is behind the table.
pldm_bios_table_attr_value_entry_encode_enum(e, entry_length) ==
    /\ e.type \in AttrTypes(PLDM_BIOS_ENUMERATION)
    /\ entry_length >= 4 /\ entry_length - 4 >= e.size

pldm_bios_table_attr_value_entry_encode_string(e, entry_length) ==
    /\ e.type \in AttrTypes(PLDM_BIOS_STRING)
    /\ entry_length >= 3 + 2 /\ entry_length - (3 + 2) >= e.size

pldm_bios_table_attr_value_entry_encode_integer(e, entry_length) ==
    /\ e.type \in AttrTypes(PLDM_BIOS_INTEGER)
    /\ entry_length >= pldm_bios_table_attr_value_entry_encode_integer_length

\* The bytes that the encoder of an entry sets.
ValueWritten(e) ==
    CASE e.type \in AttrTypes(PLDM_BIOS_ENUMERATION) -> 4 + e.size
      [] e.type \in AttrTypes(PLDM_BIOS_STRING) -> 3 + 2 + e.size
      [] e.type \in AttrTypes(PLDM_BIOS_INTEGER) -> 3 + 8

AttrValueEncode(e) ==
    /\ kind = ATTR_VAL_TABLE /\ ~closed /\ Len(put) < MaxEntries
    /\ \/ pldm_bios_table_attr_value_entry_encode_enum(e, Room)
       \/ pldm_bios_table_attr_value_entry_encode_string(e, Room)
       \/ pldm_bios_table_attr_value_entry_encode_integer(e, Room)
    /\ Written(e, ValueWritten(e))
    /\ UNCHANGED handles

-----------------------------------------------------------------------------
(* Pad bytes and checksum.                                                  *)

PadByte == <<[pad |-> 0], 1>>
SumBytes(n) == [k \in 1..4 |-> <<[sum |-> n], k>>]

\* A mutant: a table that needs no pad bytes gets four.
pad_size_get_Four(size_without_pad) == 4 - (size_without_pad % 4)

pad_size_get(size_without_pad) == (4 - (size_without_pad % 4)) % 4

pldm_bios_table_pad_checksum_size(size_without_pad) == pad_size_get(size_without_pad) + 4

\* What pldm_bios_table_append_pad_checksum makes of the bytes.
PadChecksum(bytes) ==
    LET pad_size == pad_size_get(Len(bytes))
    IN  bytes \o [k \in 1..pad_size |-> PadByte] \o SumBytes(Len(bytes) + pad_size)

pldm_bios_table_append_pad_checksum ==
    /\ ~closed
    /\ buffer >= Len(table) + pldm_bios_table_pad_checksum_size(Len(table))
    /\ table' = PadChecksum(table)
    /\ closed' = TRUE
    /\ UNCHANGED <<kind, buffer, handles, put>>

\* The checksum at the end is over all the bytes before it.
pldm_bios_table_checksum(bytes) ==
    /\ Len(bytes) >= 12
    /\ SubSeq(bytes, Len(bytes) - 3, Len(bytes)) = SumBytes(Len(bytes) - 4)

-----------------------------------------------------------------------------
(* The iterator.                                                            *)

\* Bytes that do not begin an entry.
Garbage == [garbage |-> 0]

EntryLength(e) ==
    CASE kind = STRING_TABLE -> string_table_entry_length(e)
      [] kind = ATTR_TABLE -> attr_table_entry_length(e)
      [] kind = ATTR_VAL_TABLE -> attr_value_table_entry_length(e)

\* pldm_bios_table_iter_value: what is read at current_pos.
pldm_bios_table_iter_value(bytes, current_pos) ==
    LET first == bytes[current_pos + 1]
    IN  IF "handle" \in DOMAIN first[1] /\ first[2] = 1 THEN first[1] ELSE Garbage

pad_and_check_max == 7

\* The handler of lengths may say anything about bytes that are no entry; the
\* walk ends there.
pldm_bios_table_iter_is_end(bytes, current_pos) ==
    \/ current_pos > Len(bytes)
    \/ Len(bytes) - current_pos <= pad_and_check_max
    \/ pldm_bios_table_iter_value(bytes, current_pos) = Garbage

\* The entries that a walk from the beginning comes to, garbage the last if it is met.
Walk(bytes) ==
    LET from[current_pos \in Nat] ==
            LET e == pldm_bios_table_iter_value(bytes, current_pos)
            IN  IF pldm_bios_table_iter_is_end(bytes, current_pos)
                THEN IF Len(bytes) - current_pos > pad_and_check_max THEN <<Garbage>> ELSE <<>>
                ELSE <<e>> \o from[current_pos + EntryLength(e)]
    IN  from[0]

\* pldm_bios_table_entry_find_by_iter: of the places in the walk where the handler says
\* that the entry equals the key the first, 0 if there is none.
FindByIter(places) == IF places = {} THEN 0 ELSE Min(places)

\* The entries of the table, at their places in the walk.
Entries == Walk(table)

\* The three searches by handle.
FindByHandle(handle) == FindByIter({i \in DOMAIN Entries : Entries[i].handle = handle})

pldm_bios_table_string_find_by_string(text, length) ==
    FindByIter({i \in DOMAIN Entries : Entries[i].length = length /\ Entries[i].text = text})

pldm_bios_table_attr_find_by_string_handle(name_handle) ==
    FindByIter({i \in DOMAIN Entries : Entries[i].name = name_handle})

-----------------------------------------------------------------------------
(* The update of a value.                                                   *)

\* A turn of the loop that copies the entries, with to_update for those of its handle:
\* where the iterator is, the code if it is an error, and what was copied.
CopyTurn(c, to_update, buffer_length) ==
    LET tmp == pldm_bios_table_iter_value(table, c.current_pos)
        next == c.current_pos + EntryLength(tmp)
        same == tmp.handle = to_update.handle
        bytes == IF same THEN EntryBytes(to_update, ValueWritten(to_update))
                 ELSE SubSeq(table, c.current_pos + 1, next)
    IN  IF c.rc # "SUCCESS" \/ pldm_bios_table_iter_is_end(table, c.current_pos)
        THEN c
        ELSE IF same /\ tmp.type # to_update.type
        THEN [c EXCEPT !.rc = "INVALID_DATA"]
        ELSE IF Len(c.bytes) + Len(bytes) > buffer_length
        THEN [c EXCEPT !.rc = "INVALID_LENGTH"]
        ELSE [current_pos |-> next, rc |-> "SUCCESS", bytes |-> c.bytes \o bytes]

\* No entry is empty: there are no more turns than bytes.
CopiedEntries(to_update, buffer_length) ==
    LET after[i \in 0..Len(table)] ==
            IF i = 0 THEN [current_pos |-> 0, rc |-> "SUCCESS", bytes |-> <<>>]
                     ELSE CopyTurn(after[i - 1], to_update, buffer_length)
    IN  after[Len(table)]

\* The application takes the copy for its table, in a buffer of another size.
pldm_bios_table_attr_value_copy_and_update(buffer_length, entry) ==
    /\ kind = ATTR_VAL_TABLE /\ closed
    /\ LET copy == CopiedEntries(entry, buffer_length)
       IN  /\ copy.rc = "SUCCESS"
           /\ pldm_bios_table_pad_checksum_size(Len(copy.bytes)) + Len(copy.bytes)
                  <= buffer_length
           /\ table' = PadChecksum(copy.bytes)
    /\ buffer' = buffer_length
    /\ put' = [i \in DOMAIN put |-> IF put[i].handle = entry.handle THEN entry ELSE put[i]]
    /\ UNCHANGED <<kind, closed, handles>>

-----------------------------------------------------------------------------

ValueEntries ==
    LET of(types, sizes, cvs) ==
            {ValueEntry(h, t, n, v) : h \in 0..(UINT16_MAX - 1), t \in types,
                                      n \in sizes, v \in cvs}
    IN  of(AttrTypes(PLDM_BIOS_ENUMERATION), EnumCounts, {0})
        \cup of(AttrTypes(PLDM_BIOS_STRING), AttrStringLengths, {0})
        \cup of(AttrTypes(PLDM_BIOS_INTEGER), {0}, Integers64)

\* The application begins another table, because this one is done with or too large.
TableBegun(k, capacity) ==
    /\ kind' = k /\ buffer' = capacity /\ table' = <<>> /\ closed' = FALSE /\ put' = <<>>
    /\ UNCHANGED handles

BiosInit ==
    /\ kind = STRING_TABLE /\ buffer = 0 /\ table = <<>> /\ closed = FALSE
    /\ handles = [k \in {STRING_TABLE, ATTR_TABLE} |-> 0]
    /\ put = <<>>

BiosNext ==
    \/ \E text \in Texts, n \in TextLengths : pldm_bios_table_string_entry_encode(text, n)
    \/ \E name \in NameHandles, type \in AttrTypes(PLDM_BIOS_ENUMERATION),
          pv_num, def_num \in EnumCounts :
          pldm_bios_table_attr_entry_enum_encode(name, type, pv_num, def_num)
    \/ \E name \in NameHandles, type \in AttrTypes(PLDM_BIOS_STRING),
          info \in [min_length : AttrStringLengths, max_length : AttrStringLengths,
                    def_length : AttrStringLengths] :
          pldm_bios_table_attr_entry_string_encode(name, type, info)
    \/ \E name \in NameHandles, type \in AttrTypes(PLDM_BIOS_INTEGER),
          info \in [lower_bound : Bounds, upper_bound : Bounds,
                    scalar_increment : Integers64, default_value : Integers64] :
          pldm_bios_table_attr_entry_integer_encode(name, type, info)
    \/ \E e \in ValueEntries : AttrValueEncode(e)
    \/ pldm_bios_table_append_pad_checksum
    \/ \E e \in ValueEntries, capacity \in Capacities :
          pldm_bios_table_attr_value_copy_and_update(capacity, e)
    \/ \E k \in {STRING_TABLE, ATTR_TABLE, ATTR_VAL_TABLE}, capacity \in Capacities :
          TableBegun(k, capacity)

BiosSpec == BiosInit /\ [][BiosNext]_biosVars

-----------------------------------------------------------------------------

\* The place of the first of these entries.
First(entries) == FindByIter({i \in DOMAIN put : put[i] \in entries})

\* A table that was closed is what was put into it.  The iterator, which does not know
\* where the pad bytes begin, comes to every entry and to nothing else, after any
\* updates of values with entries of other lengths too; a search finds the first entry
\* with the handle, the text or the name if there is one; handles that the library
\* gave are unique; the table is in its buffer; and its checksum is accepted, which a
\* table of less than twelve bytes is excepted from.
BiosTablesRead ==
    /\ Len(table) <= buffer
    /\ kind # ATTR_VAL_TABLE =>
          \A i, j \in DOMAIN put : put[i].handle = put[j].handle => i = j
    /\ closed =>
          /\ Walk(table) = put
          /\ pldm_bios_table_checksum(table) <=> Len(table) >= 12
          /\ \A h \in 0..UINT16_MAX : FindByHandle(h) = First({e \in Range(put) : e.handle = h})
          /\ kind = STRING_TABLE => \A text \in Texts, n \in TextLengths :
                pldm_bios_table_string_find_by_string(text, n)
                    = First({e \in Range(put) : e.text = text /\ e.length = n})
          /\ kind = ATTR_TABLE => \A name \in NameHandles :
                pldm_bios_table_attr_find_by_string_handle(name)
                    = First({e \in Range(put) : e.name = name})

=============================================================================
