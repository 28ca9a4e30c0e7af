------------------------------- MODULE AuxNames -------------------------------
(***************************************************************************)
(* The names of an Entity Auxiliary Names PDR: src/dsp/platform.c.  The    *)
(* record has pairs of a language tag in ASCII and a name in UTF-16, each  *)
(* with a NUL at its end.  decode_entity_auxiliary_names_pdr goes over     *)
(* them twice and packs first the names, then the tags into memory of the  *)
(* caller, and decode_pldm_entity_auxiliary_names_pdr_index finds them     *)
(* there.  Records are any bytes; what is before the names is right.       *)
(***************************************************************************)
EXTENDS Integers, Sequences, FiniteSetsExt, Strings

CONSTANTS
    MaxNameBytes,     \* of the part of a record that holds the names
    MaxNames,         \* that a record says it has
    Slack             \* by how much the caller's memory misses the need

ASSUME AuxAssumption == MaxNameBytes \in Nat /\ MaxNames \in Nat /\ Slack \in Nat

VARIABLES
    names,            \* the bytes of the record's names
    name_string_count,
    name_data,        \* auxiliary_name_data
    index,            \* pdr->names
    decoded           \* how far the caller is

auxVars == <<names, name_string_count, name_data, index, decoded>>

NUL == 0
CHAR == 1             \* any other byte

\* Memory of up to max bytes.
Memory(max) == UNION {[1..n -> {NUL, CHAR}] : n \in 0..max}

INVALID == -1         \* for the cursor of a buffer that was found short

\* The cursor behind the ASCII string at it.
SpanAscii(bytes, cursor) ==
    LET ends == {k \in (cursor + 1)..Len(bytes) : bytes[k] = NUL}
    IN  IF cursor = INVALID \/ ends = {} THEN INVALID ELSE Min(ends)

\* A mutant: the first two NULs, wherever they are.
SpanUtf16_AnyOffset(bytes, cursor) ==
    LET ends == {k \in (cursor + 2)..Len(bytes) : bytes[k - 1] = NUL /\ bytes[k] = NUL}
    IN  IF cursor = INVALID \/ ends = {} THEN INVALID ELSE Min(ends)

\* The cursor behind the UTF-16 string at it: two NULs an odd number of bytes from
\* the cursor are not the end.
SpanUtf16(bytes, cursor) ==
    LET ends == {k \in (cursor + 2)..Len(bytes) : /\ bytes[k - 1] = NUL /\ bytes[k] = NUL
                                                  /\ (k - cursor) % 2 = 0}
    IN  IF cursor = INVALID \/ ends = {} THEN INVALID ELSE Min(ends)

\* The cursors in front of and behind the strings of a pass over the pairs: where each
\* tag begins, where its name begins and where that ends.
Pass(count) ==
    LET at[i \in 0..count] ==
            LET tag == IF i = 0 THEN 0 ELSE at[i - 1].end
                name == SpanAscii(names, tag)
            IN  [tag |-> tag, name |-> name, end |-> SpanUtf16(names, name)]
    IN  [i \in 1..count |-> at[i - 1]]

\* The packed names and tags; a pass that meets the end of the record, or of which
\* bytes remain, and a string that the memory has no room for are errors.
PassComplete(pairs) ==
    LET end == IF pairs = <<>> THEN 0 ELSE pairs[Len(pairs)].end IN end = Len(names)

Packed(pairs) ==
    LET part(from, to) == SubSeq(names, from + 1, to)
    IN  Joined([i \in DOMAIN pairs |-> part(pairs[i].name, pairs[i].end)])
        \o Joined([i \in DOMAIN pairs |-> part(pairs[i].tag, pairs[i].name)])

\* The memory behind the packed strings is not written: its bytes may be any.
decode_entity_auxiliary_names_pdr(size, rest) ==
    LET pairs == Pass(name_string_count)
    IN  /\ decoded = "no"
        /\ PassComplete(pairs)
        /\ Len(Packed(pairs)) <= size
        /\ rest \in [1..(size - Len(Packed(pairs))) -> {NUL, CHAR}]
        /\ name_data' = Packed(pairs) \o rest
        /\ decoded' = "data"
        /\ UNCHANGED <<names, name_string_count, index>>

\* Where each name and each tag begins, and where the last string ends.  The names
\* are gone through first, and then the tags from where they end.
IndexFrom(count) ==
    LET name[i \in 0..count] == IF i = 0 THEN 0 ELSE SpanUtf16(name_data, name[i - 1])
        tag[i \in 0..count] == IF i = 0 THEN name[count] ELSE SpanAscii(name_data, tag[i - 1])
    IN  [name |-> [i \in 1..count |-> name[i - 1]],
         tag |-> [i \in 1..count |-> tag[i - 1]],
         end |-> tag[count]]

\* The caller gives memory for the index if there are names, and none if not.
decode_pldm_entity_auxiliary_names_pdr_index ==
    LET found == IndexFrom(name_string_count)
    IN  /\ decoded = "data"
        /\ IF name_string_count = 0
           THEN decoded' = "index" /\ index' = index
           ELSE /\ index' = found
                /\ decoded' = IF /\ name_string_count * 3 <= Len(name_data)
                                 /\ found.end = Len(name_data)
                              THEN "index" ELSE "refused"
        /\ UNCHANGED <<names, name_string_count, name_data>>

NoIndex == [name |-> <<>>, tag |-> <<>>, end |-> 0]

AuxInit ==
    /\ names = <<>> /\ name_string_count = 0 /\ name_data = <<>>
    /\ index = NoIndex
    /\ decoded = "none"

\* A record comes, and the caller is done with it.
RecordCame(bytes, count) ==
    /\ names' = bytes /\ name_string_count' = count
    /\ decoded' = "no"
    /\ UNCHANGED <<name_data, index>>

RecordDone ==
    /\ decoded # "none"
    /\ names' = <<>> /\ name_string_count' = 0 /\ name_data' = <<>>
    /\ index' = NoIndex
    /\ decoded' = "none"

AuxNext ==
    \/ /\ decoded = "none"
       /\ \E bytes \in Memory(MaxNameBytes), count \in 0..MaxNames :
             RecordCame(bytes, count)
    \/ \E missed \in -Slack..Slack, rest \in Memory(Slack) :
          decode_entity_auxiliary_names_pdr(Len(names) + missed, rest)
    \/ decode_pldm_entity_auxiliary_names_pdr_index
    \/ RecordDone

AuxSpec == AuxInit /\ [][AuxNext]_auxVars

-----------------------------------------------------------------------------

\* The string of the packed data between two cursors.
AuxString(from, to) == SubSeq(name_data, from + 1, to)

\* Where the string after the i-th begins.
NextStart(starts, i, last) == IF i < Len(starts) THEN starts[i + 1] ELSE last

\* An index that was made leads from every number to the tag and the name that the
\* record has for it, though these were packed apart and the strings' ends are found
\* anew: put together in their old order they are the bytes of the record.  Names begin
\* at even offsets, as a pointer to UTF-16 units must.  And a record that was decoded
\* into memory of just its size is never refused by the index.
AuxNamesKept ==
    /\ decoded = "index" /\ name_string_count > 0 =>
          LET n == name_string_count
              tag(i) == AuxString(index.tag[i], NextStart(index.tag, i, index.end))
              name(i) == AuxString(index.name[i], NextStart(index.name, i, index.tag[1]))
          IN  /\ names = Joined([i \in 1..n |-> tag(i) \o name(i)])
              /\ \A i \in 1..n : index.name[i] % 2 = 0
    /\ decoded = "refused" => Len(name_data) > Len(names)

=============================================================================
