---------------------------- MODULE PackageParser ----------------------------
(***************************************************************************)
(* The parser of firmware update packages: struct pldm_package, the        *)
(* functions of src/dsp/firmware_update.c that take one, and the loops     *)
(* that the foreach_pldm_package_ macros of firmware_update.h make of      *)
(* them.                                                                   *)
(*                                                                         *)
(* A package is any sequence of bytes.  The parser never reads a value     *)
(* twice, so the contents are chosen when they are read: the values an     *)
(* action finds are its parameters, and every choice of them is a package. *)
(* Pointers are offsets in the package.  The application runs the loops in *)
(* any order, and may leave one at any time.                               *)
(***************************************************************************)
EXTENDS MsgbufOps, Sequences, FiniteSetsExt

CONSTANTS
    SIZE_T_MAX,          \* the largest size_t
    PackageLengths,      \* lengths of packages
    HeaderSizes,         \* values of package_header_size
    BitmapLengths,       \* values of component_bitmap_bit_length
    StringLengths,       \* lengths of version strings
    RecordLengths,       \* lengths that records say they have
    DataLengths,         \* lengths of package data, opaque data, descriptors
    ManifestLengths,     \* lengths of reference manifests
    Counts,              \* numbers of records, descriptors and components
    ImageOffsets, ImageSizes

ASSUME PackageAssumption ==
    /\ SIZE_T_MAX \in Nat
    /\ \A S \in {PackageLengths, HeaderSizes, BitmapLengths, StringLengths,
                 RecordLengths, DataLengths, ManifestLengths, Counts,
                 ImageOffsets, ImageSizes} :
           S \subseteq 0..SIZE_T_MAX
    /\ \A d \in DataLengths, m \in ManifestLengths : d + m <= INTMAX_MAX

PLDM_FWUP_PACKAGE_HEADER_FIXED_SIZE == 36
PLDM_FWUP_FIRMWARE_DEVICE_ID_RECORD_MIN_SIZE == 11
PLDM_FWUP_DOWNSTREAM_DEVICE_ID_RECORD_MIN_SIZE == 11
PLDM_FWUP_COMPONENT_IMAGE_INFORMATION_MIN_SIZE == 22
MIN_DESCRIPTOR == 5     \* PLDM_FWUP_DEVICE_DESCRIPTOR_MIN_LEN

Revisions == 1..4        \* FR01H to FR04H

VARIABLES pkg,        \* struct pldm_package, with the header's fields in use
          rec,        \* the record or component decoded last
          loop,       \* the application's loop, and where it is in it
          rc,         \* the int the application gives to the macros
          asserts,    \* whether every assert so far has held
          announced,  \* the entries that the section says it has
          given       \* the entries that its loop has handed out

pkgVars == <<pkg, rec, loop, rc, asserts, announced, given>>

NewPackage ==
    [state |-> "INIT", pin |-> 0, revision |-> 0, bits |-> 0,
     length |-> 0, version |-> NoField, areas |-> NoField,
     field |-> NoField, entries |-> 0]

\* Its extent, the bytes of it that are of fixed size, the fields of variable
\* size, the descriptors still to be read and their number, the descriptor
\* read last, and the image.
NoRecord == [whole |-> NoField, fixed |-> 0, parts |-> << >>,
             descriptors |-> NoField, descriptor_count |-> 0,
             descriptor |-> NoField, image |-> NoField]

\* at is "head" before an entry is looked for and "body" when the application
\* has one; the loop is over when at is "complete", "failed" or "left".
\* inner is the descriptors that the inner loop has yet to read, NULL outside.
Loop(section, at) == [section |-> section, at |-> at, inner |-> NULL]
Running == loop.at \in {"head", "body"}

PackageInit ==
    /\ pkg = NewPackage
    /\ rec = NoRecord
    /\ loop = Loop("", "")
    /\ rc = "OK"
    /\ asserts = TRUE
    /\ announced = 0
    /\ given = 0

\* The error of the first check that fails, in the order of the code.
FirstError(checks) ==
    LET failed == {i \in DOMAIN checks : checks[i][1]}
    IN IF failed = {} THEN "OK" ELSE checks[Min(failed)][2]

\* A message buffer over a field, the field between two of its cursors, and
\* what pldm_msgbuf_span_remaining stores.
InitOver(minsize, field) ==
    LET ctx == InitErrno(minsize, field.length)
    IN IF ctx.remaining < 0 THEN ctx ELSE Ctx(field.ptr, field.length)
Between(a, b) == VariableField(a.cursor, b.cursor - a.cursor)
Remainder(ctx, field) ==
    IF ctx.remaining < 0 THEN field
                         ELSE VariableField(ctx.cursor, ctx.remaining)

(***************************************************************************)
(* The header.                                                             *)
(***************************************************************************)

\* What is read: which revision's identifier it has, 0 for none; the
\* revision; the size of the header; the bits of a component bitmap; whether
\* the type of the version string is valid, and its length; and whether the
\* checksums match.
HeaderValues ==
    [identifier : 0..4, revision : 0..4, size : HeaderSizes,
     bits : BitmapLengths, typed : BOOLEAN, version : StringLengths,
     intact : BOOLEAN]

\* How much of the header is of variable size, and the buffer in front of the
\* version string, of the areas and of the checksums, and behind them.
ChecksumSize(v) == 4 * (IF v.revision >= 4 THEN 2 ELSE 1)
VariableSize(v) == v.size - ChecksumSize(v) - PLDM_FWUP_PACKAGE_HEADER_FIXED_SIZE
HeaderBuffer(len) == InitOver(PLDM_FWUP_PACKAGE_HEADER_FIXED_SIZE, VariableField(0, len))
HeaderParts(len, v) ==
    LET version == Access(HeaderBuffer(len), PLDM_FWUP_PACKAGE_HEADER_FIXED_SIZE)
        areas == Access(version, v.version)
        sums == Access(areas, VariableSize(v) - v.version)
    IN [version |-> version, areas |-> areas, sums |-> sums,
        end |-> Access(sums, ChecksumSize(v))]

\* The checks in front of the areas, and those behind.
HeaderError(p, pin, len, v) ==
    FirstError(<<
        <<p.state # "INIT", "EINVAL">>,
        <<HeaderBuffer(len).remaining < 0, "EOVERFLOW">>,
        <<v.identifier = 0, "ENOTSUP">>,
        <<v.revision < 1, "EPROTO">>,
        <<v.revision > pin \/ v.identifier # v.revision, "ENOTSUP">>,
        <<v.bits % 8 # 0 \/ ~v.typed, "EPROTO">>,
        <<VariableSize(v) < 3 \/ VariableSize(v) < v.version, "EOVERFLOW">> >>)
ChecksumError(end, v) ==
    FirstError(<<
        <<end.remaining < 0, "EOVERFLOW">>,
        <<~v.intact, "EUCLEAN">> >>)

\* What is kept of a header without errors.
HeaderKept(p, pin, len, v, version) ==
    [state |-> "HEADER", pin |-> pin, revision |-> v.revision, bits |-> v.bits,
     length |-> len, version |-> version, areas |-> p.areas,
     field |-> p.field, entries |-> p.entries]

\* decode_pldm_package_header_info_errno of len bytes, with a pin made by one
\* of the DEFINE_PLDM_PACKAGE_FORMAT_PIN_ macros.
decode_pldm_package_header_info_errno(p, pin, len, v) ==
    LET at == HeaderParts(len, v)
        spanned == [p EXCEPT !.areas = Between(at.areas, at.sums)]
        err == HeaderError(p, pin, len, v)
        err2 == ChecksumError(at.end, v)
    IN CASE err # "OK" -> [pkg |-> p, rc |-> err]
         [] err = "OK" /\ at.sums.remaining < 0 ->
                [pkg |-> p, rc |-> "EOVERFLOW"]
         [] err = "OK" /\ at.sums.remaining >= 0 /\ err2 # "OK" ->
                [pkg |-> spanned, rc |-> err2]
         [] OTHER ->
                [pkg |-> HeaderKept(spanned, pin, len, v, Between(at.version, at.areas)),
                 rc |-> "OK"]

\* A second call for the same struct pldm_package is refused.
decode_pldm_firmware_update_package(pin, len, v) ==
    /\ ~Running
    /\ pkg.state = "INIT"
    /\ LET h == decode_pldm_package_header_info_errno(pkg, pin, len, v)
       IN pkg' = h.pkg /\ rc' = h.rc
    /\ UNCHANGED <<rec, loop, asserts, announced, given>>

(***************************************************************************)
(* The beginnings of the three loops.                                      *)
(***************************************************************************)

\* The section begins with the number of its entries, in width bytes.
EnterSection(p, state, field, width, count) ==
    LET ctx == Access(InitOver(1, field), width)
        entered == [p EXCEPT !.state = state, !.field = field]
    IN IF ctx.remaining < 0
       THEN [pkg |-> entered, rc |-> "EOVERFLOW"]
       ELSE [pkg |-> [entered EXCEPT !.entries = count,
                                     !.field = Remainder(ctx, field)],
             rc |-> "OK"]

pldm_package_firmware_device_id_record_iter_init(p, count) ==
    LET err == FirstError(<< <<p.pin = 0, "EINVAL">>,
                             <<p.state # "HEADER", "EPROTO">>,
                             <<p.areas.ptr = NULL, "EINVAL">> >>)
    IN IF err # "OK" THEN [pkg |-> p, rc |-> err]
       ELSE EnterSection(p, "FIRMWARE_DEVICES", p.areas, 1, count)

\* A mutant: a count is read from packages of the first revision too.
pldm_package_downstream_device_id_record_iter_init_Counts(p, count) ==
    LET err == FirstError(<< <<p.pin = 0, "EINVAL">>,
                             <<p.state # "FIRMWARE_DEVICES", "EPROTO">>,
                             <<p.pin = 1, "EPROTO">>,
                             <<p.field.ptr = NULL, "EINVAL">> >>)
    IN IF err # "OK" THEN [pkg |-> p, rc |-> err]
       ELSE EnterSection(p, "DOWNSTREAM_DEVICES", p.field, 1, count)

\* A package of the first revision has no such section.
pldm_package_downstream_device_id_record_iter_init(p, count) ==
    LET err == FirstError(<< <<p.pin = 0, "EINVAL">>,
                             <<p.state # "FIRMWARE_DEVICES", "EPROTO">>,
                             <<p.pin = 1, "EPROTO">>,
                             <<p.field.ptr = NULL, "EINVAL">> >>)
    IN CASE err # "OK" -> [pkg |-> p, rc |-> err]
         [] err = "OK" /\ p.revision = 1 ->
                [pkg |-> [p EXCEPT !.state = "DOWNSTREAM_DEVICES",
                                   !.entries = 0],
                 rc |-> "OK"]
         [] OTHER -> EnterSection(p, "DOWNSTREAM_DEVICES", p.field, 1, count)

pldm_package_component_image_information_iter_init(p, count) ==
    LET first == p.state = "FIRMWARE_DEVICES" /\ p.pin = 1 /\ p.revision = p.pin
        err == FirstError(<<
            <<p.pin = 0, "EINVAL">>,
            <<~first /\ p.state # "DOWNSTREAM_DEVICES", "EPROTO">>,
            <<p.field.ptr = NULL, "EINVAL">> >>)
    IN IF err # "OK" THEN [pkg |-> p, rc |-> err]
       ELSE EnterSection(p, "COMPONENT_IMAGE_INFORMATION", p.field, 2, count)

\* The asserts of these functions.
RevisionsPinned(p) ==
    /\ p.pin \in Revisions /\ p.revision \in 1..p.pin
    /\ p.state = "DOWNSTREAM_DEVICES" => p.pin # 1

Sections == {"firmware_devices", "downstream_devices", "component_images"}

SectionInit(section, p, count) ==
    CASE section = "firmware_devices" ->
             pldm_package_firmware_device_id_record_iter_init(p, count)
      [] section = "downstream_devices" ->
             pldm_package_downstream_device_id_record_iter_init(p, count)
      [] section = "component_images" ->
             pldm_package_component_image_information_iter_init(p, count)

\* The first expression of a foreach_pldm_package_ macro.
BeginLoop(section, count) ==
    /\ ~Running
    /\ LET s == SectionInit(section, pkg, count)
       IN /\ pkg' = s.pkg
          /\ rc' = s.rc
          /\ announced' = IF s.rc = "OK" THEN s.pkg.entries ELSE 0
          /\ loop' = Loop(section, IF s.rc = "OK" THEN "head" ELSE "failed")
    /\ asserts' = (asserts /\ (pkg.pin # 0 => RevisionsPinned(pkg)))
    /\ given' = 0
    /\ rec' = NoRecord

(***************************************************************************)
(* The entries of the sections.                                            *)
(***************************************************************************)

\* What is read from a record: its length, the number of descriptors, whether
\* the type of its string is valid, the lengths of string, package data and
\* reference manifest, and whether there is a comparison stamp.  A manifest
\* begins with revision 4.
RecordValues ==
    [length : RecordLengths, count : Counts, typed : BOOLEAN,
     version : StringLengths, data : DataLengths, manifest : ManifestLengths,
     stamped : BOOLEAN]
Manifest(p, v) == IF p.revision >= 4 THEN v.manifest ELSE 0

\* A mutant: the buffer goes on to the end of the field.
pldm_msgbuf_init_dynamic_uint16_Unbounded(req, field, length) ==
    LET data == InitOver(req, field)
        tail == Access(data, length)
    IN IF tail.remaining < 0
       THEN [ctx |-> SetInvalid(data), field |-> field]
       ELSE [ctx |-> data, field |-> Remainder(tail, field)]

\* pldm_msgbuf_init_dynamic_uint16: the buffer is the record alone, and the
\* field goes on after it.
pldm_msgbuf_init_dynamic_uint16(req, field, length) ==
    LET data == InitOver(req, field)
        tail == Access(data, length)
    IN IF tail.remaining < 0
       THEN [ctx |-> SetInvalid(data), field |-> field]
       ELSE [ctx |-> InitOver(req, VariableField(data.cursor, length)),
             field |-> Remainder(tail, field)]

\* The bytes at the end of a record that are not descriptors.
PackageDataOffset(p, v) == v.data + Manifest(p, v)

\* The buffer ctx of a record in front of the bitmap of components, the version
\* string, the stamp and the descriptors, and then of package data and manifest,
\* which are found from the end of the record.
FrontParts(p, req, v, stamp, ctx) ==
    LET bitmap == Access(Access(ctx, req), IF p.revision >= 4 THEN 4 ELSE 0)
        version == Access(bitmap, p.bits \div 8)
        stamped == Access(version, v.version)
    IN [bitmap |-> bitmap, version |-> version, stamped |-> stamped,
        descriptors |-> Access(stamped, stamp)]
RearParts(p, v, ctx) ==
    LET data == SpanUntil(ctx, PackageDataOffset(p, v))
        manifest == Access(data, v.data)
    IN [data |-> data, manifest |-> manifest, end |-> Access(manifest, Manifest(p, v))]

\* What the application gets: the record, of the given length, with its parts.
DeviceRecord(ctx, length, stamp, count, front, rear) ==
    [NoRecord EXCEPT
        !.whole = VariableField(ctx.cursor, length),
        !.fixed = front.bitmap.cursor - ctx.cursor + stamp,
        !.parts = <<Between(front.bitmap, front.version),
                    Between(front.version, front.stamped),
                    Between(front.descriptors, rear.data),
                    Between(rear.data, rear.manifest),
                    Between(rear.manifest, rear.end)>>,
        !.descriptors = Between(front.descriptors, rear.data),
        !.descriptor_count = count]

\* The records of firmware devices and of downstream devices.  They differ in
\* the stamp, and in whether the version string may be empty.
DeviceIdRecord(p, req, v, stamp, empty) ==
    LET d == pldm_msgbuf_init_dynamic_uint16(req, p.field, v.length)
        front == FrontParts(p, req, v, stamp, d.ctx)
        rear == RearParts(p, v, front.descriptors)
    IN [pkg |-> [p EXCEPT !.field = d.field],
        rec |-> DeviceRecord(d.ctx, v.length, stamp, v.count, front, rear),
        rc |-> FirstError(<<
            <<d.ctx.remaining < 0, "EOVERFLOW">>,
            <<~v.typed \/ (v.version = 0 /\ ~empty), "EPROTO">>,
            <<TRUE, Consumed(rear.end)>> >>)]

decode_pldm_package_firmware_device_id_record_errno(p, v) ==
    DeviceIdRecord(p, PLDM_FWUP_FIRMWARE_DEVICE_ID_RECORD_MIN_SIZE, v, 0, FALSE)

decode_pldm_package_downstream_device_id_record_from_iter(p, v) ==
    DeviceIdRecord(p, PLDM_FWUP_DOWNSTREAM_DEVICE_ID_RECORD_MIN_SIZE, v,
                   IF v.stamped THEN 4 ELSE 0, TRUE)

\* One turn of a loop over records: its condition, and the decoding.
DecodeDevice(v) ==
    /\ loop.at = "head" /\ loop.section \in Sections \ {"component_images"}
    /\ pkg.entries # 0
    /\ LET fd == loop.section = "firmware_devices"
           d == IF fd
                THEN decode_pldm_package_firmware_device_id_record_errno(pkg, v)
                ELSE decode_pldm_package_downstream_device_id_record_from_iter(
                         pkg, v)
       IN /\ rc' = d.rc
          /\ pkg' = d.pkg
          /\ rec' = IF d.rc = "OK" THEN d.rec ELSE NoRecord
          /\ loop' = Loop(loop.section, IF d.rc = "OK" THEN "body" ELSE "failed")
          /\ given' = IF d.rc = "OK" THEN given + 1 ELSE given
          /\ asserts' = /\ asserts
                        /\ pkg.state = IF fd THEN "FIRMWARE_DEVICES"
                                             ELSE "DOWNSTREAM_DEVICES"
                        /\ ~fd => pkg.revision > 1
                        /\ pkg.bits % 8 = 0
    /\ UNCHANGED announced

\* What is read from a component: whether the string's type is valid and
\* its length, the length of the opaque data, whether the classification is
\* one of those defined, and where the image is.
ComponentValues ==
    [typed : BOOLEAN, version : StringLengths, opaque : DataLengths,
     classified : BOOLEAN, offset : ImageOffsets, size : ImageSizes]

\* The buffer over what is left, and in front of the version string, the length
\* of the opaque data and the opaque data, and behind it.
ComponentBuffer(p) == InitOver(PLDM_FWUP_COMPONENT_IMAGE_INFORMATION_MIN_SIZE, p.field)
ComponentParts(p, v) ==
    LET version == Access(ComponentBuffer(p), PLDM_FWUP_COMPONENT_IMAGE_INFORMATION_MIN_SIZE)
        length == Access(version, v.version)
        opaque == Access(length, IF p.revision >= 3 THEN 4 ELSE 0)
    IN [version |-> version, length |-> length, opaque |-> opaque,
        end |-> Access(opaque, IF p.revision >= 3 THEN v.opaque ELSE 0)]

decode_pldm_package_component_image_information_from_iter(p, v) ==
    LET buf == ComponentBuffer(p)
        at == ComponentParts(p, v)
        image == Access(InitOver(0, VariableField(0, p.length)), v.offset)
        rest == Access(image, v.size)
    IN [pkg |-> [p EXCEPT !.field = IF buf.remaining >= 0 /\ v.typed
                                    THEN Remainder(at.end, p.field) ELSE p.field],
        rec |-> [NoRecord EXCEPT
                    !.whole = Between(buf, at.end),
                    !.fixed = PLDM_FWUP_COMPONENT_IMAGE_INFORMATION_MIN_SIZE
                                  + (at.opaque.cursor - at.length.cursor),
                    !.parts = <<Between(at.version, at.length),
                                Between(at.opaque, at.end)>>,
                    !.image = Between(image, rest)],
        rc |-> FirstError(<<
            <<buf.remaining < 0, "EOVERFLOW">>,
            <<~v.typed, "EPROTO">>,
            <<at.end.remaining < 0, "EOVERFLOW">>,
            <<~v.classified, "EPROTO">>,
            <<rest.remaining < 0, "EOVERFLOW">> >>)]

\* One turn of the loop over components.
DecodeComponent(v) ==
    /\ loop.at = "head" /\ loop.section = "component_images"
    /\ pkg.state # "COMPLETE"
    /\ LET d == decode_pldm_package_component_image_information_from_iter(pkg, v)
       IN /\ rc' = d.rc
          /\ pkg' = d.pkg
          /\ rec' = IF d.rc = "OK" THEN d.rec ELSE NoRecord
          /\ loop' = Loop(loop.section, IF d.rc = "OK" THEN "body" ELSE "failed")
          /\ given' = IF d.rc = "OK" THEN given + 1 ELSE given
    /\ asserts' = (asserts /\ pkg.state = "COMPONENT_IMAGE_INFORMATION")
    /\ UNCHANGED announced

\* The iter_end functions: no entry is left.
EndLoop ==
    /\ loop.at = "head"
    /\ IF loop.section = "component_images" THEN pkg.state = "COMPLETE"
                                            ELSE pkg.entries = 0
    /\ loop' = Loop(loop.section, "complete")
    /\ asserts' = (asserts /\ pkg.entries = 0)
    /\ rec' = NoRecord
    /\ UNCHANGED <<pkg, rc, announced, given>>

\* The iter_next functions.
IterNext(section, p) ==
    IF section = "component_images"
    THEN LET left == (p.entries - 1) % (SIZE_T_MAX + 1)
         IN [p EXCEPT !.entries = left,
                      !.state = IF left = 0 THEN "COMPLETE" ELSE @]
    ELSE [p EXCEPT !.entries = @ - 1]

\* The end of the body: the third expression of the macro, and the test of rc,
\* which an inner loop may have set.
EndBody ==
    /\ loop.at = "body" /\ loop.inner = NULL
    /\ pkg' = IterNext(loop.section, pkg)
    /\ loop' = Loop(loop.section, IF rc = "OK" THEN "head" ELSE "failed")
    /\ rec' = NoRecord
    /\ UNCHANGED <<rc, asserts, announced, given>>

\* The application leaves the loop.
Break ==
    /\ loop.at = "body"
    /\ loop' = Loop(loop.section, "left")
    /\ rec' = NoRecord
    /\ UNCHANGED <<pkg, rc, asserts, announced, given>>

(***************************************************************************)
(* The descriptors of a record, in the body of the loop over records.      *)
(* The macros set rc to 0 first.  After a failure the field is NULL, and   *)
(* the application does not go through it again.                           *)
(***************************************************************************)
BeginDescriptors ==
    /\ loop.at = "body" /\ loop.inner = NULL
    /\ loop.section # "component_images"
    /\ rec.descriptors.ptr # NULL
    /\ loop' = [loop EXCEPT !.inner = rec.descriptor_count]
    /\ rc' = "OK"
    /\ asserts' = (asserts /\ (loop.section = "firmware_devices" =>
                                   pkg.state = "FIRMWARE_DEVICES"))
    /\ UNCHANGED <<pkg, rec, announced, given>>

\* decode_pldm_descriptor_from_iter
DescriptorFromIter(field, length) ==
    LET buf == InitOver(MIN_DESCRIPTOR, field)
        data == Access(buf, 4)
        end == Access(data, length)
    IN IF buf.remaining < 0
       THEN [field |-> field, data |-> NoField, rc |-> "EOVERFLOW"]
       ELSE [field |-> Remainder(end, VariableField(NULL, field.length)),
             data |-> Between(data, end), rc |-> Validate(end)]

\* One turn of the inner loop; its body does nothing to the package.
DecodeDescriptor(length) ==
    /\ loop.inner > 0
    /\ LET d == DescriptorFromIter(rec.descriptors, length)
       IN /\ rc' = d.rc
          /\ rec' = [rec EXCEPT !.descriptors = d.field, !.descriptor = d.data]
          /\ loop' = [loop EXCEPT !.inner = IF d.rc = "OK" THEN @ - 1 ELSE NULL]
    /\ UNCHANGED <<pkg, asserts, announced, given>>

\* The inner loop has run out of descriptors, or the application leaves it.
EndDescriptors ==
    /\ loop.inner # NULL
    /\ loop' = [loop EXCEPT !.inner = NULL]
    /\ UNCHANGED <<pkg, rec, rc, asserts, announced, given>>

\* The application turns to another package.
Discard ==
    /\ ~Running
    /\ pkg' = NewPackage
    /\ rec' = NoRecord
    /\ loop' = Loop("", "")
    /\ rc' = "OK"
    /\ announced' = 0
    /\ given' = 0
    /\ UNCHANGED asserts

PackageNext ==
    \/ /\ pkg.state = "INIT"
       /\ \E pin \in Revisions, len \in PackageLengths, v \in HeaderValues :
             decode_pldm_firmware_update_package(pin, len, v)
    \/ \E section \in Sections, count \in Counts : BeginLoop(section, count)
    \/ /\ loop.at = "head"
       /\ \/ \E v \in RecordValues : DecodeDevice(v)
          \/ \E v \in ComponentValues : DecodeComponent(v)
    \/ EndLoop
    \/ EndBody
    \/ Break
    \/ BeginDescriptors
    \/ \E length \in DataLengths : DecodeDescriptor(length)
    \/ EndDescriptors
    \/ Discard

PackageSpec == PackageInit /\ [][PackageNext]_pkgVars

(***************************************************************************)
(* Properties.                                                             *)
(***************************************************************************)
Inside(f, g) == g.ptr <= f.ptr /\ f.ptr + f.length <= g.ptr + g.length
Apart(f, g) == f.ptr + f.length <= g.ptr \/ g.ptr + g.length <= f.ptr

\* Whatever the package says, the version string, the areas and every image
\* are inside the package; every record and component is inside the areas, in
\* front of what is still to be read; and its parts, which do not overlap, make
\* up the whole of it, the descriptors being read inside their part.
PartsInPlace ==
    /\ pkg.state # "INIT" =>
           /\ Inside(pkg.version, VariableField(0, pkg.areas.ptr))
           /\ Inside(pkg.areas, VariableField(0, pkg.length))
           /\ pkg.field = NoField \/ Inside(pkg.field, pkg.areas)
    /\ loop.at = "body" =>
           /\ Inside(rec.whole, pkg.areas)
           /\ rec.whole.ptr + rec.whole.length = pkg.field.ptr
           /\ \A i \in DOMAIN rec.parts :
                 /\ Inside(rec.parts[i], rec.whole)
                 /\ \A j \in 1..(i - 1) : Apart(rec.parts[i], rec.parts[j])
           /\ rec.whole.length =
                  rec.fixed + SumFunctionOnSet(
                                  [i \in DOMAIN rec.parts |-> rec.parts[i].length],
                                  DOMAIN rec.parts)
           /\ loop.section = "component_images" =>
                  Inside(rec.image, VariableField(0, pkg.length))
           /\ rec.descriptor # NoField =>
                  Inside(rec.descriptor, rec.parts[3])

\* The loop over components does not look at a count of zero before it
\* decodes one.
NoImagesAnnounced == loop.section = "component_images" /\ announced = 0

\* In whatever order an application runs the loops, no assert fails; a loop
\* hands out no more entries than its section announces, and all of them if
\* it ends without an error, those of its inner loops included.  The loop over
\* components is excepted if none is announced.
EntriesAsAnnounced ==
    /\ asserts
    /\ ~NoImagesAnnounced =>
           /\ given <= announced
           /\ loop.at = "complete" => given = announced /\ rc = "OK"

=============================================================================
