------------------------- MODULE PackageParserProofs -------------------------
(***************************************************************************)
(* Proofs about the firmware package parser of PackageParser, for all      *)
(* lengths, counts, sizes and offsets that a package may have: the parts   *)
(* that the decode functions of firmware_update.c hand out lie inside the  *)
(* package and inside each other, and the foreach_pldm_package_ loops of   *)
(* firmware_update.h hand out the entries that are announced.              *)
(*                                                                         *)
(* The inductive invariant is PackageInv.  It says of the package that its *)
(* areas lie behind its version string and that what is left to be read is *)
(* always their end (PackageSound); of a record in the body of a loop that *)
(* its parts are laid out without overlap or gap and that it ends where    *)
(* what is left begins (RecordSound); and of the loop which section the    *)
(* package is in, and that the entries given and the entries left add up   *)
(* to those announced (LoopSound).  For each decode function a lemma says  *)
(* what it makes of a sound package; they rest on what one access to a     *)
(* message buffer does to its cursor and its count (Passed, PassedUntil,   *)
(* OverField, RemainderIs, BetweenIs).                                     *)
(***************************************************************************)
EXTENDS PackageParser, Induction, TLAPS

\* The provers a step is tried with, one after the other.
USE SMTT(30), Z3T(30), ZenonT(30)

\* A message buffer: its cursor, and the bytes it has left as an intmax_t.
Context == [cursor : Int, remaining : INTMAX_MIN..INTMAX_MAX]

\* pldm__msgbuf_set_invalid leaves a negative count and the cursor.
LEMMA Invalidated ==
    ASSUME NEW ctx \in Context
    PROVE  /\ SetInvalid(ctx) \in Context
           /\ SetInvalid(ctx).remaining < 0
           /\ SetInvalid(ctx).cursor = ctx.cursor
BY IntmaxAssumption DEF SetInvalid, Ctx, Context, INTMAX_MIN

\* struct variable_field, and where one ends.
Fields == [ptr : Int, length : Int]
End(f) == f.ptr + f.length

States == {"INIT", "HEADER", "FIRMWARE_DEVICES", "DOWNSTREAM_DEVICES",
           "COMPONENT_IMAGE_INFORMATION", "COMPLETE"}

Packages ==
    [state : States, pin : 0..4, revision : 0..4, bits : Nat,
     length : Nat, version : Fields, areas : Fields, field : Fields,
     entries : 0..SIZE_T_MAX]

\* A package: nothing is known of it before its header is decoded, but that
\* the other functions refuse it; then its areas are inside it, and what is
\* left to be read of them is always their end.
PackageSound(p) ==
    /\ p \in Packages
    /\ p.state = "INIT" => p.pin = 0
    /\ p.state \in {"INIT", "HEADER"} => p.field = NoField
    /\ p.state # "INIT" =>
           /\ p.pin \in Revisions /\ p.revision \in 1..p.pin
           /\ p.bits % 8 = 0
           /\ p.version.ptr >= 0 /\ p.version.length >= 0
           /\ p.areas.ptr = End(p.version)
           /\ p.areas.length >= 0 /\ End(p.areas) <= p.length
    /\ p.state \notin {"INIT", "HEADER"} =>
           /\ p.field.length >= 0
           /\ p.field.ptr >= p.areas.ptr /\ End(p.field) = End(p.areas)
    /\ p.state = "DOWNSTREAM_DEVICES" =>
           p.pin # 1 /\ (p.revision = 1 => p.entries = 0)
    /\ p.state = "COMPLETE" => p.entries = 0

\* The parts of a record are laid out in it without overlap or gap.
Laid(r) ==
    /\ r.whole \in Fields /\ r.fixed \in Int /\ r.whole.length >= 0
    /\ \A i \in DOMAIN r.parts :
          /\ r.parts[i] \in Fields /\ r.parts[i].length >= 0
          /\ Inside(r.parts[i], r.whole)
          /\ \A j \in 1..(i - 1) : Apart(r.parts[i], r.parts[j])
    /\ r.whole.length =
           r.fixed + SumFunctionOnSet([i \in DOMAIN r.parts |-> r.parts[i].length],
                                      DOMAIN r.parts)

\* The record that the application has, of a loop over records or over
\* components.
RecordSound(r, section, p) ==
    /\ Laid(r)
    /\ r.whole.ptr >= p.areas.ptr /\ End(r.whole) = p.field.ptr
    /\ r.descriptors \in Fields /\ r.descriptor \in Fields
    /\ r.descriptor_count \in Nat
    /\ section # "component_images" =>
           /\ 3 \in DOMAIN r.parts
           /\ r.descriptors.ptr # NULL =>
                  r.descriptors.length >= 0 /\ Inside(r.descriptors, r.parts[3])
           /\ r.descriptor # NoField => Inside(r.descriptor, r.parts[3])
    /\ section = "component_images" =>
           /\ r.descriptor = NoField
           /\ r.image \in Fields /\ Inside(r.image, VariableField(0, p.length))

\* The package is in the section that the loop is over.
InSection(section, state) ==
    \/ section = "firmware_devices" /\ state = "FIRMWARE_DEVICES"
    \/ section = "downstream_devices" /\ state = "DOWNSTREAM_DEVICES"
    \/ section = "component_images" /\ state = "COMPONENT_IMAGE_INFORMATION"

\* Where the loop is, and how many entries are given and left.
LoopSound ==
    /\ loop.at \in {"", "head", "body", "complete", "failed", "left"}
    /\ loop.section \in Sections \cup {""}
    /\ loop.inner \in Nat \cup {NULL}
    /\ loop.inner # NULL =>
           /\ loop.at = "body" /\ loop.section # "component_images"
           /\ rec.descriptors.ptr # NULL
    /\ given \in Nat /\ announced \in Nat
    /\ loop.at = "complete" => pkg.state # "INIT"
    /\ loop.at = "head" =>
           /\ rc = "OK"
           /\ \/ InSection(loop.section, pkg.state)
              \/ loop.section = "component_images" /\ pkg.state = "COMPLETE"
           /\ ~NoImagesAnnounced => given + pkg.entries = announced
           /\ loop.section = "component_images" /\ pkg.state # "COMPLETE" /\ announced # 0
                  => pkg.entries # 0
    /\ loop.at = "body" =>
           /\ InSection(loop.section, pkg.state)
           /\ loop.section # "component_images" => pkg.entries # 0
           /\ ~NoImagesAnnounced => given + pkg.entries = announced + 1 /\ pkg.entries # 0

\* The inductive invariant.
PackageInv ==
    /\ PackageSound(pkg)
    /\ DOMAIN rec = DOMAIN NoRecord /\ DOMAIN loop = {"section", "at", "inner"}
    /\ loop.at = "body" => RecordSound(rec, loop.section, pkg)
    /\ LoopSound
    /\ EntriesAsAnnounced

\* The entries left are counted by a size_t.
LEMMA EntriesNat ==
    ASSUME NEW p, PackageSound(p)
    PROVE  p.entries \in Nat
BY PackageAssumption DEF PackageSound, Packages

\* A length is a number.
LEMMA LengthNat ==
    ASSUME NEW n \in DataLengths
    PROVE  n \in Nat
BY PackageAssumption

\* The areas do not begin in front of the package.
LEMMA AreasBehind ==
    ASSUME NEW p, PackageSound(p), p.state # "INIT"
    PROVE  p.areas.ptr \in Int /\ p.areas.ptr >= 0
<1>1. p.version \in Fields /\ p.areas \in Fields
  BY DEF PackageSound, Packages
<1>2. p.areas.ptr = End(p.version) /\ p.version.ptr >= 0 /\ p.version.length >= 0
  BY DEF PackageSound
<1> QED
  BY <1>1, <1>2 DEF Fields, End

\* Neither does what is inside of them.
LEMMA InsideBehind ==
    ASSUME NEW f \in Fields, NEW g \in Fields, Inside(f, g),
           NEW a \in Int, a >= 0, g.ptr >= a
    PROVE  f.ptr >= 0
BY DEF Fields, Inside

\* An entry more is given.
LEMMA OneMore ==
    ASSUME NEW g \in Nat, NEW a \in Nat, NEW e \in Nat, g + e = a, e # 0
    PROVE  (g + 1) + e = a + 1 /\ g + 1 <= a
OBVIOUS

\* An entry fewer is left.
LEMMA OneLess ==
    ASSUME NEW g \in Nat, NEW a \in Nat, NEW e \in Nat, g + e = a + 1
    PROVE  g + (e - 1) = a
OBVIOUS

\* An access that leaves the count at zero or above has passed its bytes, and
\* one that does not has not moved the cursor.
LEMMA Passed ==
    ASSUME NEW ctx \in Context, NEW n \in Nat
    PROVE  /\ Access(ctx, n) \in Context
           /\ Access(ctx, n).remaining >= 0 =>
                  /\ ctx.remaining >= n
                  /\ Access(ctx, n).cursor = ctx.cursor + n
                  /\ Access(ctx, n).remaining = ctx.remaining - n
           /\ Access(ctx, n).remaining < 0 =>
                  ctx.remaining < n /\ Access(ctx, n).cursor = ctx.cursor
<1>1. ctx.cursor \in Int /\ ctx.remaining \in INTMAX_MIN..INTMAX_MAX
  BY DEF Context
<1>2. CASE ctx.remaining >= n
  <2>1. Access(ctx, n) = Ctx(ctx.cursor + n, ctx.remaining - n)
    BY <1>2 DEF Access, Fits
  <2>2. ctx.remaining - n \in 0..INTMAX_MAX
    BY <1>1, <1>2, IntmaxAssumption DEF INTMAX_MIN
  <2> QED
    BY <1>1, <1>2, <2>1, <2>2, IntmaxAssumption DEF Ctx, Context, INTMAX_MIN
<1>3. CASE ctx.remaining < n
  <2>1. \E r \in INTMAX_MIN..(-1) : Access(ctx, n) = Ctx(ctx.cursor, r)
    BY <1>1, <1>3, IntmaxAssumption DEF Access, Fits, SetInvalid, INTMAX_MIN
  <2> QED
    BY <1>1, <1>3, <2>1, IntmaxAssumption DEF Ctx, Context, INTMAX_MIN
<1> QED
  BY <1>1, <1>2, <1>3, IntmaxAssumption DEF INTMAX_MIN

\* The same, from behind.
LEMMA Back ==
    ASSUME NEW ctx \in Context, NEW n \in Nat, NEW new, new = Access(ctx, n),
           new.remaining >= 0
    PROVE  /\ ctx.cursor \in Int /\ ctx.remaining \in Int /\ ctx.remaining >= n
           /\ new.cursor = ctx.cursor + n
           /\ new.remaining = ctx.remaining - n
BY Passed DEF Context

\* The cursor and the count are numbers.
LEMMA ContextInt ==
    ASSUME NEW ctx \in Context
    PROVE  ctx.cursor \in Int /\ ctx.remaining \in Int
BY DEF Context

\* pldm__msgbuf_span_until, with a trailer that an intmax_t can hold.
LEMMA PassedUntil ==
    ASSUME NEW ctx \in Context, NEW n \in 0..INTMAX_MAX
    PROVE  /\ SpanUntil(ctx, n) \in Context
           /\ SpanUntil(ctx, n).remaining >= 0 =>
                  /\ ctx.remaining >= n
                  /\ SpanUntil(ctx, n).cursor = ctx.cursor + (ctx.remaining - n)
                  /\ SpanUntil(ctx, n).remaining = n
BY IntmaxAssumption DEF SpanUntil, Fits, SetInvalid, Ctx, Context, INTMAX_MIN

\* A buffer over a field.
LEMMA OverField ==
    ASSUME NEW n \in Nat, NEW f \in Fields, f.length >= 0
    PROVE  /\ InitOver(n, f) \in Context
           /\ InitOver(n, f).remaining >= 0 =>
                  /\ n <= f.length /\ f.length <= INTMAX_MAX
                  /\ InitOver(n, f).cursor = f.ptr
                  /\ InitOver(n, f).remaining = f.length
BY IntmaxAssumption
DEF InitOver, InitErrno, Ctx, Context, Fields, NULL, INTMAX_MIN

\* What is left of a field, behind a buffer over it.
LEMMA RemainderIs ==
    ASSUME NEW ctx \in Context, NEW f
    PROVE  /\ ctx.remaining < 0 => Remainder(ctx, f) = f
           /\ ctx.remaining >= 0 =>
                  /\ Remainder(ctx, f) \in Fields
                  /\ Remainder(ctx, f).ptr = ctx.cursor
                  /\ Remainder(ctx, f).length = ctx.remaining
BY IntmaxAssumption DEF Remainder, VariableField, Context, Fields, INTMAX_MIN

\* The field between two places of a buffer.
LEMMA BetweenIs ==
    ASSUME NEW a \in Context, NEW b \in Context
    PROVE  /\ Between(a, b) \in Fields
           /\ Between(a, b).ptr = a.cursor
           /\ Between(a, b).length = b.cursor - a.cursor
BY DEF Between, VariableField, Context, Fields

\* The checks before the last have errors; if there is no error, none fails.
LEMMA NoError ==
    ASSUME NEW checks, NEW n \in Nat, DOMAIN checks = 1..n,
           \A i \in 1..(n - 1) : checks[i][2] # "OK",
           FirstError(checks) = "OK"
    PROVE  \A i \in 1..n : checks[i][1] => i = n /\ checks[i][2] = "OK"
<1> DEFINE failed == {i \in DOMAIN checks : checks[i][1]}
<1> SUFFICES ASSUME NEW i \in failed PROVE i = n /\ checks[i][2] = "OK"
  OBVIOUS
<1>1. failed \subseteq Nat /\ failed # {}
  OBVIOUS
<1>2. PICK x \in failed : \A y \in failed : x <= y
  BY <1>1, Least, ZenonT(30)
<1>3. Min(failed) \in failed /\ \A y \in failed : Min(failed) <= y
  BY <1>2 DEF Min
<1>4. checks[Min(failed)][2] = "OK"
  BY <1>1 DEF FirstError
<1>5. Min(failed) = n
  BY <1>3, <1>4
<1>6. i \in 1..n /\ n <= i
  BY <1>3, <1>5
<1> QED
  BY <1>4, <1>5, <1>6

\* The sum of the lengths of parts, from the last on.
LEMMA SumUpTo ==
    ASSUME NEW g, NEW n \in Nat \ {0}, \A i \in 1..n : g[i] \in Nat
    PROVE  SumFunctionOnSet(g, 1..n) = g[n] + SumFunctionOnSet(g, 1..(n - 1))
<1> DEFINE S == 1..n
<1>1. IsFiniteSet(S)
  BY FS_Interval
<1>2. S \ {n} = 1..(n - 1) /\ n \in S /\ \A i \in S : g[i] \in Nat
  OBVIOUS
<1> HIDE DEF S
<1>3. SumFunctionOnSet(g, S) = g[n] + SumFunctionOnSet(g, S \ {n})
  BY <1>1, <1>2, SumRemove
<1> QED
  BY <1>2, <1>3, ZenonT(30) DEF S

\* The sum over the two parts of a component.
LEMMA SumOfTwo ==
    ASSUME NEW g, \A i \in 1..2 : g[i] \in Nat
    PROVE  SumFunctionOnSet(g, 1..2) = g[1] + g[2]
<1>1. ASSUME NEW n \in 1..2
      PROVE  SumFunctionOnSet(g, 1..n) = g[n] + SumFunctionOnSet(g, 1..(n - 1))
  BY SumUpTo
<1>2. SumFunctionOnSet(g, 1..2) = g[2] + SumFunctionOnSet(g, 1..1)
  BY <1>1
<1>3. SumFunctionOnSet(g, 1..1) = g[1] + SumFunctionOnSet(g, 1..0)
  BY <1>1
<1>4. g[1] \in Nat /\ g[2] \in Nat /\ 1..0 = {}
  OBVIOUS
<1> QED
  BY <1>2, <1>3, <1>4, SumEmpty

\* The same, of the five parts of a record.
LEMMA SumOfFive ==
    ASSUME NEW g, \A i \in 1..5 : g[i] \in Nat
    PROVE  SumFunctionOnSet(g, 1..5) = g[1] + g[2] + g[3] + g[4] + g[5]
<1>1. ASSUME NEW n \in 1..5
      PROVE  SumFunctionOnSet(g, 1..n) = g[n] + SumFunctionOnSet(g, 1..(n - 1))
  BY SumUpTo
<1>2. SumFunctionOnSet(g, 1..5) = g[5] + SumFunctionOnSet(g, 1..4)
  BY <1>1
<1>3. SumFunctionOnSet(g, 1..4) = g[4] + SumFunctionOnSet(g, 1..3)
  BY <1>1
<1>4. SumFunctionOnSet(g, 1..3) = g[3] + SumFunctionOnSet(g, 1..2)
  BY <1>1
<1>5. g[1] \in Nat /\ g[2] \in Nat /\ g[3] \in Nat /\ g[4] \in Nat /\ g[5] \in Nat
  OBVIOUS
<1>6. SumFunctionOnSet(g, 1..2) = g[1] + g[2]
  BY SumOfTwo
<1> QED
  BY <1>2, <1>3, <1>4, <1>5, <1>6

\* The header: an error leaves a package that is not in use, or one whose areas
\* are known and nothing else.
LEMMA HeaderSound ==
    ASSUME PackageSound(pkg), pkg.state = "INIT",
           NEW pin \in Revisions, NEW len \in PackageLengths, NEW v \in HeaderValues
    PROVE  PackageSound(decode_pldm_package_header_info_errno(pkg, pin, len, v).pkg)
<1> DEFINE h == decode_pldm_package_header_info_errno(pkg, pin, len, v)
           at == HeaderParts(len, v)
           checks == <<
            <<pkg.state # "INIT", "EINVAL">>,
            <<HeaderBuffer(len).remaining < 0, "EOVERFLOW">>,
            <<v.identifier = 0, "ENOTSUP">>,
            <<v.revision < 1, "EPROTO">>,
            <<v.revision > pin \/ v.identifier # v.revision, "ENOTSUP">>,
            <<v.bits % 8 # 0 \/ ~v.typed, "EPROTO">>,
            <<VariableSize(v) < 3 \/ VariableSize(v) < v.version, "EOVERFLOW">> >>
           error == HeaderError(pkg, pin, len, v)
<1>1. /\ len \in Nat /\ v.revision \in 0..4 /\ v.size \in Nat /\ v.bits \in Nat
      /\ v.version \in Nat /\ v.typed \in BOOLEAN
  BY PackageAssumption DEF HeaderValues
<1>2. ChecksumSize(v) \in Nat /\ VariableSize(v) \in Int
  BY <1>1 DEF ChecksumSize, VariableSize, PLDM_FWUP_PACKAGE_HEADER_FIXED_SIZE
<1>3. CASE error # "OK"
  BY <1>3 DEF decode_pldm_package_header_info_errno
<1>4. CASE error = "OK"
  <2>1. \A i \in 1..7 : checks[i][1] => i = 7 /\ checks[i][2] = "OK"
    <3>1. DOMAIN checks = 1..7 /\ \A i \in 1..(7 - 1) : checks[i][2] # "OK"
      OBVIOUS
    <3>2. FirstError(checks) = "OK"
      BY <1>4 DEF HeaderError
    <3> HIDE DEF checks
    <3> QED
      BY <3>1, <3>2, NoError, ZenonT(30)
  <2>2. /\ v.revision \in 1..pin /\ v.bits % 8 = 0
        /\ VariableSize(v) - v.version \in Nat
    <3>1. /\ ~(v.revision < 1) /\ ~(v.revision > pin) /\ ~(v.bits % 8 # 0)
          /\ ~(VariableSize(v) < v.version)
      <4>1. /\ checks[4][1] <=> v.revision < 1
            /\ checks[5][1] <=> (v.revision > pin \/ v.identifier # v.revision)
            /\ checks[6][1] <=> (v.bits % 8 # 0 \/ ~v.typed)
            /\ checks[7][1] <=> (VariableSize(v) < 3 \/ VariableSize(v) < v.version)
            /\ checks[7][2] # "OK"
        BY ZenonT(30)
      <4> HIDE DEF checks
      <4>2. ~checks[4][1] /\ ~checks[5][1] /\ ~checks[6][1] /\ ~checks[7][1]
        BY <2>1, <4>1
      <4> QED
        BY <4>1, <4>2
    <3> HIDE DEF checks
    <3> QED
      BY <1>1, <1>2, <3>1 DEF Revisions
  <2> HIDE DEF checks, at, error
  <2>3. HeaderBuffer(len) \in Context
    BY <1>1, OverField DEF HeaderBuffer, VariableField, Fields, PLDM_FWUP_PACKAGE_HEADER_FIXED_SIZE
  <2>4. /\ at.version = Access(HeaderBuffer(len), 36)
        /\ at.areas = Access(at.version, v.version)
        /\ at.sums = Access(at.areas, VariableSize(v) - v.version)
    BY DEF at, HeaderParts, PLDM_FWUP_PACKAGE_HEADER_FIXED_SIZE
  <2>5. at.version \in Context
    BY <2>3, <2>4, Passed
  <2>6. at.areas \in Context
    BY <1>1, <2>4, <2>5, Passed
  <2>7. at.sums \in Context
    BY <2>2, <2>4, <2>6, Passed
  <2>8. CASE at.sums.remaining < 0
    <3>1. h.pkg = pkg
      BY <1>4, <2>7, <2>8, ContextInt DEF decode_pldm_package_header_info_errno, at, error
    <3> QED
      BY <3>1
  <2>9. CASE at.sums.remaining >= 0
    <3>1. /\ at.areas.remaining >= 0
          /\ at.sums.cursor = at.areas.cursor + (VariableSize(v) - v.version)
          /\ at.sums.cursor + at.sums.remaining = at.areas.cursor + at.areas.remaining
      <4>1. at.areas.remaining >= VariableSize(v) - v.version
        BY <2>2, <2>4, <2>6, <2>9, Back
      <4>2. /\ at.sums.cursor = at.areas.cursor + (VariableSize(v) - v.version)
            /\ at.sums.remaining = at.areas.remaining - (VariableSize(v) - v.version)
        BY <2>2, <2>4, <2>6, <2>9, Back
      <4> QED
        BY <2>2, <2>6, <2>7, <4>1, <4>2, ContextInt
    <3>2. /\ at.version.remaining >= 0
          /\ at.areas.cursor = at.version.cursor + v.version
          /\ at.areas.cursor + at.areas.remaining = at.version.cursor + at.version.remaining
      <4>1. /\ at.version.remaining >= v.version
            /\ at.areas.cursor = at.version.cursor + v.version
            /\ at.areas.remaining = at.version.remaining - v.version
        BY <1>1, <2>4, <2>5, <3>1, Back
      <4> QED
        BY <1>1, <2>5, <2>6, <4>1, ContextInt
    <3>3. /\ at.version.cursor = 36
          /\ at.version.cursor + at.version.remaining = len
      <4>1. /\ HeaderBuffer(len).remaining >= 36
            /\ at.version.cursor = HeaderBuffer(len).cursor + 36
            /\ at.version.remaining = HeaderBuffer(len).remaining - 36
        BY <2>3, <2>4, <3>2, Back
      <4>2. HeaderBuffer(len).cursor = 0 /\ HeaderBuffer(len).remaining = len
        BY <1>1, <2>3, <4>1, ContextInt, OverField
        DEF HeaderBuffer, VariableField, Fields, PLDM_FWUP_PACKAGE_HEADER_FIXED_SIZE
      <4> QED
        BY <1>1, <4>1, <4>2
    <3> DEFINE A == Between(at.areas, at.sums)
               V == Between(at.version, at.areas)
    <3>4. /\ A \in Fields /\ A.ptr = at.areas.cursor
          /\ A.length = at.sums.cursor - at.areas.cursor
          /\ V \in Fields /\ V.ptr = 36 /\ V.length = v.version
      BY <1>1, <2>5, <2>6, <2>7, <3>2, <3>3, BetweenIs DEF Context
    <3>5. A.length >= 0 /\ End(A) <= len /\ A.ptr = End(V)
      BY <1>1, <1>2, <2>2, <2>5, <2>6, <2>7, <2>9, <3>1, <3>2, <3>3, <3>4 DEF End, Context
    <3>6. \/ h.pkg = [pkg EXCEPT !.areas = A]
          \/ h.pkg = HeaderKept([pkg EXCEPT !.areas = A], pin, len, v, V)
      BY <1>4, <2>7, <2>9, ContextInt DEF decode_pldm_package_header_info_errno, at, error
    <3> HIDE DEF A, V, h
    <3>7. CASE h.pkg = [pkg EXCEPT !.areas = A]
      <4>1. PackageSound([pkg EXCEPT !.areas = A])
        BY <3>4 DEF PackageSound, Packages
      <4> QED
        BY <3>7, <4>1 DEF h
    <3>8. CASE h.pkg = HeaderKept([pkg EXCEPT !.areas = A], pin, len, v, V)
      <4> DEFINE q == HeaderKept([pkg EXCEPT !.areas = A], pin, len, v, V)
      <4>1. pkg \in Packages /\ pkg.field = NoField
        BY DEF PackageSound
      <4>2. pin \in 0..4 /\ v.revision \in 0..4
        BY <1>1 DEF Revisions
      <4>3. q = [state |-> "HEADER", pin |-> pin, revision |-> v.revision,
                 bits |-> v.bits, length |-> len, version |-> V, areas |-> A,
                 field |-> NoField, entries |-> pkg.entries]
        BY <4>1 DEF HeaderKept, Packages
      <4> HIDE DEF q
      <4>4. /\ q \in Packages
            /\ q.state = "HEADER" /\ q.pin = pin /\ q.revision = v.revision
            /\ q.bits = v.bits /\ q.length = len /\ q.version = V /\ q.areas = A
            /\ q.field = NoField
        BY <1>1, <3>4, <4>1, <4>2, <4>3 DEF Packages, States
      <4>5. PackageSound(q)
        BY <1>1, <2>2, <3>4, <3>5, <4>4 DEF PackageSound, Revisions
      <4> QED
        BY <3>8, <4>5 DEF q, h
    <3> QED
      BY <3>6, <3>7, <3>8
  <2> QED
    BY <2>7, <2>8, <2>9, IntmaxAssumption DEF Context, INTMAX_MIN
<1> QED
  BY <1>3, <1>4

\* What is left of the areas, of which a section is entered.
Rest(p, f) ==
    f \in Fields /\ f.length >= 0 /\ f.ptr >= p.areas.ptr /\ End(f) = End(p.areas)

\* A package whose field moves on, or that enters a section, is sound.
LEMMA FieldSound ==
    ASSUME NEW p, PackageSound(p), p.state \notin {"INIT", "HEADER"},
           NEW f, Rest(p, f)
    PROVE  /\ PackageSound([p EXCEPT !.field = f])
           /\ [p EXCEPT !.field = f].state = p.state
           /\ [p EXCEPT !.field = f].entries = p.entries
           /\ [p EXCEPT !.field = f].areas = p.areas
           /\ [p EXCEPT !.field = f].length = p.length
           /\ [p EXCEPT !.field = f].field = f
<1>1. p \in Packages
  BY DEF PackageSound
<1> DEFINE q == [p EXCEPT !.field = f]
<1>2. /\ q \in Packages /\ q.state = p.state /\ q.pin = p.pin
      /\ q.revision = p.revision /\ q.bits = p.bits /\ q.length = p.length
      /\ q.version = p.version /\ q.areas = p.areas /\ q.field = f
      /\ q.entries = p.entries
  BY <1>1 DEF Packages, Rest
<1> HIDE DEF q
<1>3. PackageSound(q)
  BY <1>2 DEF PackageSound, Rest
<1> QED
  BY <1>2, <1>3 DEF q

\* The same, if it enters one.
LEMMA EnteredSound ==
    ASSUME NEW p, PackageSound(p), p.state # "INIT", NEW f, Rest(p, f),
           NEW n \in 0..SIZE_T_MAX,
           NEW state \in {"FIRMWARE_DEVICES", "DOWNSTREAM_DEVICES",
                          "COMPONENT_IMAGE_INFORMATION"},
           state = "DOWNSTREAM_DEVICES" => p.pin # 1 /\ (p.revision = 1 => n = 0)
    PROVE  PackageSound([p EXCEPT !.state = state, !.field = f, !.entries = n])
<1>1. p \in Packages
  BY DEF PackageSound
<1> DEFINE q == [p EXCEPT !.state = state, !.field = f, !.entries = n]
<1>2. /\ q \in Packages /\ q.state = state /\ q.pin = p.pin
      /\ q.revision = p.revision /\ q.bits = p.bits /\ q.length = p.length
      /\ q.version = p.version /\ q.areas = p.areas /\ q.field = f
      /\ q.entries = n
  BY <1>1, ZenonT(30) DEF Packages, Rest, States
<1> HIDE DEF q
<1>3. PackageSound(q)
  BY <1>2 DEF PackageSound, Rest
<1> QED
  BY <1>3 DEF q

\* The beginning of a section.
LEMMA EnterSound ==
    ASSUME NEW p, PackageSound(p), p.state # "INIT", NEW f, Rest(p, f),
           NEW width \in Nat, NEW count \in Counts,
           NEW state \in {"FIRMWARE_DEVICES", "DOWNSTREAM_DEVICES",
                          "COMPONENT_IMAGE_INFORMATION"},
           state = "DOWNSTREAM_DEVICES" => p.pin # 1 /\ p.revision # 1
    PROVE  LET e == EnterSection(p, state, f, width, count)
           IN  PackageSound(e.pkg) /\ e.pkg.state = state
<1> DEFINE e == EnterSection(p, state, f, width, count)
           ctx == Access(InitOver(1, f), width)
<1>1. p \in Packages /\ p.entries \in 0..SIZE_T_MAX /\ count \in 0..SIZE_T_MAX
  BY PackageAssumption DEF PackageSound, Packages
<1>2. InitOver(1, f) \in Context
  BY OverField DEF Rest
<1>3. ctx \in Context
  BY <1>2, Passed
<1>4. CASE ctx.remaining < 0
  <2>1. e.pkg = [p EXCEPT !.state = state, !.field = f, !.entries = p.entries]
    <3>1. e.pkg = [p EXCEPT !.state = state, !.field = f]
      BY <1>4 DEF EnterSection
    <3> QED
      BY <1>1, <3>1, ZenonT(30) DEF Packages
  <2>2. PackageSound([p EXCEPT !.state = state, !.field = f, !.entries = p.entries])
    BY <1>1, EnteredSound, ZenonT(30)
  <2>3. [p EXCEPT !.state = state, !.field = f, !.entries = p.entries].state = state
    BY <1>1 DEF Packages
  <2> QED
    BY <2>1, <2>2, <2>3
<1>5. CASE ctx.remaining >= 0
  <2> DEFINE g == Remainder(ctx, f)
  <2>1. e.pkg = [p EXCEPT !.state = state, !.field = g, !.entries = count]
    <3>1. e.pkg = [[p EXCEPT !.state = state, !.field = f]
                       EXCEPT !.entries = count, !.field = g]
      BY <1>3, <1>5, ContextInt DEF EnterSection
    <3> HIDE DEF g
    <3> QED
      BY <1>1, <3>1, ZenonT(30) DEF Packages
  <2>2. Rest(p, g)
    <3>1. /\ InitOver(1, f).remaining >= width
          /\ ctx.cursor = InitOver(1, f).cursor + width
          /\ ctx.remaining = InitOver(1, f).remaining - width
      BY <1>2, <1>5, Back
    <3>2. InitOver(1, f).cursor = f.ptr /\ InitOver(1, f).remaining = f.length
      BY <1>2, <3>1, ContextInt, OverField DEF Rest
    <3>3. g \in Fields /\ g.ptr = ctx.cursor /\ g.length = ctx.remaining
      BY <1>3, <1>5, RemainderIs
    <3> HIDE DEF g, ctx
    <3>4. p.areas \in Fields
      BY <1>1 DEF Packages
    <3> QED
      BY <1>5, <3>1, <3>2, <3>3, <3>4 DEF Rest, End, Fields
  <2> HIDE DEF g
  <2>3. PackageSound([p EXCEPT !.state = state, !.field = g, !.entries = count])
    BY <1>1, <2>2, EnteredSound, ZenonT(30)
  <2>4. [p EXCEPT !.state = state, !.field = g, !.entries = count].state = state
    BY <1>1 DEF Packages
  <2> QED
    BY <2>1, <2>3, <2>4
<1> QED
  BY <1>3, <1>4, <1>5, ContextInt

\* What is left of a package whose header is decoded.
LEMMA SoundRest ==
    ASSUME NEW p, PackageSound(p), p.state # "INIT"
    PROVE  /\ Rest(p, p.areas)
           /\ p.state # "HEADER" => Rest(p, p.field)
<1>1. p \in Packages /\ p.areas \in Fields /\ p.field \in Fields
  BY DEF PackageSound, Packages
<1> QED
  BY <1>1 DEF PackageSound, Rest, Fields

\* The beginnings of the three sections, whatever the state of the package.
LEMMA SectionSound ==
    ASSUME PackageSound(pkg), NEW section \in Sections, NEW count \in Counts
    PROVE  LET s == SectionInit(section, pkg, count)
           IN  /\ PackageSound(s.pkg)
               /\ s.rc = "OK" => InSection(section, s.pkg.state)
<1> DEFINE s == SectionInit(section, pkg, count)
<1>1. pkg \in Packages /\ (pkg.pin # 0 => pkg.state # "INIT")
  BY DEF PackageSound
<1>2. CASE section = "firmware_devices"
  <2> DEFINE checks == << <<pkg.pin = 0, "EINVAL">>,
                          <<pkg.state # "HEADER", "EPROTO">>,
                          <<pkg.areas.ptr = NULL, "EINVAL">> >>
             err == FirstError(checks)
  <2>1. s = IF err # "OK" THEN [pkg |-> pkg, rc |-> err]
            ELSE EnterSection(pkg, "FIRMWARE_DEVICES", pkg.areas, 1, count)
    BY <1>2 DEF SectionInit, pldm_package_firmware_device_id_record_iter_init
  <2>2. err = "OK" => pkg.state = "HEADER"
    <3>1. DOMAIN checks = 1..3 /\ \A i \in 1..(3 - 1) : checks[i][2] # "OK"
      OBVIOUS
    <3>2. checks[2][1] <=> pkg.state # "HEADER"
      BY ZenonT(30)
    <3> HIDE DEF checks
    <3>3. err = "OK" => \A i \in 1..3 : checks[i][1] => i = 3
      BY <3>1, NoError, ZenonT(30)
    <3> QED
      BY <3>2, <3>3
  <2> HIDE DEF err
  <2>3. CASE err # "OK"
    BY <2>1, <2>3
  <2>4. CASE err = "OK"
    <3> DEFINE e == EnterSection(pkg, "FIRMWARE_DEVICES", pkg.areas, 1, count)
    <3>1. Rest(pkg, pkg.areas)
      BY <2>2, <2>4, SoundRest
    <3>2. PackageSound(e.pkg) /\ e.pkg.state = "FIRMWARE_DEVICES"
      BY <2>2, <2>4, <3>1, EnterSound
    <3> HIDE DEF e
    <3>3. s = e
      BY <2>1, <2>4 DEF e
    <3> HIDE DEF s
    <3>4. PackageSound(s.pkg) /\ InSection(section, s.pkg.state)
      BY <1>2, <3>2, <3>3 DEF InSection
    <3> QED
      BY <3>4 DEF s
  <2> QED
    BY <2>3, <2>4
<1>3. CASE section = "downstream_devices"
  <2> DEFINE checks == << <<pkg.pin = 0, "EINVAL">>,
                          <<pkg.state # "FIRMWARE_DEVICES", "EPROTO">>,
                          <<pkg.pin = 1, "EPROTO">>,
                          <<pkg.field.ptr = NULL, "EINVAL">> >>
             err == FirstError(checks)
             e == EnterSection(pkg, "DOWNSTREAM_DEVICES", pkg.field, 1, count)
             none == [pkg EXCEPT !.state = "DOWNSTREAM_DEVICES", !.entries = 0]
  <2>1. /\ err # "OK" => s = [pkg |-> pkg, rc |-> err]
        /\ err = "OK" /\ pkg.revision = 1 => s = [pkg |-> none, rc |-> "OK"]
        /\ err = "OK" /\ pkg.revision # 1 => s = e
    <3> HIDE DEF e, none
    <3>1. s = pldm_package_downstream_device_id_record_iter_init(pkg, count)
      BY <1>3 DEF SectionInit
    <3>2. pldm_package_downstream_device_id_record_iter_init(pkg, count) =
            CASE err # "OK" -> [pkg |-> pkg, rc |-> err]
              [] err = "OK" /\ pkg.revision = 1 -> [pkg |-> none, rc |-> "OK"]
              [] OTHER -> e
      BY DEF pldm_package_downstream_device_id_record_iter_init, e, none
    <3> HIDE DEF err, s
    <3> QED
      BY <3>1, <3>2
  <2>2. err = "OK" => pkg.state = "FIRMWARE_DEVICES" /\ pkg.pin # 1
    <3>1. DOMAIN checks = 1..4 /\ \A i \in 1..(4 - 1) : checks[i][2] # "OK"
      OBVIOUS
    <3>2. /\ checks[2][1] <=> pkg.state # "FIRMWARE_DEVICES"
          /\ checks[3][1] <=> pkg.pin = 1
      BY ZenonT(30)
    <3> HIDE DEF checks
    <3>3. err = "OK" => \A i \in 1..4 : checks[i][1] => i = 4
      BY <3>1, NoError, ZenonT(30)
    <3> QED
      BY <3>2, <3>3
  <2> HIDE DEF err, s, e, none
  <2>3. CASE err # "OK"
    BY <2>1, <2>3 DEF s
  <2>4. CASE err = "OK" /\ pkg.revision = 1
    <3>1. Rest(pkg, pkg.field)
      BY <2>2, <2>4, SoundRest
    <3>2. none = [pkg EXCEPT !.state = "DOWNSTREAM_DEVICES", !.field = pkg.field,
                             !.entries = 0]
      BY <1>1, ZenonT(30) DEF none, Packages
    <3>3. 0 \in 0..SIZE_T_MAX
      BY PackageAssumption
    <3>4. PackageSound([pkg EXCEPT !.state = "DOWNSTREAM_DEVICES", !.field = pkg.field,
                             !.entries = 0])
      BY <2>2, <2>4, <3>1, <3>3, EnteredSound, ZenonT(30)
    <3>5. none.state = "DOWNSTREAM_DEVICES"
      BY <1>1 DEF none, Packages
    <3>7. s.pkg = none
      BY <2>1, <2>4
    <3>8. PackageSound(none)
      BY <3>2, <3>4
    <3>6. PackageSound(s.pkg) /\ InSection(section, s.pkg.state)
      BY <1>3, <3>5, <3>7, <3>8 DEF InSection
    <3> QED
      BY <3>6 DEF s
  <2>5. CASE err = "OK" /\ pkg.revision # 1
    <3>1. Rest(pkg, pkg.field)
      BY <2>2, <2>5, SoundRest
    <3>2. PackageSound(e.pkg) /\ e.pkg.state = "DOWNSTREAM_DEVICES"
      BY <2>2, <2>5, <3>1, EnterSound DEF e
    <3>3. PackageSound(s.pkg) /\ InSection(section, s.pkg.state)
      BY <1>3, <2>1, <2>5, <3>2 DEF InSection
    <3> QED
      BY <3>3 DEF s
  <2> QED
    BY <2>3, <2>4, <2>5
<1>4. CASE section = "component_images"
  <2> DEFINE first == /\ pkg.state = "FIRMWARE_DEVICES" /\ pkg.pin = 1
                      /\ pkg.revision = pkg.pin
             checks == <<
                <<pkg.pin = 0, "EINVAL">>,
                <<~first /\ pkg.state # "DOWNSTREAM_DEVICES", "EPROTO">>,
                <<pkg.field.ptr = NULL, "EINVAL">> >>
             err == FirstError(checks)
             e == EnterSection(pkg, "COMPONENT_IMAGE_INFORMATION", pkg.field, 2, count)
  <2>1. s = IF err # "OK" THEN [pkg |-> pkg, rc |-> err] ELSE e
    BY <1>4 DEF SectionInit, pldm_package_component_image_information_iter_init
  <2>2. err = "OK" => pkg.state \in {"FIRMWARE_DEVICES", "DOWNSTREAM_DEVICES"}
    <3>1. DOMAIN checks = 1..3 /\ \A i \in 1..(3 - 1) : checks[i][2] # "OK"
      OBVIOUS
    <3>2. checks[2][1] <=> (~first /\ pkg.state # "DOWNSTREAM_DEVICES")
      BY ZenonT(30)
    <3> HIDE DEF checks
    <3>3. err = "OK" => \A i \in 1..3 : checks[i][1] => i = 3
      BY <3>1, NoError, ZenonT(30)
    <3> QED
      BY <3>2, <3>3
  <2> HIDE DEF err, e, s
  <2>3. CASE err # "OK"
    BY <2>1, <2>3 DEF s
  <2>4. CASE err = "OK"
    <3>1. Rest(pkg, pkg.field)
      BY <2>2, <2>4, SoundRest
    <3>2. PackageSound(e.pkg) /\ e.pkg.state = "COMPONENT_IMAGE_INFORMATION"
      BY <2>2, <2>4, <3>1, EnterSound DEF e
    <3>3. PackageSound(s.pkg) /\ InSection(section, s.pkg.state)
      BY <1>4, <2>1, <2>4, <3>2 DEF InSection
    <3> QED
      BY <3>3 DEF s
  <2> QED
    BY <2>3, <2>4
<1> QED
  BY <1>2, <1>3, <1>4 DEF Sections

\* pldm_msgbuf_init_dynamic_uint16: the field goes on to what is left behind the
\* record, and the buffer, if it is valid, is the record alone.
LEMMA DynamicSound ==
    ASSUME NEW req \in Nat, NEW f \in Fields, f.length >= 0, NEW n \in Nat
    PROVE  LET d == pldm_msgbuf_init_dynamic_uint16(req, f, n)
           IN  /\ d.ctx \in Context
               /\ d.field \in Fields /\ d.field.length >= 0
               /\ d.field.ptr >= f.ptr /\ End(d.field) = End(f)
               /\ d.ctx.remaining >= 0 =>
                      /\ d.ctx.cursor = f.ptr /\ d.ctx.remaining = n
                      /\ d.field.ptr = f.ptr + n
<1> DEFINE d == pldm_msgbuf_init_dynamic_uint16(req, f, n)
           data == InitOver(req, f)
           tail == Access(data, n)
           g == VariableField(data.cursor, n)
           alone == InitOver(req, g)
<1>1. data \in Context
  BY OverField
<1>2. tail \in Context
  BY <1>1, Passed
<1>3. f.ptr \in Int /\ f.length \in Int
  BY DEF Fields
<1>4. CASE tail.remaining < 0
  <2>1. d.ctx = SetInvalid(data) /\ d.field = f
    BY <1>4 DEF pldm_msgbuf_init_dynamic_uint16
  <2>2. SetInvalid(data) \in Context /\ SetInvalid(data).remaining < 0
    BY <1>1, Invalidated
  <2> HIDE DEF d
  <2>3. /\ d.ctx \in Context /\ d.field \in Fields /\ d.field.length >= 0
        /\ d.field.ptr >= f.ptr /\ End(d.field) = End(f)
        /\ ~(d.ctx.remaining >= 0)
    BY <1>3, <2>1, <2>2, ContextInt
  <2> QED
    BY <2>3 DEF d
<1>5. CASE tail.remaining >= 0
  <2>1. d.ctx = alone /\ d.field = Remainder(tail, f)
    BY <1>2, <1>5, ContextInt DEF pldm_msgbuf_init_dynamic_uint16
  <2>2. /\ data.remaining >= n /\ tail.cursor = data.cursor + n
        /\ tail.remaining = data.remaining - n
    BY <1>1, <1>5, Back
  <2>3. data.cursor = f.ptr /\ data.remaining = f.length
    <3> HIDE DEF data
    <3>1. data.remaining >= 0
      BY <1>1, <2>2, ContextInt
    <3> QED
      BY <3>1, OverField DEF data
  <2>4. /\ Remainder(tail, f) \in Fields /\ Remainder(tail, f).ptr = tail.cursor
        /\ Remainder(tail, f).length = tail.remaining
    BY <1>2, <1>5, RemainderIs
  <2>5. g \in Fields /\ g.ptr = f.ptr /\ g.length = n
    BY <1>3, <2>3 DEF VariableField, Fields
  <2> HIDE DEF g
  <2>6. /\ alone \in Context
        /\ alone.remaining >= 0 => alone.cursor = f.ptr /\ alone.remaining = n
    <3>1. g.length >= 0
      BY <2>5
    <3> QED
      BY <2>5, <3>1, OverField
  <2> HIDE DEF d, data, tail, alone
  <2>7. /\ d.ctx \in Context /\ d.field \in Fields /\ d.field.length >= 0
        /\ d.field.ptr >= f.ptr /\ End(d.field) = End(f)
        /\ d.ctx.remaining >= 0 =>
               /\ d.ctx.cursor = f.ptr /\ d.ctx.remaining = n
               /\ d.field.ptr = f.ptr + n
    BY <1>3, <1>5, <2>1, <2>2, <2>3, <2>4, <2>6 DEF End
  <2> QED
    BY <2>7 DEF d
<1> QED
  BY <1>2, <1>4, <1>5, ContextInt

\* The parts at the front of a record, if an access behind them succeeds.
LEMMA FrontSound ==
    ASSUME NEW p, PackageSound(p), NEW req \in Nat, NEW v \in RecordValues,
           NEW stamp \in Nat, NEW ctx \in Context
    PROVE  LET front == FrontParts(p, req, v, stamp, ctx)
           IN  /\ front.bitmap \in Context /\ front.version \in Context
               /\ front.stamped \in Context /\ front.descriptors \in Context
               /\ front.descriptors.remaining >= 0 =>
                      /\ front.bitmap.cursor >= ctx.cursor
                      /\ front.version.cursor >= front.bitmap.cursor
                      /\ front.stamped.cursor >= front.version.cursor
                      /\ front.descriptors.cursor = front.stamped.cursor + stamp
                      /\ front.descriptors.cursor + front.descriptors.remaining
                             = ctx.cursor + ctx.remaining
<1> DEFINE front == FrontParts(p, req, v, stamp, ctx)
           word == IF p.revision >= 4 THEN 4 ELSE 0
           first == Access(ctx, req)
<1>1. /\ p.revision \in 0..4 /\ p.bits \in Nat /\ p.bits \div 8 \in Nat
      /\ v.version \in Nat /\ word \in Nat
  <2>1. p.revision \in 0..4 /\ p.bits \in Nat
    BY DEF PackageSound, Packages
  <2>2. v.version \in Nat
    BY PackageAssumption DEF RecordValues
  <2> QED
    BY <2>1, <2>2
<1>2. /\ front.bitmap = Access(first, word)
      /\ front.version = Access(front.bitmap, p.bits \div 8)
      /\ front.stamped = Access(front.version, v.version)
      /\ front.descriptors = Access(front.stamped, stamp)
  BY DEF FrontParts
<1> HIDE DEF front, first, word
<1>3. first \in Context
  BY Passed DEF first
<1>4. front.bitmap \in Context
  BY <1>1, <1>2, <1>3, Passed
<1>5. front.version \in Context
  BY <1>1, <1>2, <1>4, Passed
<1>6. front.stamped \in Context
  BY <1>1, <1>2, <1>5, Passed
<1>7. front.descriptors \in Context
  BY <1>2, <1>6, Passed
<1>8. ASSUME front.descriptors.remaining >= 0
      PROVE  /\ front.bitmap.cursor >= ctx.cursor
             /\ front.version.cursor >= front.bitmap.cursor
             /\ front.stamped.cursor >= front.version.cursor
             /\ front.descriptors.cursor = front.stamped.cursor + stamp
             /\ front.descriptors.cursor + front.descriptors.remaining
                    = ctx.cursor + ctx.remaining
  <2>1. /\ front.stamped.remaining >= stamp
        /\ front.descriptors.cursor = front.stamped.cursor + stamp
        /\ front.descriptors.remaining = front.stamped.remaining - stamp
    BY <1>2, <1>6, <1>8, Back
  <2>2. front.stamped.remaining >= 0
    BY <1>6, <2>1, ContextInt
  <2>3. /\ front.version.remaining >= v.version
        /\ front.stamped.cursor = front.version.cursor + v.version
        /\ front.stamped.remaining = front.version.remaining - v.version
    BY <1>1, <1>2, <1>5, <2>2, Back
  <2>4. front.version.remaining >= 0
    BY <1>1, <1>5, <2>3, ContextInt
  <2>5. /\ front.bitmap.remaining >= p.bits \div 8
        /\ front.version.cursor = front.bitmap.cursor + p.bits \div 8
        /\ front.version.remaining = front.bitmap.remaining - p.bits \div 8
    BY <1>1, <1>2, <1>4, <2>4, Back
  <2>6. front.bitmap.remaining >= 0
    BY <1>1, <1>4, <2>5, ContextInt
  <2>7. /\ first.remaining >= word
        /\ front.bitmap.cursor = first.cursor + word
        /\ front.bitmap.remaining = first.remaining - word
    BY <1>1, <1>2, <1>3, <2>6, Back
  <2>8. first.remaining >= 0
    BY <1>1, <1>3, <2>7, ContextInt
  <2>9. /\ first.cursor = ctx.cursor + req
        /\ first.remaining = ctx.remaining - req
    BY <2>8, Back DEF first
  <2>10. /\ ctx.cursor \in Int /\ ctx.remaining \in Int
         /\ first.cursor \in Int /\ first.remaining \in Int
         /\ front.bitmap.cursor \in Int /\ front.bitmap.remaining \in Int
         /\ front.version.cursor \in Int /\ front.version.remaining \in Int
         /\ front.stamped.cursor \in Int /\ front.stamped.remaining \in Int
    BY <1>3, <1>4, <1>5, <1>6, ContextInt
  <2> QED
    BY <1>1, <2>1, <2>3, <2>5, <2>7, <2>9, <2>10
<1> QED
  BY <1>4, <1>5, <1>6, <1>7, <1>8 DEF front

\* The parts at its rear, if the record is consumed.
LEMMA RearSound ==
    ASSUME NEW p, PackageSound(p), NEW v \in RecordValues, NEW ctx \in Context
    PROVE  LET rear == RearParts(p, v, ctx)
           IN  /\ rear.data \in Context /\ rear.manifest \in Context
               /\ rear.end \in Context
               /\ rear.end.remaining >= 0 =>
                      /\ ctx.remaining >= 0 /\ rear.end.remaining = 0
                      /\ rear.data.cursor >= ctx.cursor
                      /\ rear.manifest.cursor >= rear.data.cursor
                      /\ rear.end.cursor >= rear.manifest.cursor
                      /\ rear.end.cursor = ctx.cursor + ctx.remaining
<1> DEFINE rear == RearParts(p, v, ctx)
           m == Manifest(p, v)
           n == PackageDataOffset(p, v)
<1>1. v.data \in Nat /\ m \in Nat /\ n = v.data + m /\ n \in 0..INTMAX_MAX
  <2>1. /\ v.data \in DataLengths /\ v.manifest \in ManifestLengths
        /\ v.data \in Nat /\ v.manifest \in Nat
        /\ v.data + v.manifest <= INTMAX_MAX
    BY PackageAssumption DEF RecordValues
  <2>2. m = v.manifest \/ m = 0
    BY DEF Manifest
  <2>3. n = v.data + m
    BY DEF PackageDataOffset
  <2> HIDE DEF n, m
  <2> QED
    BY <2>1, <2>2, <2>3, IntmaxAssumption
<1>2. /\ rear.data = SpanUntil(ctx, n)
      /\ rear.manifest = Access(rear.data, v.data)
      /\ rear.end = Access(rear.manifest, m)
  BY DEF RearParts
<1> HIDE DEF rear, n, m
<1>3. rear.data \in Context
  BY <1>1, <1>2, PassedUntil
<1>4. rear.manifest \in Context
  BY <1>1, <1>2, <1>3, Passed
<1>5. rear.end \in Context
  BY <1>1, <1>2, <1>4, Passed
<1>6. ASSUME rear.end.remaining >= 0
      PROVE  /\ ctx.remaining >= 0 /\ rear.end.remaining = 0
             /\ rear.data.cursor >= ctx.cursor
             /\ rear.manifest.cursor >= rear.data.cursor
             /\ rear.end.cursor >= rear.manifest.cursor
             /\ rear.end.cursor = ctx.cursor + ctx.remaining
  <2>1. /\ rear.manifest.remaining >= m
        /\ rear.end.cursor = rear.manifest.cursor + m
        /\ rear.end.remaining = rear.manifest.remaining - m
    BY <1>1, <1>2, <1>4, <1>6, Back
  <2>2. rear.manifest.remaining >= 0
    BY <1>1, <1>4, <2>1, ContextInt
  <2>3. /\ rear.data.remaining >= v.data
        /\ rear.manifest.cursor = rear.data.cursor + v.data
        /\ rear.manifest.remaining = rear.data.remaining - v.data
    BY <1>1, <1>2, <1>3, <2>2, Back
  <2>4. rear.data.remaining >= 0
    BY <1>1, <1>3, <2>3, ContextInt
  <2>5. /\ ctx.remaining >= n
        /\ rear.data.cursor = ctx.cursor + (ctx.remaining - n)
        /\ rear.data.remaining = n
    BY <1>1, <1>2, <2>4, PassedUntil
  <2>6. /\ ctx.cursor \in Int /\ ctx.remaining \in Int
        /\ rear.data.cursor \in Int /\ rear.manifest.cursor \in Int
        /\ n \in Nat
    BY <1>1, <1>3, <1>4, IntmaxAssumption, ContextInt
  <2> QED
    BY <1>1, <2>1, <2>3, <2>5, <2>6
<1> QED
  BY <1>3, <1>4, <1>5, <1>6 DEF rear

\* Five parts one behind the other, with what is fixed in front of the first and
\* of the third.
LEMMA LaidFive ==
    ASSUME NEW r, r.whole \in Fields, r.whole.length >= 0,
           NEW a \in Fields, NEW b \in Fields, NEW c \in Fields, NEW d \in Fields,
           NEW e \in Fields, r.parts = <<a, b, c, d, e>>,
           a.length >= 0, b.length >= 0, c.length >= 0, d.length >= 0, e.length >= 0,
           r.whole.ptr <= a.ptr, End(a) = b.ptr, End(b) <= c.ptr, End(c) = d.ptr,
           End(d) = e.ptr, End(e) = End(r.whole),
           r.fixed = a.ptr - r.whole.ptr + (c.ptr - End(b))
    PROVE  Laid(r)
<1> DEFINE w == r.whole
           g == [i \in DOMAIN r.parts |-> r.parts[i].length]
<1>1. /\ w.ptr \in Int /\ w.length \in Int /\ a.ptr \in Int /\ a.length \in Int
      /\ b.ptr \in Int /\ b.length \in Int /\ c.ptr \in Int /\ c.length \in Int
      /\ d.ptr \in Int /\ d.length \in Int /\ e.ptr \in Int /\ e.length \in Int
  BY DEF Fields
<1>2. /\ DOMAIN r.parts = 1..5
      /\ r.parts[1] = a /\ r.parts[2] = b /\ r.parts[3] = c /\ r.parts[4] = d
      /\ r.parts[5] = e
  OBVIOUS
<1>3. /\ b.ptr = a.ptr + a.length /\ b.ptr + b.length <= c.ptr
      /\ d.ptr = c.ptr + c.length /\ e.ptr = d.ptr + d.length
      /\ e.ptr + e.length = w.ptr + w.length
      /\ r.fixed = a.ptr - w.ptr + (c.ptr - (b.ptr + b.length))
  BY <1>1 DEF End
<1> HIDE DEF w
<1>4. Inside(a, w) /\ Inside(b, w) /\ Inside(c, w) /\ Inside(d, w) /\ Inside(e, w)
  BY <1>1, <1>3 DEF Inside, w
<1>5. /\ Apart(b, a)
      /\ Apart(c, a) /\ Apart(c, b)
      /\ Apart(d, a) /\ Apart(d, b) /\ Apart(d, c)
      /\ Apart(e, a) /\ Apart(e, b) /\ Apart(e, c) /\ Apart(e, d)
  BY <1>1, <1>3 DEF Apart
<1>6. ASSUME NEW i \in DOMAIN r.parts
      PROVE  /\ r.parts[i] \in Fields /\ r.parts[i].length >= 0
             /\ Inside(r.parts[i], w)
             /\ \A j \in 1..(i - 1) : Apart(r.parts[i], r.parts[j])
  <2>1. i = 1 \/ i = 2 \/ i = 3 \/ i = 4 \/ i = 5
    BY <1>2
  <2>2. r.parts[i] \in Fields /\ r.parts[i].length >= 0 /\ Inside(r.parts[i], w)
    BY <1>2, <1>4, <2>1
  <2>3. ASSUME NEW j \in 1..(i - 1) PROVE Apart(r.parts[i], r.parts[j])
    <3>1. /\ i = 2 => j = 1
          /\ i = 3 => j = 1 \/ j = 2
          /\ i = 4 => j = 1 \/ j = 2 \/ j = 3
          /\ i = 5 => j = 1 \/ j = 2 \/ j = 3 \/ j = 4
          /\ i # 1
      BY <2>1
    <3> QED
      BY <1>2, <1>5, <2>1, <3>1
  <2> QED
    BY <2>2, <2>3
<1>7. /\ g[1] = a.length /\ g[2] = b.length /\ g[3] = c.length
      /\ g[4] = d.length /\ g[5] = e.length
  BY <1>2
<1> HIDE DEF g
<1>8. SumFunctionOnSet(g, 1..5) = g[1] + g[2] + g[3] + g[4] + g[5]
  <2>1. g[1] \in Nat /\ g[2] \in Nat /\ g[3] \in Nat /\ g[4] \in Nat /\ g[5] \in Nat
    BY <1>1, <1>7
  <2>2. \A i \in 1..5 : g[i] \in Nat
    <3>1. \A i \in 1..5 : i = 1 \/ i = 2 \/ i = 3 \/ i = 4 \/ i = 5
      OBVIOUS
    <3> QED
      BY <2>1, <3>1
  <2> QED
    BY <2>2, SumOfFive
<1>9. w.length = r.fixed + SumFunctionOnSet(g, DOMAIN r.parts)
  <2>1. SumFunctionOnSet(g, DOMAIN r.parts)
            = a.length + b.length + c.length + d.length + e.length
    BY <1>2, <1>7, <1>8
  <2>2. w.length = r.fixed + (a.length + b.length + c.length + d.length + e.length)
    BY <1>1, <1>3 DEF w
  <2> QED
    BY <2>1, <2>2
<1>10. r.fixed \in Int
  BY <1>1, <1>3
<1> QED
  BY <1>6, <1>9, <1>10 DEF Laid, w, g

\* A record of a device: whatever its bytes, the package is sound; and if there is
\* no error, so is the record.
LEMMA DeviceSound ==
    ASSUME NEW p, PackageSound(p), p.state \notin {"INIT", "HEADER"},
           NEW req \in Nat, NEW v \in RecordValues, NEW stamp \in Nat, NEW empty \in BOOLEAN,
           NEW section, section # "component_images"
    PROVE  LET d == DeviceIdRecord(p, req, v, stamp, empty)
           IN  /\ PackageSound(d.pkg)
               /\ d.pkg.state = p.state /\ d.pkg.entries = p.entries
               /\ d.rc = "OK" => /\ RecordSound(d.rec, section, d.pkg)
                                 /\ d.rec.descriptors.ptr # NULL
<1> DEFINE d == DeviceIdRecord(p, req, v, stamp, empty)
           i == pldm_msgbuf_init_dynamic_uint16(req, p.field, v.length)
           front == FrontParts(p, req, v, stamp, i.ctx)
           rear == RearParts(p, v, front.descriptors)
           checks == << <<i.ctx.remaining < 0, "EOVERFLOW">>,
                        <<~v.typed \/ (v.version = 0 /\ ~empty), "EPROTO">>,
                        <<TRUE, Consumed(rear.end)>> >>
<1>1. /\ d.pkg = [p EXCEPT !.field = i.field]
      /\ d.rec = DeviceRecord(i.ctx, v.length, stamp, v.count, front, rear)
      /\ d.rc = FirstError(checks)
  BY DEF DeviceIdRecord
<1>2. v.length \in Nat /\ v.count \in Nat
  BY PackageAssumption DEF RecordValues
<1>3. Rest(p, p.field)
  BY SoundRest
<1>4. /\ i.ctx \in Context
      /\ i.field \in Fields /\ i.field.length >= 0
      /\ i.field.ptr >= p.field.ptr /\ End(i.field) = End(p.field)
      /\ i.ctx.remaining >= 0 =>
             /\ i.ctx.cursor = p.field.ptr /\ i.ctx.remaining = v.length
             /\ i.field.ptr = p.field.ptr + v.length
  BY <1>2, <1>3, DynamicSound DEF Rest
<1> HIDE DEF i
<1>5. p \in Packages /\ p.areas \in Fields /\ p.field \in Fields
  BY DEF PackageSound, Packages
<1>6. Rest(p, i.field)
  BY <1>3, <1>4, <1>5 DEF Rest, Fields
<1> DEFINE q == [p EXCEPT !.field = i.field]
<1>7. /\ PackageSound(q) /\ q.state = p.state /\ q.entries = p.entries
      /\ q.areas = p.areas /\ q.field = i.field
  BY <1>6, FieldSound
<1>8. /\ front.bitmap \in Context /\ front.version \in Context
      /\ front.stamped \in Context /\ front.descriptors \in Context
      /\ front.descriptors.remaining >= 0 =>
             /\ front.bitmap.cursor >= i.ctx.cursor
             /\ front.version.cursor >= front.bitmap.cursor
             /\ front.stamped.cursor >= front.version.cursor
             /\ front.descriptors.cursor = front.stamped.cursor + stamp
             /\ front.descriptors.cursor + front.descriptors.remaining
                    = i.ctx.cursor + i.ctx.remaining
  BY <1>4, FrontSound, ZenonT(60)
<1> HIDE DEF front
<1>9. /\ rear.data \in Context /\ rear.manifest \in Context /\ rear.end \in Context
      /\ rear.end.remaining >= 0 =>
             /\ front.descriptors.remaining >= 0 /\ rear.end.remaining = 0
             /\ rear.data.cursor >= front.descriptors.cursor
             /\ rear.manifest.cursor >= rear.data.cursor
             /\ rear.end.cursor >= rear.manifest.cursor
             /\ rear.end.cursor = front.descriptors.cursor + front.descriptors.remaining
  BY <1>8, RearSound
<1> HIDE DEF rear
<1>10. d.rc = "OK" => i.ctx.remaining >= 0 /\ rear.end.remaining >= 0
  <2>1. DOMAIN checks = 1..3 /\ \A k \in 1..(3 - 1) : checks[k][2] # "OK"
    OBVIOUS
  <2>2. /\ checks[1][1] <=> i.ctx.remaining < 0
        /\ checks[3][1] /\ checks[3][2] = Consumed(rear.end)
    BY ZenonT(30)
  <2> HIDE DEF checks
  <2>3. ASSUME FirstError(checks) = "OK"
        PROVE  \A k \in 1..3 : checks[k][1] => k = 3 /\ checks[k][2] = "OK"
    BY <2>1, <2>3, NoError, ZenonT(30)
  <2> HIDE DEF d
  <2>4. d.rc = "OK" => ~(i.ctx.remaining < 0) /\ Consumed(rear.end) = "OK"
    BY <1>1, <2>2, <2>3
  <2>5. Consumed(rear.end) = "OK" => rear.end.remaining >= 0
    BY <1>9, ContextInt DEF Consumed
  <2> QED
    BY <1>4, <2>4, <2>5, ContextInt
<1> HIDE DEF d, checks, q
<1>11. ASSUME d.rc = "OK"
       PROVE  RecordSound(d.rec, section, q) /\ d.rec.descriptors.ptr # NULL
  <2> DEFINE A == Between(front.bitmap, front.version)
             B == Between(front.version, front.stamped)
             C == Between(front.descriptors, rear.data)
             D == Between(rear.data, rear.manifest)
             E == Between(rear.manifest, rear.end)
             W == VariableField(i.ctx.cursor, v.length)
             r == DeviceRecord(i.ctx, v.length, stamp, v.count, front, rear)
  <2>1. /\ i.ctx.cursor = p.field.ptr /\ i.ctx.remaining = v.length
        /\ i.field.ptr = p.field.ptr + v.length
        /\ front.bitmap.cursor >= i.ctx.cursor
        /\ front.version.cursor >= front.bitmap.cursor
        /\ front.stamped.cursor >= front.version.cursor
        /\ front.descriptors.cursor = front.stamped.cursor + stamp
        /\ rear.data.cursor >= front.descriptors.cursor
        /\ rear.manifest.cursor >= rear.data.cursor
        /\ rear.end.cursor >= rear.manifest.cursor
        /\ rear.end.cursor = i.ctx.cursor + i.ctx.remaining
    BY <1>4, <1>8, <1>9, <1>10, <1>11
  <2>2. /\ i.ctx.cursor \in Int
        /\ front.bitmap.cursor \in Int /\ front.version.cursor \in Int
        /\ front.stamped.cursor \in Int /\ front.descriptors.cursor \in Int
        /\ rear.data.cursor \in Int /\ rear.manifest.cursor \in Int
        /\ rear.end.cursor \in Int
    BY <1>4, <1>8, <1>9, ContextInt
  <2>3. /\ A \in Fields /\ A.ptr = front.bitmap.cursor
        /\ A.length = front.version.cursor - front.bitmap.cursor
        /\ B \in Fields /\ B.ptr = front.version.cursor
        /\ B.length = front.stamped.cursor - front.version.cursor
        /\ C \in Fields /\ C.ptr = front.descriptors.cursor
        /\ C.length = rear.data.cursor - front.descriptors.cursor
        /\ D \in Fields /\ D.ptr = rear.data.cursor
        /\ D.length = rear.manifest.cursor - rear.data.cursor
        /\ E \in Fields /\ E.ptr = rear.manifest.cursor
        /\ E.length = rear.end.cursor - rear.manifest.cursor
    BY <1>8, <1>9, BetweenIs
  <2>4. W \in Fields /\ W.ptr = i.ctx.cursor /\ W.length = v.length
    BY <1>2, <2>2 DEF VariableField, Fields
  <2>5. /\ r.whole = W /\ r.parts = <<A, B, C, D, E>> /\ r.descriptors = C
        /\ r.fixed = front.bitmap.cursor - i.ctx.cursor + stamp
        /\ r.descriptor_count = v.count /\ r.descriptor = NoField
    BY DEF DeviceRecord, NoRecord
  <2> HIDE DEF A, B, C, D, E, W, r
  <2>6. Laid(r)
    <3>1. /\ A.length >= 0 /\ B.length >= 0 /\ C.length >= 0 /\ D.length >= 0
          /\ E.length >= 0 /\ W.length >= 0 /\ W.ptr <= A.ptr
      <4>1. A.length >= 0 /\ B.length >= 0
        BY <2>1, <2>2, <2>3
      <4>2. C.length >= 0 /\ D.length >= 0
        BY <2>1, <2>2, <2>3
      <4>3. E.length >= 0
        BY <2>1, <2>2, <2>3
      <4>4. W.length >= 0 /\ W.ptr <= A.ptr
        BY <1>2, <2>1, <2>2, <2>3, <2>4
      <4> QED
        BY <4>1, <4>2, <4>3, <4>4
    <3>2. /\ End(A) = B.ptr /\ End(B) <= C.ptr /\ End(C) = D.ptr /\ End(D) = E.ptr
          /\ End(E) = End(W) /\ r.fixed = A.ptr - W.ptr + (C.ptr - End(B))
      BY <1>2, <2>1, <2>2, <2>3, <2>4, <2>5 DEF End
    <3> QED
      BY <2>3, <2>4, <2>5, <3>1, <3>2, LaidFive
  <2>7. r.whole.ptr >= q.areas.ptr /\ End(r.whole) = q.field.ptr
    BY <1>2, <1>3, <1>7, <2>1, <2>4, <2>5 DEF Rest, End
  <2>8. C.length >= 0 /\ Inside(C, C)
    BY <2>1, <2>2, <2>3 DEF Inside
  <2>9. 3 \in DOMAIN r.parts /\ r.parts[3] = C
    BY <2>5
  <2>10. C.ptr # NULL
    <3>1. p.areas.ptr >= 0
      BY DEF PackageSound, Packages, Fields, End
    <3> QED
      BY <1>3, <1>5, <2>1, <2>2, <2>3, <3>1 DEF Rest, Fields, NULL
  <2>11. NoField \in Fields
    BY DEF NoField, VariableField, Fields, NULL
  <2>12. RecordSound(r, section, q)
    BY <1>2, <2>3, <2>5, <2>6, <2>7, <2>8, <2>9, <2>11 DEF RecordSound
  <2> QED
    BY <1>1, <2>5, <2>10, <2>12 DEF r
<1> QED
  BY <1>1, <1>7, <1>11 DEF d, q

\* Two parts, with what is fixed in front of each.
LEMMA LaidTwo ==
    ASSUME NEW r, r.whole \in Fields, r.whole.length >= 0,
           NEW a \in Fields, NEW b \in Fields, r.parts = <<a, b>>,
           a.length >= 0, b.length >= 0,
           r.whole.ptr <= a.ptr, End(a) <= b.ptr, End(b) = End(r.whole),
           r.fixed = a.ptr - r.whole.ptr + (b.ptr - End(a))
    PROVE  Laid(r)
<1> DEFINE w == r.whole
           g == [i \in DOMAIN r.parts |-> r.parts[i].length]
<1>1. /\ w.ptr \in Int /\ w.length \in Int /\ a.ptr \in Int /\ a.length \in Int
      /\ b.ptr \in Int /\ b.length \in Int
  BY DEF Fields
<1>2. DOMAIN r.parts = 1..2 /\ r.parts[1] = a /\ r.parts[2] = b
  OBVIOUS
<1>3. /\ a.ptr + a.length <= b.ptr /\ b.ptr + b.length = w.ptr + w.length
      /\ r.fixed = a.ptr - w.ptr + (b.ptr - (a.ptr + a.length))
  BY <1>1 DEF End
<1> HIDE DEF w
<1>4. Inside(a, w) /\ Inside(b, w) /\ Apart(b, a)
  BY <1>1, <1>3 DEF Inside, Apart, w
<1>5. ASSUME NEW i \in DOMAIN r.parts
      PROVE  /\ r.parts[i] \in Fields /\ r.parts[i].length >= 0
             /\ Inside(r.parts[i], w)
             /\ \A j \in 1..(i - 1) : Apart(r.parts[i], r.parts[j])
  <2>1. i = 1 \/ i = 2
    BY <1>2
  <2>2. ASSUME NEW j \in 1..(i - 1) PROVE i = 2 /\ j = 1
    BY <2>1
  <2> QED
    BY <1>2, <1>4, <2>1, <2>2
<1>6. g[1] = a.length /\ g[2] = b.length
  BY <1>2
<1> HIDE DEF g
<1>7. SumFunctionOnSet(g, 1..2) = g[1] + g[2]
  <2>1. \A i \in 1..2 : i = 1 \/ i = 2
    OBVIOUS
  <2>2. \A i \in 1..2 : g[i] \in Nat
    BY <1>1, <1>6, <2>1
  <2> QED
    BY <2>2, SumOfTwo
<1>8. w.length = r.fixed + SumFunctionOnSet(g, DOMAIN r.parts)
  <2>1. SumFunctionOnSet(g, DOMAIN r.parts) = a.length + b.length
    BY <1>2, <1>6, <1>7
  <2>2. w.length = r.fixed + (a.length + b.length)
    BY <1>1, <1>3
  <2> QED
    BY <2>1, <2>2
<1>9. r.fixed \in Int
  BY <1>1, <1>3
<1> QED
  BY <1>5, <1>8, <1>9 DEF Laid, w, g

\* The parts of a component, if they are all there.
LEMMA ComponentPartsSound ==
    ASSUME NEW p, PackageSound(p), Rest(p, p.field), NEW v \in ComponentValues
    PROVE  LET at == ComponentParts(p, v)
               buf == ComponentBuffer(p)
           IN  /\ buf \in Context /\ at.version \in Context /\ at.length \in Context
               /\ at.opaque \in Context /\ at.end \in Context
               /\ at.end.remaining >= 0 =>
                      /\ buf.cursor = p.field.ptr
                      /\ at.version.cursor = buf.cursor + 22
                      /\ at.length.cursor >= at.version.cursor
                      /\ at.opaque.cursor >= at.length.cursor
                      /\ at.end.cursor >= at.opaque.cursor
                      /\ at.end.cursor + at.end.remaining = End(p.field)
<1> DEFINE at == ComponentParts(p, v)
           buf == ComponentBuffer(p)
           word == IF p.revision >= 3 THEN 4 ELSE 0
           data == IF p.revision >= 3 THEN v.opaque ELSE 0
<1>1. v.version \in Nat /\ word \in Nat /\ data \in Nat
  <2>1. v.version \in Nat /\ v.opaque \in Nat
    BY PackageAssumption DEF ComponentValues
  <2> QED
    BY <2>1
<1>2. /\ at.version = Access(buf, 22)
      /\ at.length = Access(at.version, v.version)
      /\ at.opaque = Access(at.length, word)
      /\ at.end = Access(at.opaque, data)
  BY DEF ComponentParts, PLDM_FWUP_COMPONENT_IMAGE_INFORMATION_MIN_SIZE
<1>3. /\ buf \in Context
      /\ buf.remaining >= 0 => buf.cursor = p.field.ptr /\ buf.remaining = p.field.length
  BY OverField DEF ComponentBuffer, Rest, PLDM_FWUP_COMPONENT_IMAGE_INFORMATION_MIN_SIZE
<1> HIDE DEF at, buf, word, data
<1>4. at.version \in Context
  BY <1>2, <1>3, Passed
<1>5. at.length \in Context
  BY <1>1, <1>2, <1>4, Passed
<1>6. at.opaque \in Context
  BY <1>1, <1>2, <1>5, Passed
<1>7. at.end \in Context
  BY <1>1, <1>2, <1>6, Passed
<1>8. ASSUME at.end.remaining >= 0
      PROVE  /\ buf.cursor = p.field.ptr
             /\ at.version.cursor = buf.cursor + 22
             /\ at.length.cursor >= at.version.cursor
             /\ at.opaque.cursor >= at.length.cursor
             /\ at.end.cursor >= at.opaque.cursor
             /\ at.end.cursor + at.end.remaining = End(p.field)
  <2>1. /\ at.opaque.remaining >= data
        /\ at.end.cursor = at.opaque.cursor + data
        /\ at.end.remaining = at.opaque.remaining - data
    BY <1>1, <1>2, <1>6, <1>8, Back
  <2>2. at.opaque.remaining >= 0
    BY <1>1, <1>6, <2>1, ContextInt
  <2>3. /\ at.length.remaining >= word
        /\ at.opaque.cursor = at.length.cursor + word
        /\ at.opaque.remaining = at.length.remaining - word
    BY <1>1, <1>2, <1>5, <2>2, Back
  <2>4. at.length.remaining >= 0
    BY <1>1, <1>5, <2>3, ContextInt
  <2>5. /\ at.version.remaining >= v.version
        /\ at.length.cursor = at.version.cursor + v.version
        /\ at.length.remaining = at.version.remaining - v.version
    BY <1>1, <1>2, <1>4, <2>4, Back
  <2>6. at.version.remaining >= 0
    BY <1>1, <1>4, <2>5, ContextInt
  <2>7. /\ buf.remaining >= 22 /\ at.version.cursor = buf.cursor + 22
        /\ at.version.remaining = buf.remaining - 22
    BY <1>2, <1>3, <2>6, Back
  <2>8. buf.cursor = p.field.ptr /\ buf.remaining = p.field.length
    BY <1>3, <2>7, ContextInt
  <2>9. /\ buf.cursor \in Int /\ buf.remaining \in Int
        /\ at.version.cursor \in Int /\ at.length.cursor \in Int
        /\ at.opaque.cursor \in Int /\ at.end.cursor \in Int
    BY <1>3, <1>4, <1>5, <1>6, <1>7, ContextInt
  <2>10. /\ at.version.remaining \in Int /\ at.length.remaining \in Int
         /\ at.opaque.remaining \in Int /\ at.end.remaining \in Int
    BY <1>4, <1>5, <1>6, <1>7, ContextInt
  <2>11. at.end.cursor + at.end.remaining = buf.cursor + buf.remaining
    BY <1>1, <2>1, <2>3, <2>5, <2>7, <2>9, <2>10
  <2>12. at.end.cursor + at.end.remaining = End(p.field)
    BY <2>8, <2>11 DEF End
  <2> QED
    BY <1>1, <2>1, <2>3, <2>5, <2>7, <2>8, <2>9, <2>12
<1> QED
  BY <1>3, <1>4, <1>5, <1>6, <1>7, <1>8 DEF at, buf

\* A component: whatever its bytes, the package is sound; and if there is no error,
\* so is the component, with its image inside the package.
LEMMA ComponentSound ==
    ASSUME NEW p, PackageSound(p), p.state \notin {"INIT", "HEADER"},
           NEW v \in ComponentValues
    PROVE  LET d == decode_pldm_package_component_image_information_from_iter(p, v)
           IN  /\ PackageSound(d.pkg)
               /\ d.pkg.state = p.state /\ d.pkg.entries = p.entries
               /\ d.rc = "OK" => RecordSound(d.rec, "component_images", d.pkg)
<1> DEFINE d == decode_pldm_package_component_image_information_from_iter(p, v)
           at == ComponentParts(p, v)
           buf == ComponentBuffer(p)
           start == InitOver(0, VariableField(0, p.length))
           image == Access(start, v.offset)
           rest == Access(image, v.size)
           f == IF buf.remaining >= 0 /\ v.typed THEN Remainder(at.end, p.field)
                                                 ELSE p.field
           checks == << <<buf.remaining < 0, "EOVERFLOW">>,
                        <<~v.typed, "EPROTO">>,
                        <<at.end.remaining < 0, "EOVERFLOW">>,
                        <<~v.classified, "EPROTO">>,
                        <<rest.remaining < 0, "EOVERFLOW">> >>
           W == Between(buf, at.end)
           A == Between(at.version, at.length)
           B == Between(at.opaque, at.end)
           I == Between(image, rest)
<1>1. /\ d.pkg = [p EXCEPT !.field = f]
      /\ d.rc = FirstError(checks)
      /\ d.rec.whole = W /\ d.rec.parts = <<A, B>> /\ d.rec.image = I
      /\ d.rec.fixed = 22 + (at.opaque.cursor - at.length.cursor)
      /\ d.rec.descriptors = NoField /\ d.rec.descriptor = NoField
      /\ d.rec.descriptor_count = 0
  BY ZenonT(30) DEF decode_pldm_package_component_image_information_from_iter, NoRecord,
         PLDM_FWUP_COMPONENT_IMAGE_INFORMATION_MIN_SIZE
<1>2. /\ v.offset \in Nat /\ v.size \in Nat /\ v.typed \in BOOLEAN
      /\ p.length \in Nat /\ p \in Packages /\ p.areas \in Fields /\ p.field \in Fields
  BY PackageAssumption DEF ComponentValues, PackageSound, Packages
<1>3. Rest(p, p.field)
  BY SoundRest
<1>4. /\ buf \in Context /\ at.version \in Context /\ at.length \in Context
      /\ at.opaque \in Context /\ at.end \in Context
      /\ at.end.remaining >= 0 =>
             /\ buf.cursor = p.field.ptr
             /\ at.version.cursor = buf.cursor + 22
             /\ at.length.cursor >= at.version.cursor
             /\ at.opaque.cursor >= at.length.cursor
             /\ at.end.cursor >= at.opaque.cursor
             /\ at.end.cursor + at.end.remaining = End(p.field)
  BY <1>3, ComponentPartsSound
<1>5. start \in Context /\ (start.remaining >= 0 => start.cursor = 0 /\ start.remaining = p.length)
  <2> DEFINE g == VariableField(0, p.length)
  <2>1. g \in Fields /\ g.ptr = 0 /\ g.length = p.length /\ g.length >= 0
    BY <1>2 DEF VariableField, Fields
  <2> HIDE DEF g
  <2>2. /\ InitOver(0, g) \in Context
        /\ InitOver(0, g).remaining >= 0 =>
               InitOver(0, g).cursor = 0 /\ InitOver(0, g).remaining = p.length
    BY <2>1, OverField
  <2> QED
    BY <2>2 DEF g
<1>6. image \in Context
  BY <1>2, <1>5, Passed
<1>7. rest \in Context
  BY <1>2, <1>6, Passed
<1> HIDE DEF at, buf, start
<1>8. Rest(p, f) /\ (buf.remaining >= 0 /\ v.typed /\ at.end.remaining >= 0 => f.ptr = at.end.cursor)
  <2>1. CASE f = p.field /\ ~(buf.remaining >= 0 /\ v.typed /\ at.end.remaining >= 0)
    BY <1>3, <2>1
  <2>2. CASE f = Remainder(at.end, p.field) /\ at.end.remaining >= 0
    <3>1. f \in Fields /\ f.ptr = at.end.cursor /\ f.length = at.end.remaining
      BY <1>4, <2>2, RemainderIs
    <3>2. /\ buf.cursor \in Int /\ at.version.cursor \in Int /\ at.length.cursor \in Int
          /\ at.opaque.cursor \in Int /\ at.end.cursor \in Int /\ at.end.remaining \in Int
      BY <1>4, ContextInt
    <3> HIDE DEF f
    <3> QED
      BY <1>2, <1>3, <1>4, <2>2, <3>1, <3>2 DEF Rest, Fields, End
  <2>3. at.end.remaining < 0 => Remainder(at.end, p.field) = p.field
    BY <1>4, RemainderIs
  <2> QED
    BY <1>4, <2>1, <2>2, <2>3, ContextInt
<1> HIDE DEF f
<1> DEFINE q == [p EXCEPT !.field = f]
<1>9. /\ PackageSound(q) /\ q.state = p.state /\ q.entries = p.entries
      /\ q.areas = p.areas /\ q.field = f /\ q.length = p.length
  BY <1>8, FieldSound
<1>10. ASSUME d.rc = "OK"
       PROVE  /\ buf.remaining >= 0 /\ v.typed /\ at.end.remaining >= 0
              /\ rest.remaining >= 0
  <2>1. DOMAIN checks = 1..5 /\ \A k \in 1..5 : checks[k][2] # "OK"
    OBVIOUS
  <2>2. /\ checks[1][1] <=> buf.remaining < 0
        /\ checks[2][1] <=> ~v.typed
        /\ checks[3][1] <=> at.end.remaining < 0
        /\ checks[5][1] <=> rest.remaining < 0
    BY ZenonT(30)
  <2>3. FirstError(checks) = "OK"
    BY <1>1, <1>10
  <2> HIDE DEF checks
  <2>4. \A k \in 1..(5 - 1) : checks[k][2] # "OK"
    BY <2>1
  <2>5. \A k \in 1..5 : checks[k][1] => k = 5 /\ checks[k][2] = "OK"
    BY <2>1, <2>3, <2>4, NoError, ZenonT(30)
  <2>6. ~checks[1][1] /\ ~checks[2][1] /\ ~checks[3][1] /\ ~checks[5][1]
    BY <2>1, <2>5
  <2> QED
    BY <1>4, <1>7, <2>2, <2>6, ContextInt
<1> HIDE DEF d, checks, q, image, rest
<1>11. ASSUME d.rc = "OK" PROVE RecordSound(d.rec, "component_images", q)
  <2>1. /\ W \in Fields /\ W.ptr = buf.cursor /\ W.length = at.end.cursor - buf.cursor
        /\ A \in Fields /\ A.ptr = at.version.cursor
        /\ A.length = at.length.cursor - at.version.cursor
        /\ B \in Fields /\ B.ptr = at.opaque.cursor
        /\ B.length = at.end.cursor - at.opaque.cursor
        /\ I \in Fields /\ I.ptr = image.cursor
        /\ I.length = rest.cursor - image.cursor
    BY <1>4, <1>6, <1>7, BetweenIs
  <2>2. /\ buf.cursor \in Int /\ at.version.cursor \in Int /\ at.length.cursor \in Int
        /\ at.opaque.cursor \in Int /\ at.end.cursor \in Int
    BY <1>4, ContextInt
  <2>3. /\ buf.cursor = p.field.ptr
        /\ at.version.cursor = buf.cursor + 22
        /\ at.length.cursor >= at.version.cursor
        /\ at.opaque.cursor >= at.length.cursor
        /\ at.end.cursor >= at.opaque.cursor
        /\ f.ptr = at.end.cursor
    BY <1>4, <1>8, <1>10, <1>11
  <2> HIDE DEF W, A, B, I
  <2>4. Laid(d.rec)
    <3>1. /\ A.length >= 0 /\ B.length >= 0 /\ W.length >= 0 /\ W.ptr <= A.ptr
          /\ End(A) <= B.ptr /\ End(B) = End(W)
          /\ d.rec.fixed = A.ptr - W.ptr + (B.ptr - End(A))
      BY <1>1, <2>1, <2>2, <2>3 DEF End
    <3> QED
      BY <1>1, <2>1, <3>1, LaidTwo
  <2>5. d.rec.whole.ptr >= q.areas.ptr /\ End(d.rec.whole) = q.field.ptr
    BY <1>1, <1>2, <1>3, <1>9, <2>1, <2>2, <2>3 DEF Rest, End, Fields
  <2>6. Inside(I, VariableField(0, q.length))
    <3>1. /\ image.remaining >= v.size /\ rest.cursor = image.cursor + v.size
          /\ image.cursor \in Int /\ image.remaining \in Int
      BY <1>2, <1>6, <1>10, <1>11, Back DEF rest
    <3>2. image.remaining >= 0
      BY <1>2, <3>1
    <3>3. /\ start.remaining >= v.offset /\ image.cursor = start.cursor + v.offset
          /\ image.remaining = start.remaining - v.offset
      BY <1>2, <1>5, <3>2, Back DEF image
    <3>4. start.cursor = 0 /\ start.remaining = p.length
      BY <1>2, <1>5, <3>3, ContextInt
    <3> QED
      BY <1>2, <1>9, <2>1, <3>1, <3>3, <3>4 DEF Inside, VariableField
  <2>7. NoField \in Fields
    BY DEF NoField, VariableField, Fields, NULL
  <2> QED
    BY <1>1, <2>1, <2>4, <2>5, <2>6, <2>7 DEF RecordSound
<1> QED
  BY <1>1, <1>9, <1>11 DEF d, q

\* A descriptor is read from the front of those that are left, or none are left.
LEMMA DescriptorSound ==
    ASSUME NEW f \in Fields, f.length >= 0, NEW g \in Fields, g.ptr >= 0,
           Inside(f, g), NEW n \in Nat
    PROVE  LET d == DescriptorFromIter(f, n)
           IN  /\ d.field \in Fields /\ d.data \in Fields
               /\ d.rc = "OK" => d.field.ptr # NULL
               /\ d.field.ptr # NULL => d.field.length >= 0 /\ Inside(d.field, g)
               /\ d.data # NoField => Inside(d.data, g)
<1> DEFINE d == DescriptorFromIter(f, n)
           buf == InitOver(MIN_DESCRIPTOR, f)
           data == Access(buf, 4)
           end == Access(data, n)
           none == VariableField(NULL, f.length)
<1>0. /\ f.ptr \in Int /\ f.length \in Int /\ g.ptr \in Int /\ g.length \in Int
      /\ f.ptr >= g.ptr /\ f.ptr + f.length <= g.ptr + g.length
  BY DEF Fields, Inside
<1>1. /\ buf \in Context
      /\ buf.remaining >= 0 => 5 <= f.length /\ buf.cursor = f.ptr /\ buf.remaining = f.length
  BY OverField DEF MIN_DESCRIPTOR
<1>2. /\ buf.remaining < 0 => d = [field |-> f, data |-> NoField, rc |-> "EOVERFLOW"]
      /\ buf.remaining >= 0 =>
             d = [field |-> Remainder(end, none), data |-> Between(data, end),
                  rc |-> Validate(end)]
  <2>1. buf.remaining \in Int
    BY <1>1, ContextInt
  <2>2. d = IF buf.remaining < 0
            THEN [field |-> f, data |-> NoField, rc |-> "EOVERFLOW"]
            ELSE [field |-> Remainder(end, none), data |-> Between(data, end),
                  rc |-> Validate(end)]
    BY ZenonT(30) DEF DescriptorFromIter
  <2> HIDE DEF d, buf, data, end, none
  <2> QED
    BY <2>1, <2>2
<1> HIDE DEF buf, d
<1>3. data \in Context
  BY <1>1, Passed
<1>4. end \in Context
  BY <1>3, Passed
<1>5. /\ NoField \in Fields /\ none \in Fields /\ none.ptr = NULL
  BY <1>0 DEF NoField, none, VariableField, Fields, NULL
<1>6. CASE buf.remaining < 0
  <2>1. f.ptr # NULL
    BY <1>0 DEF NULL
  <2>2. d.field = f /\ d.data = NoField /\ d.rc # "OK"
    BY <1>2, <1>6
  <2> QED
    BY <1>5, <2>2 DEF d
<1>7. CASE buf.remaining >= 0
  <2>1. data.remaining >= 0 /\ data.cursor = f.ptr + 4 /\ data.remaining = f.length - 4
    <3>1. ~(data.remaining < 0)
      <4>1. data.remaining < 0 => buf.remaining < 4
        BY <1>1, Passed
      <4>2. ~(buf.remaining < 4)
        BY <1>0, <1>1, <1>7
      <4> QED
        BY <4>1, <4>2
    <3>2. data.remaining >= 0
      BY <1>3, <3>1, ContextInt
    <3> QED
      BY <1>1, <1>7, <3>2, Back
  <2> HIDE DEF data
  <2>2. /\ Between(data, end) \in Fields /\ Between(data, end).ptr = data.cursor
        /\ Between(data, end).length = end.cursor - data.cursor
    BY <1>3, <1>4, BetweenIs
  <2>3. CASE end.remaining < 0
    <3>1. end.cursor = data.cursor
      BY <1>3, <2>3, Passed
    <3>2. Remainder(end, none) = none
      BY <1>4, <2>3, RemainderIs
    <3>3. Validate(end) # "OK"
      BY <2>3 DEF Validate
    <3> DEFINE D == Between(data, end)
    <3>4. Inside(D, g)
      <4> HIDE DEF D, end
      <4>1. D.ptr = f.ptr + 4 /\ D.length = 0
        BY <1>0, <2>1, <2>2, <3>1 DEF D
      <4> QED
        BY <1>0, <1>1, <1>7, <4>1 DEF Inside
    <3>5. d.field = none /\ d.data = D /\ d.rc # "OK"
      BY <1>2, <1>7, <3>2, <3>3
    <3> QED
      BY <1>5, <2>2, <3>4, <3>5 DEF d
  <2>4. CASE end.remaining >= 0
    <3>1. /\ data.remaining >= n /\ end.cursor = data.cursor + n
          /\ end.remaining = data.remaining - n
      BY <1>3, <2>4, Back
    <3> DEFINE R == Remainder(end, none)
               D == Between(data, end)
    <3>2. R \in Fields /\ R.ptr = end.cursor /\ R.length = end.remaining
      BY <1>4, <2>4, RemainderIs
    <3>3. d.field = R /\ d.data = D
      BY <1>2, <1>7
    <3> HIDE DEF R, D, end
    <3>4. D \in Fields /\ D.ptr = f.ptr + 4 /\ D.length = n
      BY <1>0, <2>1, <2>2, <3>1 DEF D
    <3>5. R.ptr = f.ptr + 4 + n /\ R.length = f.length - 4 - n /\ R.length >= 0
      BY <1>0, <2>1, <2>4, <3>1, <3>2
    <3>6. R.ptr # NULL /\ Inside(R, g) /\ Inside(D, g)
      BY <1>0, <3>4, <3>5 DEF Inside, NULL
    <3> QED
      BY <3>2, <3>3, <3>4, <3>5, <3>6 DEF d
  <2> QED
    BY <1>4, <2>3, <2>4, ContextInt
<1> QED
  BY <1>1, <1>6, <1>7, ContextInt

\* One turn of a loop is taken off the entries.
LEMMA IterNextSound ==
    ASSUME PackageInv, loop.at = "body"
    PROVE  LET q == IterNext(loop.section, pkg)
           IN  /\ PackageSound(q)
               /\ pkg.entries # 0 => q.entries = pkg.entries - 1
               /\ \/ InSection(loop.section, q.state)
                  \/ loop.section = "component_images" /\ q.state = "COMPLETE"
               /\ loop.section = "component_images" /\ q.state # "COMPLETE"
                      => q.entries # 0
<1> DEFINE q == IterNext(loop.section, pkg)
           n == pkg.entries
<1>1. /\ pkg \in Packages /\ n \in 0..SIZE_T_MAX /\ SIZE_T_MAX \in Nat
      /\ PackageSound(pkg) /\ InSection(loop.section, pkg.state)
  BY PackageAssumption, ZenonT(30) DEF PackageInv, PackageSound, Packages, LoopSound
<1>2. CASE loop.section = "component_images"
  <2> DEFINE left == (n - 1) % (SIZE_T_MAX + 1)
  <2>1. left \in 0..SIZE_T_MAX
    BY <1>1
  <2>2. n # 0 => left = n - 1
    BY <1>1
  <2>3. q = [pkg EXCEPT !.entries = left,
                        !.state = IF left = 0 THEN "COMPLETE" ELSE pkg.state]
    BY <1>2 DEF IterNext
  <2>4. pkg.state = "COMPONENT_IMAGE_INFORMATION"
    BY <1>1, <1>2 DEF InSection
  <2> HIDE DEF left, q
  <2>5. /\ q \in Packages /\ q.entries = left
        /\ q.state = IF left = 0 THEN "COMPLETE" ELSE "COMPONENT_IMAGE_INFORMATION"
        /\ q.pin = pkg.pin /\ q.revision = pkg.revision /\ q.bits = pkg.bits
        /\ q.length = pkg.length /\ q.version = pkg.version /\ q.areas = pkg.areas
        /\ q.field = pkg.field
    BY <1>1, <2>1, <2>3, <2>4, ZenonT(30) DEF Packages, States
  <2>6. PackageSound(q)
    BY <1>1, <2>4, <2>5 DEF PackageSound
  <2> QED
    BY <1>2, <2>2, <2>5, <2>6 DEF q, InSection
<1>3. CASE loop.section # "component_images"
  <2>1. q = [pkg EXCEPT !.entries = n - 1]
    BY <1>3 DEF IterNext
  <2>2. n # 0
    BY <1>3, ZenonT(30) DEF PackageInv, LoopSound
  <2>3. n - 1 \in 0..SIZE_T_MAX
    BY <1>1, <2>2
  <2> HIDE DEF q
  <2>4. /\ q \in Packages /\ q.entries = n - 1 /\ q.state = pkg.state
        /\ q.pin = pkg.pin /\ q.revision = pkg.revision /\ q.bits = pkg.bits
        /\ q.length = pkg.length /\ q.version = pkg.version /\ q.areas = pkg.areas
        /\ q.field = pkg.field
    BY <1>1, <2>1, <2>3 DEF Packages
  <2>5. PackageSound(q)
    BY <1>1, <1>3, <2>2, <2>4 DEF PackageSound, InSection
  <2> QED
    BY <1>1, <1>3, <2>2, <2>4, <2>5 DEF q
<1> QED
  BY <1>2, <1>3

(***************************************************************************)
(* The steps of an application, one action each.                           *)
(***************************************************************************)

\* The header is decoded.
LEMMA HeaderStep ==
    ASSUME PackageInv, NEW pin \in Revisions, NEW len \in PackageLengths,
           NEW v \in HeaderValues, decode_pldm_firmware_update_package(pin, len, v)
    PROVE  PackageInv'
<1>1. /\ ~Running /\ pkg.state = "INIT"
      /\ pkg' = decode_pldm_package_header_info_errno(pkg, pin, len, v).pkg
      /\ UNCHANGED <<rec, loop, asserts, announced, given>>
  BY DEF decode_pldm_firmware_update_package
<1>2. PackageSound(pkg')
  BY <1>1, HeaderSound, ZenonT(30) DEF PackageInv
<1>3. loop.at # "head" /\ loop.at # "body" /\ loop.at # "complete"
  BY <1>1, ZenonT(30) DEF Running, PackageInv, LoopSound
<1> QED
  BY <1>1, <1>2, <1>3, ZenonT(30) DEF PackageInv, LoopSound, EntriesAsAnnounced, NoImagesAnnounced

\* A loop begins, or is refused.
LEMMA BeginLoopStep ==
    ASSUME PackageInv, NEW section \in Sections, NEW count \in Counts,
           BeginLoop(section, count)
    PROVE  PackageInv'
<1> DEFINE s == SectionInit(section, pkg, count)
           at == IF s.rc = "OK" THEN "head" ELSE "failed"
<1>1. PackageSound(s.pkg) /\ (s.rc = "OK" => InSection(section, s.pkg.state))
  <2>1. PackageSound(pkg)
    BY DEF PackageInv
  <2> QED
    BY <2>1, SectionSound, ZenonT(30)
<1>2. /\ pkg' = s.pkg /\ rc' = s.rc /\ given' = 0
      /\ announced' = IF s.rc = "OK" THEN s.pkg.entries ELSE 0
      /\ loop' = Loop(section, at)
      /\ asserts' = (asserts /\ (pkg.pin # 0 => RevisionsPinned(pkg)))
  BY DEF BeginLoop
<1> HIDE DEF s
<1>3. s.pkg.entries \in Nat
  BY <1>1, EntriesNat
<1>4. /\ loop'.section = section /\ loop'.at = at /\ loop'.inner = NULL
      /\ DOMAIN loop' = {"section", "at", "inner"}
  BY <1>2 DEF Loop
<1>5. pkg.pin # 0 => RevisionsPinned(pkg)
  BY DEF PackageInv, PackageSound, RevisionsPinned
<1>6. asserts'
  BY <1>2, <1>5, ZenonT(30) DEF PackageInv, EntriesAsAnnounced
<1>7. section = "component_images" /\ at = "head" => pkg'.state # "COMPLETE"
  BY <1>1, <1>2 DEF InSection
<1>8. LoopSound'
  <2>1. given' + pkg'.entries = announced' \/ at # "head"
    BY <1>2, <1>3
  <2>2. announced' = pkg'.entries \/ at # "head"
    BY <1>2
  <2>3. announced' \in Nat
    BY <1>2, <1>3
  <2>4. at = "head" => InSection(section, pkg'.state) /\ rc' = "OK"
    BY <1>1, <1>2
  <2>5. at = "head" \/ at = "failed"
    OBVIOUS
  <2> HIDE DEF at
  <2> QED
    BY <1>2, <1>4, <1>7, <2>1, <2>2, <2>3, <2>4, <2>5, ZenonT(30) DEF LoopSound, NULL
<1>9. EntriesAsAnnounced'
  <2>1. given' <= announced'
    BY <1>2, <1>3
  <2>2. at # "complete"
    OBVIOUS
  <2> HIDE DEF at
  <2> QED
    BY <1>4, <1>6, <2>1, <2>2 DEF EntriesAsAnnounced
<1>10. rec' = NoRecord
  BY DEF BeginLoop
<1> QED
  <2>1. PackageSound(pkg)'
    BY <1>1, <1>2
  <2>2. DOMAIN rec' = DOMAIN NoRecord
    BY <1>10
  <2>3. loop'.at # "body"
    BY <1>4
  <2> QED
    BY <1>4, <1>8, <1>9, <2>1, <2>2, <2>3, ZenonT(30) DEF PackageInv

\* The decoding of an entry, in either of the loops.
LEMMA EntryStep ==
    ASSUME PackageInv, loop.at = "head",
           ~NoImagesAnnounced => pkg.entries # 0,
           loop.section # "component_images" => pkg.entries # 0,
           InSection(loop.section, pkg.state),
           NEW q, NEW r, NEW err, PackageSound(q), q.state = pkg.state,
           q.entries = pkg.entries,
           err = "OK" => RecordSound(r, loop.section, q), DOMAIN r = DOMAIN NoRecord,
           pkg' = q, rc' = err, rec' = (IF err = "OK" THEN r ELSE NoRecord),
           loop' = Loop(loop.section, IF err = "OK" THEN "body" ELSE "failed"),
           given' = (IF err = "OK" THEN given + 1 ELSE given),
           announced' = announced, asserts'
    PROVE  PackageInv'
<1>1. /\ loop'.section = loop.section /\ loop'.inner = NULL
      /\ loop'.at = IF err = "OK" THEN "body" ELSE "failed"
      /\ DOMAIN loop' = {"section", "at", "inner"}
  BY DEF Loop
<1>2. pkg.entries \in Nat /\ given \in Nat /\ announced \in Nat
  <2>1. pkg.entries \in Nat
    BY EntriesNat, ZenonT(30) DEF PackageInv
  <2> QED
    BY <2>1, ZenonT(30) DEF PackageInv, LoopSound
<1>3. NoImagesAnnounced' <=> NoImagesAnnounced
  BY <1>1, ZenonT(30) DEF NoImagesAnnounced
<1>4. ~NoImagesAnnounced => given + pkg.entries = announced /\ given <= announced
  BY ZenonT(30) DEF PackageInv, LoopSound, EntriesAsAnnounced
<1>5. loop.section \in Sections \cup {""}
  BY ZenonT(30) DEF PackageInv, LoopSound
<1>6. CASE err = "OK"
  <2>1. loop'.at = "body" /\ given' = given + 1 /\ rec' = r
    BY <1>1, <1>6, ZenonT(30)
  <2>2. ~NoImagesAnnounced' => given' + pkg'.entries = announced' + 1 /\ given' <= announced'
    <3>1. ASSUME ~NoImagesAnnounced
          PROVE  (given + 1) + pkg.entries = announced + 1 /\ given + 1 <= announced
      BY <1>2, <1>4, <3>1, OneMore, ZenonT(30)
    <3>2. pkg'.entries = pkg.entries /\ announced' = announced
      BY ZenonT(30)
    <3> QED
      BY <1>3, <2>1, <3>1, <3>2, ZenonT(30)
  <2>3. LoopSound'
    <3>1. InSection(loop'.section, pkg'.state)
      BY <1>1, ZenonT(30)
    <3>2. given' \in Nat /\ announced' \in Nat
      BY <1>2, <2>1
    <3>3. ~NoImagesAnnounced' => pkg'.entries # 0
      BY <1>3
    <3> QED
      BY <1>1, <1>5, <2>1, <2>2, <3>1, <3>2, <3>3, ZenonT(30) DEF LoopSound
  <2>4. EntriesAsAnnounced'
    BY <2>1, <2>2 DEF EntriesAsAnnounced
  <2> QED
    BY <1>1, <1>6, <2>1, <2>3, <2>4 DEF PackageInv
<1>7. CASE err # "OK"
  <2>1. loop'.at = "failed" /\ given' = given
    BY <1>1, <1>7
  <2>2. LoopSound'
    BY <1>1, <1>2, <1>5, <2>1, ZenonT(30) DEF LoopSound, NULL
  <2>3. EntriesAsAnnounced'
    BY <1>3, <1>4, <2>1 DEF EntriesAsAnnounced
  <2> QED
    BY <1>1, <2>1, <2>2, <2>3 DEF PackageInv
<1> QED
  BY <1>6, <1>7

\* A record is decoded: no assert of it fails, since the downstream devices of
\* the first revision have no entries.
LEMMA DecodeDeviceStep ==
    ASSUME PackageInv, NEW v \in RecordValues, DecodeDevice(v)
    PROVE  PackageInv'
<1> DEFINE fd == loop.section = "firmware_devices"
           d == IF fd
                THEN decode_pldm_package_firmware_device_id_record_errno(pkg, v)
                ELSE decode_pldm_package_downstream_device_id_record_from_iter(pkg, v)
           stamp == IF v.stamped THEN 4 ELSE 0
<1>1. /\ loop.at = "head" /\ loop.section \in Sections \ {"component_images"}
      /\ pkg.entries # 0
      /\ rc' = d.rc /\ pkg' = d.pkg
      /\ rec' = IF d.rc = "OK" THEN d.rec ELSE NoRecord
      /\ loop' = Loop(loop.section, IF d.rc = "OK" THEN "body" ELSE "failed")
      /\ given' = IF d.rc = "OK" THEN given + 1 ELSE given
      /\ announced' = announced
      /\ asserts' = /\ asserts
                    /\ pkg.state = IF fd THEN "FIRMWARE_DEVICES"
                                         ELSE "DOWNSTREAM_DEVICES"
                    /\ ~fd => pkg.revision > 1
                    /\ pkg.bits % 8 = 0
  BY DEF DecodeDevice
<1>2. InSection(loop.section, pkg.state) /\ PackageSound(pkg)
  BY <1>1, ZenonT(30) DEF PackageInv, LoopSound
<1>3. /\ loop.section = "firmware_devices" \/ loop.section = "downstream_devices"
      /\ pkg.state = IF fd THEN "FIRMWARE_DEVICES" ELSE "DOWNSTREAM_DEVICES"
  BY <1>1, <1>2 DEF InSection
<1>4. (~fd => pkg.revision > 1) /\ pkg.bits % 8 = 0
  BY <1>1, <1>2, <1>3 DEF PackageSound, Packages, Revisions
<1>5. asserts'
  BY <1>1, <1>3, <1>4, ZenonT(30) DEF PackageInv, EntriesAsAnnounced
<1>6. /\ PackageSound(d.pkg) /\ d.pkg.state = pkg.state /\ d.pkg.entries = pkg.entries
      /\ d.rc = "OK" => RecordSound(d.rec, loop.section, d.pkg)
  <2>1. pkg.state \notin {"INIT", "HEADER"} /\ loop.section # "component_images"
    BY <1>3
  <2>2. \E req \in Nat, n \in Nat, e \in BOOLEAN : d = DeviceIdRecord(pkg, req, v, n, e)
    <3>1. CASE fd
      BY <3>1, 11 \in Nat, ZenonT(30) DEF decode_pldm_package_firmware_device_id_record_errno,
                  PLDM_FWUP_FIRMWARE_DEVICE_ID_RECORD_MIN_SIZE
    <3>2. CASE ~fd
      <4>1. stamp \in Nat
        OBVIOUS
      <4>2. d = DeviceIdRecord(pkg, 11, v, stamp, TRUE)
        BY <3>2 DEF decode_pldm_package_downstream_device_id_record_from_iter,
                    PLDM_FWUP_DOWNSTREAM_DEVICE_ID_RECORD_MIN_SIZE
      <4> HIDE DEF d, stamp
      <4> QED
        BY <4>1, <4>2, 11 \in Nat, ZenonT(30)
    <3> QED
      BY <3>1, <3>2
  <2>3. PICK req \in Nat, n \in Nat, e \in BOOLEAN : d = DeviceIdRecord(pkg, req, v, n, e)
    BY <2>2
  <2>4. LET r == DeviceIdRecord(pkg, req, v, n, e)
        IN  /\ PackageSound(r.pkg)
            /\ r.pkg.state = pkg.state /\ r.pkg.entries = pkg.entries
            /\ r.rc = "OK" => /\ RecordSound(r.rec, loop.section, r.pkg)
                              /\ r.rec.descriptors.ptr # NULL
    BY <1>2, <2>1, DeviceSound, ZenonT(30)
  <2> HIDE DEF d
  <2> QED
    BY <2>3, <2>4, ZenonT(30)
<1>7. DOMAIN d.rec = DOMAIN NoRecord
  BY DEF decode_pldm_package_firmware_device_id_record_errno,
         decode_pldm_package_downstream_device_id_record_from_iter,
         DeviceIdRecord, DeviceRecord
<1> HIDE DEF d
<1> QED
  BY <1>1, <1>2, <1>5, <1>6, <1>7, EntryStep, ZenonT(30)

\* A component is decoded.
LEMMA DecodeComponentStep ==
    ASSUME PackageInv, NEW v \in ComponentValues, DecodeComponent(v)
    PROVE  PackageInv'
<1> DEFINE d == decode_pldm_package_component_image_information_from_iter(pkg, v)
<1>1. /\ loop.at = "head" /\ loop.section = "component_images"
      /\ pkg.state # "COMPLETE"
      /\ rc' = d.rc /\ pkg' = d.pkg
      /\ rec' = IF d.rc = "OK" THEN d.rec ELSE NoRecord
      /\ loop' = Loop(loop.section, IF d.rc = "OK" THEN "body" ELSE "failed")
      /\ given' = IF d.rc = "OK" THEN given + 1 ELSE given
      /\ announced' = announced
      /\ asserts' = (asserts /\ pkg.state = "COMPONENT_IMAGE_INFORMATION")
  BY DEF DecodeComponent
<1>2. InSection(loop.section, pkg.state) /\ PackageSound(pkg)
  BY <1>1, ZenonT(30) DEF PackageInv, LoopSound
<1>3. pkg.state = "COMPONENT_IMAGE_INFORMATION"
  BY <1>1, <1>2 DEF InSection
<1>4. asserts'
  BY <1>1, <1>3, ZenonT(30) DEF PackageInv, EntriesAsAnnounced
<1>5. ~NoImagesAnnounced => pkg.entries # 0
  BY <1>1, ZenonT(30) DEF PackageInv, LoopSound, NoImagesAnnounced
<1>6. /\ PackageSound(d.pkg) /\ d.pkg.state = pkg.state /\ d.pkg.entries = pkg.entries
      /\ d.rc = "OK" => RecordSound(d.rec, loop.section, d.pkg)
  BY <1>1, <1>2, <1>3, ComponentSound, ZenonT(30)
<1>7. DOMAIN d.rec = DOMAIN NoRecord
  BY DEF decode_pldm_package_component_image_information_from_iter
<1> HIDE DEF d
<1> QED
  BY <1>1, <1>2, <1>4, <1>5, <1>6, <1>7, EntryStep, ZenonT(30)

\* A loop ends for want of entries: all that were announced are given.
LEMMA EndLoopStep ==
    ASSUME PackageInv, EndLoop
    PROVE  PackageInv'
<1>1. /\ loop.at = "head"
      /\ IF loop.section = "component_images" THEN pkg.state = "COMPLETE"
                                              ELSE pkg.entries = 0
      /\ loop' = Loop(loop.section, "complete")
      /\ asserts' = (asserts /\ pkg.entries = 0)
      /\ rec' = NoRecord
      /\ UNCHANGED <<pkg, rc, announced, given>>
  BY DEF EndLoop
<1>2. /\ loop'.section = loop.section /\ loop'.inner = NULL /\ loop'.at = "complete"
      /\ DOMAIN loop' = {"section", "at", "inner"}
  BY <1>1 DEF Loop
<1>3. PackageSound(pkg) /\ asserts /\ LoopSound
  BY DEF PackageInv, EntriesAsAnnounced
<1>4. pkg.entries = 0
  BY <1>1, <1>3 DEF PackageSound
<1>5. given \in Nat /\ announced \in Nat /\ rc = "OK"
  BY <1>1, <1>3, ZenonT(30) DEF LoopSound
<1>6. NoImagesAnnounced' <=> NoImagesAnnounced
  BY <1>1, <1>2 DEF NoImagesAnnounced
<1>7. ~NoImagesAnnounced => given = announced
  <2>1. ~NoImagesAnnounced => given + pkg.entries = announced
    BY <1>1, <1>3, ZenonT(30) DEF LoopSound
  <2>2. given + pkg.entries = given
    BY <1>4, <1>5
  <2> QED
    BY <2>1, <2>2
<1>8. pkg.state # "INIT"
  BY <1>1, <1>3, ZenonT(30) DEF LoopSound, InSection
<1>9. LoopSound'
  BY <1>1, <1>2, <1>3, <1>5, <1>8, ZenonT(30) DEF LoopSound
<1>10. EntriesAsAnnounced'
  <2>1. asserts'
    BY <1>1, <1>3, <1>4, ZenonT(30)
  <2>2. ~NoImagesAnnounced' => given' <= announced' /\ given' = announced' /\ rc' = "OK"
    BY <1>1, <1>5, <1>6, <1>7
  <2> QED
    BY <2>1, <2>2 DEF EntriesAsAnnounced
<1> QED
  BY <1>1, <1>2, <1>3, <1>9, <1>10 DEF PackageInv

\* The next turn of a loop.
LEMMA EndBodyStep ==
    ASSUME PackageInv, EndBody
    PROVE  PackageInv'
<1> DEFINE q == IterNext(loop.section, pkg)
           at == IF rc = "OK" THEN "head" ELSE "failed"
<1>1. /\ loop.at = "body"
      /\ pkg' = q
      /\ loop' = Loop(loop.section, at)
      /\ rec' = NoRecord
      /\ UNCHANGED <<rc, asserts, announced, given>>
  BY DEF EndBody
<1>2. /\ loop'.section = loop.section /\ loop'.inner = NULL /\ loop'.at = at
      /\ DOMAIN loop' = {"section", "at", "inner"}
  BY <1>1 DEF Loop
<1>3. /\ PackageSound(q)
      /\ pkg.entries # 0 => q.entries = pkg.entries - 1
      /\ \/ InSection(loop.section, q.state)
         \/ loop.section = "component_images" /\ q.state = "COMPLETE"
      /\ loop.section = "component_images" /\ q.state # "COMPLETE" => q.entries # 0
  BY <1>1, IterNextSound
<1> HIDE DEF q
<1>4. LoopSound /\ EntriesAsAnnounced
  BY DEF PackageInv
<1>5. given \in Nat /\ announced \in Nat /\ loop.section \in Sections \cup {""}
  BY <1>4, ZenonT(30) DEF LoopSound
<1>6. NoImagesAnnounced' <=> NoImagesAnnounced
  BY <1>1, <1>2 DEF NoImagesAnnounced
<1>7. pkg.entries \in Nat
  BY PackageAssumption DEF PackageInv, PackageSound, Packages
<1>8. ~NoImagesAnnounced => given' + pkg'.entries = announced'
  <2>1. ~NoImagesAnnounced => given + pkg.entries = announced + 1 /\ pkg.entries # 0
    BY <1>1, <1>4, ZenonT(30) DEF LoopSound
  <2>2. PICK left : left = q.entries
    OBVIOUS
  <2>3. pkg.entries # 0 => left = pkg.entries - 1
    BY <1>3, <2>2
  <2>4. ASSUME ~NoImagesAnnounced
        PROVE  given + left = announced
    <3>1. given + pkg.entries = announced + 1 /\ left = pkg.entries - 1
      BY <2>1, <2>3, <2>4, ZenonT(30)
    <3>2. given \in Nat /\ announced \in Nat
      BY <1>5, ZenonT(30)
    <3>3. given + (pkg.entries - 1) = announced
      BY <1>7, <3>1, <3>2, OneLess, ZenonT(30)
    <3> QED
      BY <3>1, <3>3, ZenonT(30)
  <2> QED
    BY <1>1, <2>2, <2>4
<1>9. \/ at = "head" /\ rc = "OK"
      \/ at = "failed"
  OBVIOUS
<1> HIDE DEF at
<1>10. LoopSound'
  <2>1. CASE at = "head" /\ rc = "OK"
    <3>1. \/ InSection(loop'.section, pkg'.state)
          \/ loop'.section = "component_images" /\ pkg'.state = "COMPLETE"
      BY <1>1, <1>2, <1>3
    <3>2. loop'.section = "component_images" /\ pkg'.state # "COMPLETE"
              => pkg'.entries # 0
      BY <1>1, <1>2, <1>3
    <3> QED
      BY <1>1, <1>2, <1>5, <1>6, <1>8, <2>1, <3>1, <3>2, ZenonT(30) DEF LoopSound
  <2>2. CASE at = "failed"
    BY <1>1, <1>2, <1>5, <2>2, ZenonT(30) DEF LoopSound
  <2> QED
    BY <1>9, <2>1, <2>2
<1>11. EntriesAsAnnounced'
  BY <1>1, <1>2, <1>4, <1>6, <1>9 DEF EntriesAsAnnounced
<1>12. loop'.at # "body"
  BY <1>2, <1>9
<1> QED
  BY <1>1, <1>2, <1>3, <1>10, <1>11, <1>12 DEF PackageInv

\* The application leaves the loop.
LEMMA BreakStep ==
    ASSUME PackageInv, Break
    PROVE  PackageInv'
<1>1. /\ loop.at = "body" /\ loop' = Loop(loop.section, "left") /\ rec' = NoRecord
      /\ UNCHANGED <<pkg, rc, asserts, announced, given>>
  BY DEF Break
<1>2. /\ loop'.section = loop.section /\ loop'.inner = NULL /\ loop'.at = "left"
      /\ DOMAIN loop' = {"section", "at", "inner"}
  BY <1>1 DEF Loop
<1>3. NoImagesAnnounced' <=> NoImagesAnnounced
  BY <1>1, <1>2 DEF NoImagesAnnounced
<1>4. PackageSound(pkg) /\ LoopSound /\ EntriesAsAnnounced
  BY DEF PackageInv
<1>5. LoopSound'
  BY <1>1, <1>2, <1>4, ZenonT(30) DEF LoopSound
<1>6. EntriesAsAnnounced'
  BY <1>1, <1>2, <1>3, <1>4 DEF EntriesAsAnnounced
<1> QED
  BY <1>1, <1>2, <1>4, <1>5, <1>6 DEF PackageInv

\* The steps of the inner loop change no more than the record's descriptors,
\* and rc.
LEMMA InnerStep ==
    ASSUME PackageInv, loop.at = "body", loop.section # "component_images",
           loop'.at = loop.at, loop'.section = loop.section,
           DOMAIN loop' = {"section", "at", "inner"},
           loop'.inner \in Nat \cup {NULL},
           loop'.inner # NULL => rec'.descriptors.ptr # NULL,
           RecordSound(rec', loop.section, pkg), DOMAIN rec' = DOMAIN NoRecord,
           UNCHANGED <<pkg, announced, given>>, asserts'
    PROVE  PackageInv'
<1>1. PackageSound(pkg) /\ LoopSound /\ EntriesAsAnnounced
  BY DEF PackageInv
<1>2. NoImagesAnnounced' <=> NoImagesAnnounced
  BY DEF NoImagesAnnounced
<1>3. LoopSound'
  <2>1. /\ InSection(loop'.section, pkg'.state) /\ pkg'.entries # 0
        /\ ~NoImagesAnnounced' => given' + pkg'.entries = announced' + 1
        /\ given' \in Nat /\ announced' \in Nat /\ loop'.section \in Sections \cup {""}
    BY <1>1, <1>2, ZenonT(30) DEF LoopSound
  <2> QED
    BY <2>1, ZenonT(30) DEF LoopSound
<1>4. EntriesAsAnnounced'
  BY <1>1, <1>2 DEF EntriesAsAnnounced
<1>5. PackageSound(pkg') /\ RecordSound(rec', loop'.section, pkg')
  BY <1>1
<1> QED
  BY <1>3, <1>4, <1>5 DEF PackageInv

\* The inner loop begins.
LEMMA BeginDescriptorsStep ==
    ASSUME PackageInv, BeginDescriptors
    PROVE  PackageInv'
<1>1. /\ loop.at = "body" /\ loop.section # "component_images"
      /\ rec.descriptors.ptr # NULL
      /\ loop' = [loop EXCEPT !.inner = rec.descriptor_count]
      /\ asserts' = (asserts /\ (loop.section = "firmware_devices" =>
                                     pkg.state = "FIRMWARE_DEVICES"))
      /\ UNCHANGED <<pkg, rec, announced, given>>
  BY DEF BeginDescriptors
<1>2. /\ RecordSound(rec, loop.section, pkg) /\ DOMAIN rec = DOMAIN NoRecord
      /\ DOMAIN loop = {"section", "at", "inner"}
      /\ asserts /\ LoopSound
  BY <1>1 DEF PackageInv, EntriesAsAnnounced
<1>3. InSection(loop.section, pkg.state)
  BY <1>1, <1>2, ZenonT(30) DEF LoopSound
<1>4. asserts'
  BY <1>1, <1>2, <1>3, ZenonT(30) DEF InSection
<1>5. /\ loop'.at = loop.at /\ loop'.section = loop.section
      /\ loop'.inner = rec.descriptor_count /\ DOMAIN loop' = {"section", "at", "inner"}
  BY <1>1, <1>2
<1>6. rec.descriptor_count \in Nat
  BY <1>2 DEF RecordSound
<1> QED
  BY <1>1, <1>2, <1>4, <1>5, <1>6, InnerStep

\* The inner loop ends.
LEMMA EndDescriptorsStep ==
    ASSUME PackageInv, EndDescriptors
    PROVE  PackageInv'
<1>1. /\ loop.inner # NULL /\ loop' = [loop EXCEPT !.inner = NULL]
      /\ UNCHANGED <<pkg, rec, asserts, announced, given>>
  BY DEF EndDescriptors
<1>2. loop.at = "body" /\ loop.section # "component_images" /\ asserts
  BY <1>1, ZenonT(30) DEF PackageInv, LoopSound, EntriesAsAnnounced
<1>3. /\ RecordSound(rec, loop.section, pkg) /\ DOMAIN rec = DOMAIN NoRecord
      /\ DOMAIN loop = {"section", "at", "inner"}
  BY <1>2 DEF PackageInv
<1>4. /\ loop'.at = loop.at /\ loop'.section = loop.section
      /\ loop'.inner = NULL /\ DOMAIN loop' = {"section", "at", "inner"}
  BY <1>1, <1>3
<1> QED
  BY <1>1, <1>2, <1>3, <1>4, InnerStep

\* A descriptor is read, inside the part of the record that is descriptors.
LEMMA DecodeDescriptorStep ==
    ASSUME PackageInv, NEW length \in DataLengths, DecodeDescriptor(length)
    PROVE  PackageInv'
<1> DEFINE d == DescriptorFromIter(rec.descriptors, length)
<1>1. /\ loop.inner > 0
      /\ rec' = [rec EXCEPT !.descriptors = d.field, !.descriptor = d.data]
      /\ loop' = [loop EXCEPT !.inner = IF d.rc = "OK" THEN @ - 1 ELSE NULL]
      /\ UNCHANGED <<pkg, asserts, announced, given>>
  BY DEF DecodeDescriptor
<1>2. /\ loop.inner \in Nat \cup {NULL} /\ loop.inner # NULL
      /\ loop.at = "body" /\ loop.section # "component_images"
      /\ rec.descriptors.ptr # NULL
  <2>1. loop.inner # NULL
    BY <1>1 DEF NULL
  <2> QED
    BY <2>1, ZenonT(30) DEF PackageInv, LoopSound
<1>3. /\ RecordSound(rec, loop.section, pkg) /\ DOMAIN rec = DOMAIN NoRecord
      /\ DOMAIN loop = {"section", "at", "inner"} /\ PackageSound(pkg) /\ asserts
      /\ InSection(loop.section, pkg.state)
  BY <1>2, ZenonT(30) DEF PackageInv, EntriesAsAnnounced, LoopSound
<1>4. loop.inner \in Nat /\ loop.inner > 0 /\ loop.inner - 1 \in Nat
  BY <1>1, <1>2
<1>5. /\ loop'.at = loop.at /\ loop'.section = loop.section
      /\ loop'.inner = IF d.rc = "OK" THEN loop.inner - 1 ELSE NULL
      /\ DOMAIN loop' = {"section", "at", "inner"}
  BY <1>1, <1>3
<1>6. DOMAIN rec = {"whole", "fixed", "parts", "descriptors", "descriptor_count",
                    "descriptor", "image"}
  BY <1>3 DEF NoRecord
<1> HIDE DEF d
<1>7. /\ DOMAIN rec' = DOMAIN NoRecord
      /\ rec'.whole = rec.whole /\ rec'.fixed = rec.fixed /\ rec'.parts = rec.parts
      /\ rec'.descriptors = d.field /\ rec'.descriptor = d.data
      /\ rec'.descriptor_count = rec.descriptor_count
  BY <1>1, <1>3, <1>6
<1>8. /\ rec.descriptors \in Fields /\ rec.descriptors.length >= 0
      /\ rec.parts[3] \in Fields /\ Inside(rec.descriptors, rec.parts[3])
      /\ rec.whole \in Fields /\ Inside(rec.parts[3], rec.whole)
      /\ rec.whole.ptr >= pkg.areas.ptr /\ Laid(rec)
  BY <1>2, <1>3, ZenonT(30) DEF RecordSound, Laid
<1>9. pkg.areas.ptr \in Int /\ pkg.areas.ptr >= 0
  <2>1. pkg.state # "INIT"
    BY <1>3, ZenonT(30) DEF InSection
  <2> QED
    BY <1>3, <2>1, AreasBehind, ZenonT(30)
<1>10. rec.parts[3].ptr >= 0
  BY <1>8, <1>9, InsideBehind, ZenonT(30)
<1>11. /\ d.field \in Fields /\ d.data \in Fields
       /\ d.rc = "OK" => d.field.ptr # NULL
       /\ d.field.ptr # NULL => d.field.length >= 0 /\ Inside(d.field, rec.parts[3])
       /\ d.data # NoField => Inside(d.data, rec.parts[3])
  <2>1. length \in Nat
    BY LengthNat, ZenonT(30)
  <2>2. LET e == DescriptorFromIter(rec.descriptors, length)
        IN  /\ e.field \in Fields /\ e.data \in Fields
            /\ e.rc = "OK" => e.field.ptr # NULL
            /\ e.field.ptr # NULL => e.field.length >= 0 /\ Inside(e.field, rec.parts[3])
            /\ e.data # NoField => Inside(e.data, rec.parts[3])
    BY <1>8, <1>10, <2>1, DescriptorSound, ZenonT(30)
  <2> QED
    BY <2>2, ZenonT(30) DEF d
<1>12. Laid(rec')
  BY <1>7, <1>8 DEF Laid
<1>13. RecordSound(rec', loop.section, pkg)
  BY <1>2, <1>3, <1>7, <1>11, <1>12, ZenonT(30) DEF RecordSound
<1>14. loop'.inner \in Nat \cup {NULL} /\ (loop'.inner # NULL => rec'.descriptors.ptr # NULL)
  BY <1>4, <1>5, <1>7, <1>11, ZenonT(30)
<1> QED
  BY <1>1, <1>2, <1>3, <1>5, <1>7, <1>13, <1>14, InnerStep

\* A package that is only declared is sound.
LEMMA NewSound == PackageSound(NewPackage)
<1>1. NoField \in Fields
  BY DEF NoField, VariableField, Fields, NULL
<1>2. NewPackage \in Packages
  BY <1>1, PackageAssumption DEF NewPackage, Packages, States
<1> QED
  BY <1>2 DEF NewPackage, PackageSound

\* Nothing is given where nothing is announced.
LEMMA BothZero ==
    ASSUME NEW g, NEW a, g = 0, a = 0
    PROVE  g <= a
OBVIOUS

\* The application turns to another package.
LEMMA DiscardStep ==
    ASSUME asserts', pkg' = NewPackage, rec' = NoRecord, loop' = Loop("", ""),
           announced' = 0, given' = 0
    PROVE  PackageInv'
<1>1. /\ loop'.section = "" /\ loop'.at = "" /\ loop'.inner = NULL
      /\ DOMAIN loop' = {"section", "at", "inner"}
  BY ZenonT(30) DEF Loop
<1>2. LoopSound'
  BY <1>1, ZenonT(30) DEF LoopSound
<1>3. EntriesAsAnnounced'
  <2>1. given' <= announced'
    BY BothZero, ZenonT(30)
  <2> QED
    BY <1>1, <2>1, ZenonT(30) DEF EntriesAsAnnounced
<1> QED
  BY <1>1, <1>2, <1>3, NewSound, ZenonT(30) DEF PackageInv

\* The beginning.
LEMMA PackageInitial ==
    ASSUME PackageInit
    PROVE  PackageInv
<1>0. /\ pkg = NewPackage /\ rec = NoRecord /\ loop = Loop("", "")
      /\ asserts /\ announced = 0 /\ given = 0
  BY ZenonT(30) DEF PackageInit
<1>1. /\ loop.section = "" /\ loop.at = "" /\ loop.inner = NULL
      /\ DOMAIN loop = {"section", "at", "inner"}
  BY <1>0, ZenonT(30) DEF Loop
<1>2. LoopSound
  BY <1>0, <1>1, ZenonT(30) DEF LoopSound
<1>3. EntriesAsAnnounced
  <2>1. given <= announced
    BY <1>0, BothZero, ZenonT(30)
  <2> QED
    BY <1>0, <1>1, <2>1, ZenonT(30) DEF EntriesAsAnnounced
<1> QED
  BY <1>0, <1>1, <1>2, <1>3, NewSound, ZenonT(30) DEF PackageInv

\* Every step.
LEMMA PackageStep ==
    ASSUME PackageInv, [PackageNext]_pkgVars
    PROVE  PackageInv'
<1>1. ASSUME NEW pin \in Revisions, NEW len \in PackageLengths, NEW v \in HeaderValues,
             decode_pldm_firmware_update_package(pin, len, v)
      PROVE  PackageInv'
  BY <1>1, HeaderStep
<1>2. ASSUME NEW section \in Sections, NEW count \in Counts, BeginLoop(section, count)
      PROVE  PackageInv'
  BY <1>2, BeginLoopStep
<1>3. ASSUME NEW v \in RecordValues, DecodeDevice(v)
      PROVE  PackageInv'
  BY <1>3, DecodeDeviceStep
<1>4. ASSUME NEW v \in ComponentValues, DecodeComponent(v)
      PROVE  PackageInv'
  BY <1>4, DecodeComponentStep
<1>5. CASE EndLoop
  BY <1>5, EndLoopStep
<1>6. CASE EndBody
  BY <1>6, EndBodyStep
<1>7. CASE Break
  BY <1>7, BreakStep
<1>8. CASE BeginDescriptors
  BY <1>8, BeginDescriptorsStep
<1>9. ASSUME NEW length \in DataLengths, DecodeDescriptor(length)
      PROVE  PackageInv'
  BY <1>9, DecodeDescriptorStep
<1>10. CASE EndDescriptors
  BY <1>10, EndDescriptorsStep
<1>11. CASE Discard
  <2>1. asserts'
    BY <1>11, ZenonT(30) DEF Discard, PackageInv, EntriesAsAnnounced
  <2> QED
    BY <1>11, <2>1, DiscardStep, ZenonT(30) DEF Discard
<1>12. CASE UNCHANGED pkgVars
  BY <1>12, ZenonT(30) DEF pkgVars, PackageInv, LoopSound, EntriesAsAnnounced, NoImagesAnnounced
<1> QED
  BY <1>1, <1>2, <1>3, <1>4, <1>5, <1>6, <1>7, <1>8, <1>9, <1>10, <1>11, <1>12,
     Zenon DEF PackageNext

\* The invariant says what is to be proved.
LEMMA PackageInvImplies ==
    ASSUME PackageInv
    PROVE  PartsInPlace /\ EntriesAsAnnounced
<1>1. /\ PackageSound(pkg) /\ LoopSound /\ EntriesAsAnnounced
      /\ loop.at = "body" => RecordSound(rec, loop.section, pkg)
  BY DEF PackageInv
<1>2. pkg.version \in Fields /\ pkg.areas \in Fields /\ pkg.field \in Fields /\ pkg.length \in Nat
  BY <1>1 DEF PackageSound, Packages
<1>3. VariableField(0, pkg.length).ptr = 0 /\ VariableField(0, pkg.length).length = pkg.length
  BY DEF VariableField
<1>4. ASSUME pkg.state # "INIT"
      PROVE  /\ Inside(pkg.version, VariableField(0, pkg.areas.ptr))
             /\ Inside(pkg.areas, VariableField(0, pkg.length))
             /\ pkg.field = NoField \/ Inside(pkg.field, pkg.areas)
  <2>1. /\ pkg.version.ptr >= 0 /\ pkg.version.length >= 0
        /\ pkg.areas.ptr = End(pkg.version)
        /\ pkg.areas.length >= 0 /\ End(pkg.areas) <= pkg.length
    BY <1>1, <1>4 DEF PackageSound
  <2>2. /\ pkg.version.ptr \in Int /\ pkg.version.length \in Int
        /\ pkg.areas.ptr \in Int /\ pkg.areas.length \in Int
        /\ pkg.field.ptr \in Int /\ pkg.field.length \in Int
    BY <1>2 DEF Fields
  <2>3. Inside(pkg.version, VariableField(0, pkg.areas.ptr))
    BY <2>1, <2>2 DEF Inside, End, VariableField
  <2>4. Inside(pkg.areas, VariableField(0, pkg.length))
    BY <1>2, <1>3, <2>1, <2>2 DEF Inside, End
  <2>5. CASE pkg.state = "HEADER"
    <3>1. pkg.field = NoField
      BY <1>1, <2>5 DEF PackageSound
    <3> QED
      BY <2>3, <2>4, <3>1, ZenonT(30)
  <2>6. CASE pkg.state # "HEADER"
    <3>1. pkg.field.ptr >= pkg.areas.ptr /\ End(pkg.field) = End(pkg.areas)
      BY <1>1, <1>4, <2>6 DEF PackageSound
    <3>2. Inside(pkg.field, pkg.areas)
      BY <2>2, <3>1 DEF Inside, End
    <3> QED
      BY <2>3, <2>4, <3>2, ZenonT(30)
  <2> QED
    BY <2>5, <2>6, ZenonT(30)
<1>5. ASSUME loop.at = "body"
      PROVE  /\ Inside(rec.whole, pkg.areas)
             /\ rec.whole.ptr + rec.whole.length = pkg.field.ptr
             /\ \A i \in DOMAIN rec.parts :
                   /\ Inside(rec.parts[i], rec.whole)
                   /\ \A j \in 1..(i - 1) : Apart(rec.parts[i], rec.parts[j])
             /\ rec.whole.length =
                    rec.fixed + SumFunctionOnSet(
                                    [i \in DOMAIN rec.parts |-> rec.parts[i].length],
                                    DOMAIN rec.parts)
             /\ loop.section = "component_images" =>
                    Inside(rec.image, VariableField(0, pkg.length))
             /\ rec.descriptor # NoField => Inside(rec.descriptor, rec.parts[3])
  <2>1. RecordSound(rec, loop.section, pkg) /\ InSection(loop.section, pkg.state)
    BY <1>1, <1>5, ZenonT(30) DEF LoopSound
  <2>2. Laid(rec)
    BY <2>1 DEF RecordSound
  <2>3. /\ rec.whole.ptr >= pkg.areas.ptr /\ End(rec.whole) = pkg.field.ptr
        /\ loop.section = "component_images" =>
               /\ rec.descriptor = NoField
               /\ Inside(rec.image, VariableField(0, pkg.length))
        /\ loop.section # "component_images" /\ rec.descriptor # NoField =>
               Inside(rec.descriptor, rec.parts[3])
    BY <2>1 DEF RecordSound
  <2>4. pkg.state \notin {"INIT", "HEADER"}
    BY <2>1 DEF InSection
  <2>5. End(pkg.field) = End(pkg.areas) /\ pkg.field.length >= 0
    BY <1>1, <2>4 DEF PackageSound
  <2>6. rec.whole \in Fields
    BY <2>2 DEF Laid
  <2>7. Inside(rec.whole, pkg.areas)
    BY <1>2, <2>3, <2>5, <2>6 DEF Inside, End, Fields
  <2>8. rec.whole.ptr + rec.whole.length = pkg.field.ptr
    BY <2>3 DEF End
  <2> QED
    BY <2>2, <2>3, <2>7, <2>8, ZenonT(30) DEF Laid
<1> QED
  BY <1>1, <1>4, <1>5, ZenonT(30) DEF PartsInPlace

\* The inductive invariant of the package parser.
LEMMA PackageInvariant == PackageSpec => []PackageInv
<1>1. PackageInit => PackageInv
  BY PackageInitial
<1>2. PackageInv /\ [PackageNext]_pkgVars => PackageInv'
  BY PackageStep
<1> QED
  BY <1>1, <1>2, PTL DEF PackageSpec

\* Whatever lengths, counts and offsets a package has, the parts that the
\* decode functions of firmware_update.c hand out are inside the package and
\* inside each other, without overlap or gap.
THEOREM PackagePartsInPlace == PackageSpec => []PartsInPlace
<1>1. PackageInv => PartsInPlace
  BY PackageInvImplies
<1> QED
  BY <1>1, PackageInvariant, PTL

\* In whatever order an application runs the foreach_pldm_package_ loops, no
\* assert of them fails, and each hands out as many entries as its section
\* announces.
THEOREM PackageEntriesAsAnnounced == PackageSpec => []EntriesAsAnnounced
<1>1. PackageInv => EntriesAsAnnounced
  BY PackageInvImplies
<1> QED
  BY <1>1, PackageInvariant, PTL

=============================================================================
