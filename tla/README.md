# libpldm in TLA+

libpldm encodes and decodes PLDM messages (DMTF DSP0240 and its companions) and
holds the small state machines around them: a firmware update responder, an
instance ID allocator shared between processes, transports, a control
responder, the PDR repository with its entity association tree, and a parser of
firmware packages.  This directory specifies those state machines and the
message codecs in TLA+, checks them with TLC on small instances and proves what
matters most with TLAPS for all instances.

`PROJECT.json` lists the components, the runs, the lines of the source behind
every definition, the hazards and the theorems.

## The system and its parts

| Part | Source | State | Operations | Modules |
|---|---|---|---|---|
| Firmware device (FD) responder | `src/firmware_device/fd.c` | `struct pldm_fd`: update state, the component, one request slot, UA address, two timers | `pldm_fd_handle_msg` (requests and responses), `pldm_fd_progress`, two setters | `FirmwareDevice`, `FirmwareDeviceSilentUA`, `FirmwareUpdate` |
| Instance ID database | `src/requester/instance-id.c` | per context and terminus: `prev`, `allocations`; the file locks | init, destroy, alloc, free | `InstanceId`, `InstanceIdAllocator` |
| Transport core | `src/transport/transport.c` | none of its own | poll, send, recv, `send_recv` | `Transport` |
| AF_MCTP transport, responder cookies | `src/transport/af-mctp.c`, `src/responder.c` | EID/TID map, cookies of requests to answer | map, unmap, send, recv, bind | `AfMctp` |
| Demux transport, send buffer | `src/transport/mctp-demux.c`, `socket.c` | EID/TID map, send buffer size | init, destroy, map, unmap, send, recv | `MctpDemux`, `SocketSndbuf` |
| Control responder | `src/control.c` | table of registered types | setup, add_type, handle_msg | `Control`, `ControlResponder` |
| PDR repository | `src/dsp/pdr.c` | list of records with handles, count and size | add, find, delete, remove, replace | `PdrRepo` |
| Entity association tree | `src/dsp/pdr.c` | tree of entities with instance numbers and container IDs | add, find, copy, delete, conversion to records | `EntityTree` |
| Message buffer | `src/msgbuf/core.h` | a cursor and what remains | init, extract, insert, span, copy, complete | `MsgbufOps`, `Msgbuf` |
| Codecs | `src/dsp/*.c`, `src/oem/**` | none | encode and decode of single messages | `CodecOps`, `BaseCodecs`, `BiosCodecs`, `FruCodecs`, `PlatformCodecs`, `PlatformRecords`, `FirmwareUpdateCodecs`, `FileCodecs`, `OemCodecs`, `Exchange` |
| Firmware package parser | `src/dsp/firmware_update.c` | `struct pldm_package`: what is parsed, the iterator | decode header, three loops, an inner one | `PackageParser` |
| BIOS tables | `src/dsp/bios_table.c` | two counters of handles | encode entries, close, iterate, search, update | `BiosTables` |
| FRU record table | `src/dsp/fru.c` | none | encode a record, search | `FruTable`, `Strings` |
| Auxiliary names of entities | `src/dsp/platform.c` | `struct pldm_entity_auxiliary_names_pdr` | decode, index | `AuxNames`, `Strings` |
| Helpers, bindings | `src/edac.c`, `bcd.c`, `utils.c`, `bindings/` | none | pure functions | not modelled, see the end |

How they interact: an application pairs the instance ID database with a
transport to send requests; the FD and control responders are fed with messages
by the application, which owns the clock, the buffers and the callbacks.  The
responders take no locks and start no threads: what is concurrent is the other
side of the network, the processes sharing the lock database, and time.

The behaviours that are hard to test, with the line where each one bites, are
the `hazards` of `PROJECT.json`.  The important ones are late and repeated
responses after a retry (`fd.c:1020`), cancel and timeout around a verify or an
apply (`fd.c:434`, `fd.c:1447`), a reply that does not fit after the application
was told (`fd.c:590`), two update agents (`fd.c:1324`), and processes that
interleave, fail or die between the `fcntl()` calls of one allocation
(`instance-id.c:151`, `:173`, `:199`), nodes of a tree that are unlinked by name
(`pdr.c:2392`), record handles that are guessed (`pdr.c:1164`), and lengths inside
messages and packages that do not fit each other (`firmware_update.c:787`,
`msgbuf/core.h:497`).

Type invariants (`TypeOK` and its like) are proved and not listed in the runs.

## The firmware device responder

### Model

`FirmwareDevice.tla` has two variables.  `fd` is `struct pldm_fd` field by
field.  `app` is the application behind the callbacks, modelled on the one of
`tests/fuzz/fd/fd-fuzz.cpp`, whose assertions become the flag `app.ok`: they
are the only statement in the repository of what the callbacks may rely on.

Every request handler is an action (`RequestUpdate`, `PassComponentTable`,
`UpdateComponent`, `CancelUpdateComponent`, `CancelUpdate`, `ActivateFirmware`),
so is every response handler (`FwdataResp`, `TransferCompleteResp`,
`VerifyCompleteResp`, `ApplyCompleteResp`, under the filter `MatchesRequest` of
`pldm_fd_handle_resp`), every part of `pldm_fd_progress` (`ProgressDownload`,
`ProgressVerify`, `ProgressApply`, `ProgressOther`, each with the T1 check at its
end) and the two setters.  The update agent, other termini and the network are
unconstrained: any message from any TID at any time.  The application's
callbacks return any result, at once or after being pending, and a call of
`pldm_fd_progress` may take any of `Delays`.  A reply or a request may not fit
the caller's buffer.

What is abstracted:

- Time is kept as ages, the time since a timestamp was taken, saturating above
  every timeout.  The clock does not go backwards, as `firmware_fd.h` demands of
  `now`.  Within one `pldm_fd_progress` it is read before the callback
  (`req_should_send`) and after it (the send time, the T1 check).
- `ua_address` and `ua_address_set` are one field with the value `NoUA`.
- `specific` is a union; `offset` is its download member and meaningful in
  DOWNLOAD only.  The percentages of verify and apply are the application's and
  are passed through.  `update_flags` are passed through too.
- Result codes are named; a transfer, a verify and an apply share the numbers 0
  (success) and 1 (a success of apply only), and so do the names.
- Requests and responses refused without any effect are stuttering steps, and
  the read-only replies of QueryDeviceIdentifiers and GetFirmwareParameters are
  left out.  Of GetStatus the reply is modelled (`AuxState`, `AuxStateStatus`,
  `DownloadPercent`), and `GetStatusDecodes` is what `decode_get_status_resp`
  accepts of it.

`FirmwareUpdate.tla` composes the responder with a network that loses,
duplicates, delays and reorders: `recent` holds the requests an answer may still
come for, `misplaced` records whether data asked for at another offset or for
another component were ever handed to the application.  `Lifetime` is how many
requests late an answer may be.  It must be below `INSTANCE_ID_COUNT`: with 32
instance IDs an answer that is 32 requests late cannot be told from the current
one, and `LifetimeAssumption` says so.

`FirmwareDeviceSilentUA.tla` lets the update agent fall silent for ever at any
moment.

### Runs

| Run | Question | Result |
|---|---|---|
| `firmware_device` | Does the responder keep the callbacks' contract, its session and its request slot in order, whatever arrives, with requests that make progress? | holds, 446,032 states |
| `silent_ua` | Does a silent update agent end in IDLE, a failed operation apart? | holds, 147,896 states |
| `firmware_update` | Do late, lost and repeated answers ever put data in the wrong place? | never, 872,880 states |
| `firmware_update_completes` | Does an update that is left alone come to its end? | yes, 4,733 states |
| `status_after_cancel` | Can the library decode every GetStatus reply it sends? | no, see below |

Bounds.  The responder compares ages only with T1 and T2, so ages up to one
above the larger show every outcome; T2 is below T1 or equal to it in
the instances; T2 above T1 is covered by the proofs only, which assume nothing
about their order.  One image of no bytes and one of 101,
with transfers of 60, show the empty, the whole and the partial last request, and
a percentage that does not come out even.
Two termini are enough because the code compares an address only with the
stored one; symmetry between them is sound because no constant distinguishes
them.  Instance IDs are taken modulo 2 or 3 in place of 32 with `Lifetime` just
below, which is the worst case; the theorem `DataInPlace` covers the real
numbers.  The percentage and the
transfer size are proved for all sizes.

Fairness.  `SilentSpec` assumes that the clock advances and that the application
calls `pldm_fd_progress` again and again with room for the request
(`firmware_fd.h:313`, "could be called periodically by the application") and
that its verify and apply finish some day.  `CooperativeSpec`, a specification
of its own in which the application succeeds and nobody cancels, has weak fairness
of `pldm_fd_progress` and strong fairness of answers: of the requests that are sent and sent again, infinitely
many are answered before the next retry.  Weak fairness would not do, since
every retry supersedes the request before, and less than that no retry protocol
can overcome.

### Disagreements

- `status_after_cancel`.  A cancel or a timeout leaves `req.state` as it was, and
  `pldm_fd_get_aux_state` reports it: in IDLE GetStatus says OPERATION_IN_PROGRESS,
  which `decode_get_status_resp` refuses.
- A slow verify.  T1 is restarted by responses only.  A verify that stays pending
  for longer than T1 is not interrupted, since the request slot is not SENT; but
  the call that finishes it sets the slot to SENT and checks T1 at once: the
  update is cancelled and VerifyComplete never leaves.  No property is violated by
  it: the responder and the application stay in step.
- The exception in `SilentUAEndsUpdate`.  A failed transfer, verify or apply has no
  timeout, although `firmware_fd.h:321` calls T1 the "Amount of time before the FD
  shall exit from update mode if no command is received": without a cancel the
  responder stays in update mode and refuses every RequestUpdate.

### Proofs

`FirmwareDeviceProofs.tla` proves, for all constants that satisfy the
assumptions of `FirmwareDevice` (sizes and times are natural numbers, an image
size is below 2^32, the timeouts lie below `MaxAge`), that `IInv` is inductive,
and from it `TypeOK`, `AppContract`, `NoOrphanedUpdate`, `AssertsHold`,
`RequestFitsState`, `AppInStep`, `SessionIffUpdateMode` (a conjunct of `IInv`), `RequestsMakeProgress`,
`DownloadPercentInRange`, `SessionHasOneUA` and `FailedUntilCancelled`.
`SessionHasOneUA` speaks of the sender of each message (`RequestFrom`,
`ResponseFrom`): without the address check of `pldm_fd_handle_msg` another
terminus could cancel the component, or move the update on, and it would fail.

The safety invariants are not inductive one by one: that a callback's assertion
holds depends on the application and the responder being in step, that they are
in step after a response depends on the request slot belonging to the state, and
so on round; their conjunction is inductive.  `Good(f, a)` states `IInv` of a pair
of records, so that one lemma per shared helper (`TouchT1Good`, `ElapseGood`,
`SetStateFields`, `T1CheckGood`, `SendThenT1CheckStep`...) serves every handler,
and the step theorem has one case per action.

The same module proves `NoMisplacedData` of `FirmwareUpdate` for every number of instance
IDs and every `Lifetime` below it (theorem `DataInPlace`).  The inductive
invariant `UpdateIInv` says that the instance ID of a request counts how many
were used since, so that only the newest can match, and that the newest request
asked for the bytes at the current offset while its answer is awaited.

## The instance ID database

### Model

A context is a `struct pldm_instance_db` with its own open file description of
the lock database.  Contexts see each other only through the kernel's locks, so
`pldm_instance_id_alloc` is split at its `fcntl()` calls: `AllocStart` runs to the
first, `Reserve` takes the shared lock, `Probe` asks whether an exclusive one
would conflict and allocates if not, `ReleaseCfls` gives the lock back and goes
on.  Each call may fail, and `Die` may happen between any two.  In
`pldm_instance_id_free` the unlock is the only step others see; a free that fails
or is refused changes nothing.  Locks are sets of byte offsets
(`tid * PLDM_INST_ID_MAX + iid`), so that two termini could collide if the
arithmetic were wrong.

The loop over the instance IDs is expressed by the distance from `prev`: what is
still to try lies farther from `prev` than what is being tried, and `prev` itself,
at distance 0, is never tried, as in the code.

`alone` and `leaky` are history: whether a call was disturbed by another context,
and whether an unlock has failed.

Not modelled: a context used by two threads at once, or inherited over `fork()`
(both would share one open file description; the API does not offer it), and
freeing an ID of 32 or more.

`InstanceIdAllocator.tla` is the promise: an ID is held by one context at a time,
is handed out only when nobody holds it, and returns by free, destroy or death.

### Runs

| Run | Question | Result |
|---|---|---|
| `instance_id` | Exclusion, no lock left behind, no free ID overlooked, refinement of the allocator, and a return from every alloc, with failures and deaths | holds, 129,411 states |

Three instance IDs let both contexts hold one and compete for the third while
`prev` is any of them; there is no symmetry, which liveness does not allow.  That
the bytes of adjoining termini do not overlap is proved for any number of them.
The fairness is that a process which is inside a call goes on running (`Step`).

Disagreement (the exception in `UndisturbedAllocFindsFree`): the loop stops at `prev`
without trying it.  A context that holds every ID and frees the newest gets -EAGAIN from this and every later call until
it frees another one, although the header says "-EAGAIN if a successive call may
succeed".

### Proofs

`InstanceIdProofs.tla` proves for any sets of contexts and termini and any number
of instance IDs that the database is type correct, `OneHolder`, `LocksMatch`,
`UndisturbedAllocFindsFree`, and that `Spec` implements `InstanceIdAllocator`.
`OneHolder` alone is not inductive: `IInv` adds that whatever a context has
allocated or is probing is locked by it, so that a probe that finds no conflict
proves that nobody else has the ID; that the ID being tried is not one of its own,
so that giving its lock back unlocks no allocation; and that in an undisturbed
call every ID already passed is in use.  The arithmetic of the offsets is one
lemma, `OffsetInjective`, that of the loop two, `DistanceFacts` and `BetweenIsOwn`.

## Sending a request and waiting for its response

`Transport.tla` models `pldm_transport_send_recv_msg` with a step for every call it
makes: the turns of the drain, the send with the first reading of the clock, the
head of the waiting loop, the return of `poll()` with the second reading, and the
receipt.  Around it messages arrive at any time: the response, the response to
an earlier request with the same header, messages that differ from the response
in one field, short ones, and empty ones, which `recv(MSG_PEEK)` reports as length
0 and which are therefore never taken out.  Any call may fail (`faulty` remembers
it), and the transport may be one without `init_pollfd`.

Assumed is that the response to an earlier request arrives, if at all, before
its instance ID is used again; a header carries nothing else to tell them apart.
Time counts from the reading of the clock after the send and stops above the
deadline.  Heap blocks are counted; the caller's pointer is null, live or
dangling.

| Run | Question | Result |
|---|---|---|
| `transport` | Does a call return its own response, not early, without throwing the response away, and does it return at all, in an endless flow of messages? | yes, 231,611 states |

A drain of at most three turns, against two messages in the socket and more that
arrive meanwhile, ends in time, exactly at its bound and above it.  The deadline of two and a half
milliseconds, in half milliseconds, leaves a remainder for the rounding.  The
fairness is that the clock runs and so does the process, where no call fails.

`OwnResponse` carries an exception that the code makes necessary: the loop runs
while `cnt <= N` and the test after it is `cnt == N`, so a drain cut off by its
count goes on to send with old messages in the socket, and one that has emptied
the socket with exactly `N` messages reports TRANSPORT_BUSY.

Disagreement, not covered by a run: `transport.h` promises NULL in
`*pldm_resp_msg` unless the call succeeds; a message freed in the drain or for
not matching leaves its address there.

`TransportProofs.tla` proves `TypeOK`, `OwnResponse`, `NoEarlyTimeout` and
`NoMessageLeaked` for every bound, deadline and resolution of the clock.
`NoMessageLeaked` counts: `RecvMsg` allocates where it returns a message, each
branch that drops one frees it (`Discard`), and over any number of calls exactly
the message of a successful one is left.  `IInv`
adds that after a drain that ended by itself no earlier response is in the
socket, that a message which passes the comparison is a response, and that the
time left to `poll()` reaches the deadline but for less than a millisecond.
`ResponseNotDiscarded` rests on a second invariant, `AwaitInv`: the response is in the
socket only once the request has been sent, so that the drain never meets it, and
whole and with the header that is compared, so that the comparison takes it.

## Responding over AF_MCTP

`AfMctp.tla` models the bound transport: requests are received
(`pldm_transport_af_mctp_recv`, with the search for the TID and the tracking of the
cookie), answered in any order (`pldm_transport_af_mctp_send`, which consumes the cookie before a `sendto()` that may fail), while TIDs are mapped
and unmapped.  Instance ID, type and command are one value, since they are only
compared together.  `requests`, `todo` and `answers` are history: what the
application has received, has yet to answer, and what went where.

The application answers a request at most once and gives up after a failed
send: since the cookie is gone, a second attempt is refused, or takes the cookie
of a repetition of the request.  Memory is not modelled; the cookie of a refused
repetition is never freed.

The run `af_mctp` (143,264 states) has two TIDs, TID 0 among them, one endpoint ID
on two networks and three requests: two that collide and a third after one of
them is answered.

The second half of `TransportProofs.tla` proves the two properties of the run, the type
invariant, and `RequestsFromMapped` (a request is delivered only under a TID that its endpoint is
mapped to, the more specific mapping first) for any constants.  The inductive
invariant `CookieInv` says that a cookie is determined by TID and header, is the copy of one
unanswered request, and that every unanswered request has one; the first part
makes the cookie that `untrack` finds the right one.

## Answering control requests over the demux daemon

`ControlResponder.tla` composes four parts that an application runs in a loop: it
receives a message from the MCTP demux daemon, has `pldm_control_handle_msg` answer
it, and sends the response.

- `SocketSndbuf.tla` is the record of the socket's send buffer over the buffer the
  kernel has.  The kernel halves, doubles and cuts values; its limit may change.
- `MctpDemux.tla` is the transport: init, destroy, the map of endpoint IDs to
  termini, receiving with every way to fail, and sending with the growth of the
  send buffer.
- `Control.tla` is the table of types, and the four commands.  Version and command
  buffers belong to the application; which of them an answer comes from is what the
  model keeps.
- `ControlResponder.tla` is the loop, with types registered and the map changed
  between any two of its steps.

The history variables are `registered`, the last registration of each type,
`lowered`, whether the limit was lowered since the init, and `asked.kept`, whether
the terminus kept its one endpoint since the request came.

The run `control_responder` (608,268 states) checks that the table answers for
exactly what was registered last, up to the number of slots (`TableIsRegistry`),
and that a response goes to who asked and finds its room (`AnswerReachesAsker`).  Two slots
face three types, so that the table fills up and types are registered again in any
slot.  One limit lies above and one below the lengths of the answers, and one answer
is longer than `INT_MAX`.

`ResponderProofs.tla` proves both for any constants, and that the record never
promises more than the kernel has (`SndbufIsThere`).  The invariant of the
table is that the used slots are a prefix of it and that no type has two; that of
the buffer says what the record and the kernel's value are after each step.

Observations:

- `versions_count` is a `uint8_t` in the slot: 257 words are answered for as one.
- TID 0 means that an endpoint is not mapped, and `get_eid` finds an endpoint that is
  not mapped for it.  Two endpoints with one TID are answered at the lower.
- The limit is read once.  When it is lowered later, `setsockopt()` cuts the value
  without an error; when it lies below the size the socket began with, the first
  long message makes the buffer smaller.
- `pldm_transport_mctp_demux_open` keeps its descriptor when `connect()` or `write()`
  fails.

## The message buffer

`MsgbufOps.tla` has the arithmetic of a buffer: a cursor and a signed count of the
bytes that remain, which goes below zero when an access does not fit and ends at
`INTMAX_MIN`.  `Msgbuf.tla` has one action for each function of `core.h` that moves a
cursor, on a read-only buffer over a message and a writable one over memory, in any
order and with results ignored, as the codecs do.  `refused` and `torn` are history:
which buffers have refused an access since they were initialised, and which a failed
copy has left with a count that does not fit the cursor.  Addresses do not wrap.

The run `msgbuf` (470,514 states) has a largest `intmax_t` of 4, so that a few refused
accesses reach the end of the range, and strings with NULs at odd and even places.

- `BufferBounds`: a count that is not negative lies within the buffer, with the
  cursor.
- `CompletionTells`: `pldm_msgbuf_complete` and its like succeed exactly if no access
  was refused, and count what was passed.
- `FirstTerminator`: a string ends with its first terminator, at an even place.

`MemoryProofs.tla` proves the three for messages, memory and accesses of any size
and any `INTMAX_MAX`.  The invariant adds to `BufferBounds` that a buffer counts below
zero exactly if an access was refused since it was initialised.  For
`FirstTerminator`, `strnlen()` and the loop over `memmem()` are searches through the
data; that the loop stops at the first code point of NUL is an induction over the
bytes it has passed (lemmas of `Induction`, see below).

Observation: `pldm__msgbuf_copy` lowers both counts when one of the buffers is too
short, and moves neither cursor: the buffer that had room then counts too little
(`torn`), and it completes without an error.

## The codecs

### Model

A C function that encodes or decodes a message is the sequence of its steps in their
order (`CodecOps.tla`): its checks, the fields with their widths, optional parts,
loops, and how it completes.  The modules `BaseCodecs`, `BiosCodecs`, `FruCodecs`,
`PlatformCodecs`, `PlatformRecords`, `FirmwareUpdateCodecs`, `FileCodecs` and `OemCodecs` hold
one such program for each function, and the pairs of encoders and decoders with the
arguments that are tried.  `Exchange.tla` runs them: a message is encoded into a
buffer that is as large as needed, too small or too large, delivered whole, cut after
any byte or with bytes appended, and decoded.  A byte on the wire knows the field it belongs
to and its place in it, so that a decoder which reads across two fields, or beyond
the message, is found out.  Where the library has a decoder only, `AnyEncode` writes
what the decoder expects.

Values are those the code tests; other fields have values that tell them apart.

`PackageParser.tla` is the parser of firmware packages with its three loops and the
inner one over descriptors, as the macros of `firmware_update.h` make them, for the
four revisions of the header.  The contents of a package are chosen when they are
read.  The application runs the loops in any order and may leave them.

Three more modules are about data with more than one message's worth of structure.

- `BiosTables.tla`: an application encodes string, attribute or value entries one behind
  the other, closes the table with pad bytes and checksum, searches it and updates
  values.  A byte of a table is known by its entry and its place there, so that a walk
  which loses its step is found out.  The iterator and the searches are operators that
  the property evaluates.
- `FruTable.tla`: records are encoded into a table, and `get_fru_record_by_option` is
  asked for every record set, type of record and type of field, with every size of
  memory for what it finds.
- `AuxNames.tla`: the pairs of an ASCII tag and a UTF-16 name of an Entity Auxiliary
  Names PDR, packed into the caller's memory in two passes and found there again by
  the index.  The bytes of a record are any.

### Runs

The run `codecs` (273,168 states) has the five in one instance (`MCCodecs.tla`): a
behaviour is that of an application which uses one of them.

- `CodecsStayInBounds`: no encoder writes beyond its buffer, and no decoder reads beyond
  the message but what `MayReadBeyond` names.
- `RoundTrip`: what is delivered as it was sent is not refused for its length, comes
  out as it went in, and is read completely but for `LeftUnread`; a response's header is its request's.
- `OnlySentValues`: whatever was cut or appended, what is accepted was sent.
- `PartsInPlace`: every part of a package lies inside the part around it, and parts
  do not overlap.
- `EntriesAsAnnounced`: in whatever order the loops run, no assert fails, and a loop
  that ends well has handed out the entries its section announces.
- `BiosTablesRead`: a walk through a closed table comes to the entries that were put
  there, updates of other lengths included, and nothing else; searches find the first
  match, handles are unique, and the checksum is accepted.
- `FruSelected`: a search gives the records and fields asked for, in order, with the
  right counts, within its memory; memory of the table's size is always enough.
- `AuxNamesKept`: an index leads to the tag and the name that the record has under each
  number; names begin at even places.

Messages are cut after every byte, down to the bare header that the transports let
pass; they are lengthened, and buffers are short or long, by up to two bytes (`SLACK`):
one byte distinguishes a check that is off by one, the second a field of two bytes that
is cut in the middle from one that is missing.  What lies beyond a message reads as
success or as something else (`past`), and a decoder's reads there are recorded
(`over`).  Packages have room for two records and a component; bitmaps have 7 or 8 bits,
on either side of a byte's end.  BIOS tables get 24 or 60 bytes, so that entries do not
fit, or that two do with every remainder modulo 4, and handles run out at 2.  A FRU table
of 17 bytes has up to three records without fields, or fewer with some.  Eleven
bytes of names hold three pairs of the shortest kind, and two with NULs at odd
places of a name.

The exceptions are definitions of their own, for the code to be compared with:

- `MayReadBeyond`: what is read from beyond the end of a message.  The fifteen decoders
  in `ReadsCodeFirst` look at the completion code before they look at the length
  (`msg->payload[0]` at base.c:287 and base.c:396 comes before the checks at 292 and 401, and so
  in bios.c, fru.c, platform.c:248, firmware_update.c:1128, host.c and the NVIDIA energy
  sensor).  Of a response without a payload they read one byte that is not there; if it
  happens to be zero the length is then refused, except by
  `decode_set_state_effecter_states_resp`, which accepts it; if it is not, it is taken for the
  code.  They read nothing else there, and from one byte on they stay inside.
  `decode_get_terminus_UID_resp` checks only that the response is not too long, and reads
  the whole of it whatever has come.  The responses of firmware_update.c that begin with a
  test of `!payload_length`, and those that ask `pldm_msg_has_error`, need no
  exception.
- `WantsWholeResponse`: responses which the encoder ends after an error code, and the
  decoder refuses then.
- `WantsData`: decoders that refuse a part without data, which the encoder makes.
- `LeftUnread`: the fields a decoder leaves to its caller: the states of a state sensor
  PDR, the bitmap of a cancelled update that has none, and every version of a
  GetPLDMVersion response but the first (the encoder copies `version_size` bytes, and
  `pldm_control_get_version` gives it all versions and the checksum).
- `AcceptsLess`: `decode_get_firmware_parameters_resp` accepts the message without the table
  it announces, and to `decode_pldm_file_df_close_resp` an empty response is success.
- `Disagreement`: the last part of a multipart transfer without data has no checksum
  for the encoder, but for the decoder; the OEM classification name of a file
  descriptor depends on its length for the one and on the classification for the
  other; a descriptor without data; years from 16000 on; and
  `encode_new_file_with_metadata_resp` compares a completion code in the buffer which
  nobody has stored.
- `NoImagesAnnounced`: the loop over component images does not look at a count of zero
  and decodes one image.

Further observations on the parser: the payload checksum is not verified in builds for
LIBPLDM_OEM_NVIDIA; a
descriptor is consumed from its record, so that its loop runs once; the inner loop
shares `rc` with the outer; after an error in a record the iterator has already gone
past it; a package that was decoded once is refused a second time.

On the tables: a BIOS table of less than twelve bytes is closed with a checksum which
`pldm_bios_table_checksum` refuses; a FRU table of less than eight bytes, which one record
without fields makes, is not searched; `get_fru_record_by_option` looks at the room for
a field before it knows whether the field is asked for.  The index of auxiliary names
is refused when the caller's memory is larger than the names:
`pldm_msgbuf_complete_consumed` is over all of it.

### Proofs

`PackageParserProofs.tla` proves `PartsInPlace` and `EntriesAsAnnounced` for packages of
any length with any lengths, counts and offsets in them, and any `SIZE_T_MAX` and
`INTMAX_MAX`; it is assumed that the length of package data and that of a manifest
add up to no more than `INTMAX_MAX`, which 16 and 32 bits do.  The inductive invariant
`PackageInv` has three parts.  `PackageSound`: the areas lie behind the version string
and inside the package, and what is left to be read of them is always their end.
`RecordSound`: the parts of a record that the application has are laid out in it
without overlap or gap, and the record ends where what is left begins; its
descriptors are read from the third part.  `LoopSound`: the state of the package is the
one of the loop's section, and in front of an entry those given and those left add
up to those announced, in the body to one more.  A lemma for each decode function
says what it makes of a sound package, whichever of its accesses is refused; one for
each action puts it in the loop.

`MemoryProofs.tla`, which has the proofs about message buffers, proves `BiosTablesRead`
for buffers, strings, values and numbers of entries of any size.  A table has no count
and no marks between its entries, so the invariant `TableIs` says that there are
places where they begin (`Laid`): each is as many bytes behind the one before as the
entry there is long, the entry's bytes are there, and the last place is the end; a
closed table has pad bytes and checksum behind such bytes.  No entry has less than four bytes
(`SoundEntry`), and pad bytes and checksum have four to seven: so the iterator, which
stops at seven, stops behind the last entry and not before (`ClosedReads`).  From there
`WalkIs` follows by induction from the last place to the first, and `CopiedEntriesIs`, that
the copy with an entry exchanged is laid out again, from the first to the last.  Handles
are unique since the invariant keeps them in order and below the counter.

`ResponderProofs.tla` proves `FruSelected` for any number of records of up to 255 fields,
and for lengths of up to 255 bytes.  The invariant `FruInv` says only that the table is the
records behind each other; the work is in the two nested loops of
`get_fru_record_by_option`.  `RecordsLaid` and `FieldsLaid` say where each record and each
field lies, and `FieldGood` and `RecordGood` what the loops have after so many turns:
where they are, how many fields they took, and that what was copied is what the
records and fields up to there contribute.  With as much room as the table takes,
no more was copied than read at every turn, so no field is refused.  A record takes at
least five bytes, which is why the test behind the last field (`NoRecordAt`) ends the
loop behind the last record and not before (`LastRecord`).

`PdrRepoProofs.tla` proves `AuxNamesKept` for records of any bytes and memory of any size.
The invariant `AuxInv` says that memory which was decoded into has the names in the
order of the record and behind them the tags (`IsPacked`).  That the index finds the same
strings again rests on what spanning a string does: it ends at the first terminator,
for a name at the first that is an even number of bytes behind its beginning, and so
does a copy of it anywhere else (`SpanAsciiCopy`, `SpanUtf16Copy`).  A name takes an even
number of bytes, so each name in the memory begins at an even place, and the tags begin
where the last name ends.

## The PDR repository

### Model

`PdrRepo.tla` has the linked list as a sequence, with `record_count` and `size`
beside it.  Every function of `pdr.c` that changes the list is an action: additions
with a given and with a computed handle, deletion by sensor, effecter, FRU record
set and handle, removal of a terminus and of all remote records with the
numbering that follows, and the three functions for contained entities, which
replace an association by a copy or insert a new one.  Where the code searches,
the action says what the search finds: a record too short for the structure it is
decoded as ends the search with an error (`FoundAt`), handles are looked up from the
head of the list (`FirstWithHandle`), and so is a record's predecessor (`PrevIndex`).

Of the data of a record the model keeps the handle in the header, one ID, the
validity of a locator and the contained entities; sizes are those of the packed
structures.  Memory that nobody has written is any value: `terminus_handle` of
copied and new associations, and the last place of an association from which an
entity was taken that it listed twice.

Handles clash, and entities are listed twice.  Callers may give any handle;
`pldm_pdr_add` computes the one after the last record's and
`pldm_entity_association_pdr_create_new` the one after its neighbour's, and nobody asks
who has it; an entity is added to an association that has it already.  The properties
hold under all of this, and say what it costs:

- `TotalsMatch`: count and size are never less than what is in the list.  A step from a
  list without a clash (`Clash`) changes them by what it does to the list.  After a clash
  a removal may take out more records than it counts.
- `ChildrenKnown`: memory that nobody wrote gets into an association only when an entity
  is taken out of one that lists an entity twice (`ListsTwice`), and stays there.
- `HandlesKeepRecords`: under a handle that was in use a record is found that had it
  before, unless `create_new` took the handle for the record it inserted, or records were
  numbered anew.
- `HeadersAgree` has no exception but records added without a place for the handle.

Two things are left out.  A handle passed to
`pldm_entity_association_pdr_add_contained_entity_to_remote_pdr` finds an association: a
state sensor or effecter found under it would be rewritten as if it were one, its bytes
shifted, with handle, type, owner and sizes as for an association.  The removal of an
entity, which falls back on whatever handle the caller passed, does meet such records
(`CountsOne`).  And callers say that a record is remote when it is another terminus's.

### Runs

| Run | Question | Result |
|---|---|---|
| `pdr_repo` | Do count, size, headers and contents stay in step with the list, do handles keep their records, and what is lost when handles clash or entities repeat?  Does the tree of the next section stay whole, are its entities found, and are they all converted? | as stated above, 218,085 states |

Three records are the least with one before, one at and one after the place where
something is inserted or removed, and for a removal to lose one between two of the same
handle.  `MaxRecords` bounds `record_count`, which never is less than the records there
are; it is at most the largest handle, so that the records can be numbered anew.
Handles end at 3, so that a computed handle overflows, and headers are compared modulo 3
in place of 2^16, so that handle 3 is not found by deletion.  This terminus adds FRU
record sets and sensors, the other one effecters, locators and associations
(`AddedTypes`); local associations come from `create_new`.  One association at a time has
two entities (`MaxExtended`).  Only sensors are added without a place for the handle.
Entities are interchangeable.

Disagreements:

- Count and size are not those of the list once handles have clashed.
  `pldm_pdr_get_prev_record` looks for the handle and not for the record.  When a local
  and a remote record have the same handle, deleting the later one unlinks the earlier
  one and what is between them, frees only the later one, and counts one.
- `terminus_handle` of the record that replaces an association, or is made by
  `pldm_entity_association_pdr_create_new`, is never written: what
  `pldm_pdr_get_terminus_handle` returns and what
  `pldm_pdr_remove_pdrs_by_terminus_handle` removes are then arbitrary.
- `pldm_pdr_delete_by_record_handle` reads the handle as `uint16_t`.
- `pldm_entity_association_pdr_remove_contained_entity` falls back on the handle the
  caller passed when no association has the entity, and removes that association
  if it has one entity, whichever it is.

### Proofs

`PdrRepoProofs.tla` proves `TotalsMatch`, `HeadersAgree`, `ChildrenKnown`,
`HandlesKeepRecords` and `TypeOK` of `Spec` for any constants.  Each action is shown to
be of one of four kinds (`NextKind`): it adds a record (`Adds`), drops one and those
before it back to the first of its handle (`Drops`), exchanges one for a record of the
same handle, owner, type and ID (`Exchanges`), or keeps some and numbers them anew
(`Renumbers`).  Each kind preserves the inductive invariant `IInv` and does what the
properties say of a step.  That count and size are at least those of the list is part of
`IInv`: the count bounds the numbers given anew, so that no handle exceeds 32 bits.
Without a clash the first record of a handle is the record itself, and one record is
dropped (`CutTotal`).  Of different entities, all known, a removal copies all but one and
leaves no unwritten room (`LeftOutEntities`).  A record added at the end is never the
first of a handle in use, and one inserted is `create_new`'s.  The size in `TotalsMatch` is
a sum over the list: each kind of step changes one term, adds one, takes some out or
numbers the terms anew, and `Induction` says what that does to a sum.

## The entity association tree

`EntityTree.tla` keeps the tree as the code does, in nodes with a pointer to the first
child and one to the next sibling, so that a node can be lost or freed twice.  Adding
(as the topmost entry, as a first child, or after the last sibling of its type),
deleting, destroying and copying are actions; a copy may run out of memory at any
node.  Searches and the conversion to association records change nothing in the
tree; they are operators, evaluated in every state by the properties.

`style` is how the application uses the tree: it leaves numbers and container IDs to
the tree (`"computed"`), gives them itself (`"given"`), adds entities of another
terminus (`"remote"`), or builds a larger tree depth first for the conversion
(`"built"`).  An application that gives numbers does not mix them with computed ones
among the same siblings, and gives each group of children an ID of its own.

The tree shares the run `pdr_repo` with the repository, with which it has no state in
common: a behaviour of `MCPdrRepo.tla` is that of an application which uses one of them.

- `TreeIntact`: what is allocated is exactly what the root leads to, each node once;
  children know their parent's entity; and no two groups of children share a
  container ID.
- `EntitiesFound`: each entity is found by its name here, and one of another terminus
  by its name there.  Excepted is `Misled`: the search goes on after a match with the
  local container ID in place of the remote one, and may find another entity.
- `TreeWritten`: a conversion that succeeds writes one record for each kind of
  association of each node of a wanted type, under new and ascending handles.
  Excepted is `HandleForgotten`: when no handle is given and the first node written has
  logical children only, `entity_association_pdr_add_entry` returns the handle it was
  given and not the one that was computed; counting then begins at 1, and a later
  record may get a handle that exists (the comment at `pdr.c:1160` says "new record
  handle will be returned").

Trees of four nodes for changes, three where numbers or entities come from elsewhere,
and six for conversions have every shape in which a node has siblings before and
after it and children of its own; three numbers and six handles run out.

Observations: numbers that are given and computed among the same siblings may be
equal (2 and 1 given, the next computed is 2); deleting such an entity unlinks one node
and frees another with its siblings.  Topmost entries cannot be deleted.  Given
container IDs are not remembered by `last_used_container_id`.  A conversion also takes
in the later siblings of the node it begins with, and one without a handle that begins
with a node without children is refused with -EINVAL.
`pldm_entity_association_tree_copy_root` does not report a copy that failed.

Nothing about the tree is proved: its operators follow pointers recursively, with
RECURSIVE operators, which the proof system's SMT backend does not take.

## Induction

What a search, a walk or a sum computes for data of any length needs induction.  The
library's induction theorems take the property as an operator, which the provers do
not instantiate; `Induction.tla` states what is needed of sets and functions instead.
A set of numbers that is not empty has a least element (`Least`; `Greatest` and
`LeastMeasure` are like it), and one with 0 and all successors has every number
(`SetInduction`).  A definition by recursion on a measure defines a function
(`Recursion`), from which follows what the sums of the community modules are:
`SumEmpty`, `SumRemove`, `SumSplit` and `SumReindex` are about `SumFunctionOnSet` of any
finite set of natural numbers.

A loop is a function of the number of its turns.  `Passing` says that it goes through
the sets G[0], G[1], ... if each turn leads from one to the next, which is how a loop
invariant is proved, and `SameSteps` that two loops with the same start and the same
turns are the same.  `JoinedIs` says where the strings lie that `Joined` (`Strings.tla`)
writes behind each other, and `JoinedAppend` what one string more does.

## What is only model-checked

- The liveness properties (`SilentUAEndsUpdate`, `UpdateCompletes`, `AllocReturns`,
  `CallReturns`): TLAPS does not prove liveness under fairness.
- `CodecsStayInBounds`, `RoundTrip` and `OnlySentValues`: they run the programs of several
  hundred functions, one by one, and `Exchange` is a RECURSIVE interpreter of them.
- `TreeIntact`, `EntitiesFound` and `TreeWritten`: the walks over the tree follow pointers
  that other steps change, with RECURSIVE operators, and no prover takes those.

## Not modelled

- Functions of `bios_table.c` that copy one field out of an entry.
- Checksums (`edac.c`): what a table-driven CRC computes is an induction over the data.
- Printing of versions, BCD and character checks (`utils.c`, `bcd.c`).
- The scripted transport of the unit tests, and the tools.
- The C++ wrappers, which hold no state of their own, and the build's environment.
- Memory that runs out, but for copies of the tree, and addresses that wrap.
- Threads: the library has no locks, and its documentation promises nothing to a
  caller that shares one of its objects between threads.
