# A TLA+ verification of the AWS Payment Cryptography HSM proxy

The program is a TCP proxy. Payment hosts that used to talk to a Thales
payShield HSM connect to it and send the HSM's host commands; the proxy answers
them with calls of AWS Payment Cryptography (APC), and in discovery mode passes
commands it does not know on to a real HSM. Everything below refers to the
sources under `src/src/`.

## 1. Inventory

| Component | State | Operations | Interacts with | What makes it correct |
|---|---|---|---|---|
| Listener and connection tasks (`server.rs`) | semaphore of 1024 permits; per connection `buf`, the program position of its task | accept, TLS accept with timeout, read with optional idle timeout, cap check, parse loop, dispatch, write, drain | handlers (await), forward leg (await), discovery log (two locks), the kernel's backlog | permits are conserved on every way out; frames are answered in order, once, whatever the segmentation; the cap closes only what can never parse; buffers stay bounded; backlog is served |
| Discovery log (`server.rs`) | `seen`, `BufWriter`, append-mode file | `record` | all connection tasks at once | a code is written at most once per run, and lost only if a full buffer refuses it |
| Framing (`protocol/thales.rs`, `protocol/mod.rs`) | none | `parse`, `frame_response`, `frame_error`, `response_code`, `is_response_complete` | server, HSM client, probe | parse and frame are inverse; a frame is consumed whole |
| Forward leg and HSM client (`forward.rs`, `hsm_client.rs`) | one TCP or TLS connection per exchange, `resp` | connect, handshake, write, read until complete, all timed | the backend HSM | no byte of one transaction in another; every exchange ends |
| Key map (`key_map.rs`) | `labels`, `kcv_index` | `scan_apc` (paged, once at startup), `resolve`, `resolve_descriptor` | APC control plane; every handler | a wrapped key only ever resolves to an APC key with the same usage, algorithm and check value; the choice among duplicates does not depend on paging |
| Command handlers (`handlers/`, 23 modules for payShield commands) | none; `AppState` is shared and immutable | parse fields, resolve keys, map formats, one or two APC calls, map the outcome to an error code | key map, APC data plane | a result is released only when what it depends on was verified; error codes tell the truth about what failed |
| Registry, stubs, vendor seam (`handlers/mod.rs`, `noop.rs`, `vendor.rs`) | table from command code to handler | register (a later entry overwrites), get | server | a stub never shadows a real handler |
| `--verify-only` (`verify.rs`, `hsm_probe.rs`, `main.rs`) | report, cache `per_arn_checked`, `hsm` until the HSM is given up | credentials, scan, lookup per mapping, BU probe per label and key type, file checks; then the server is started | APC control plane, HSM through the forward leg, files, `server::run_with` | a passing report means that the mapped keys are usable and, if the HSM was asked, that they are the HSM's; every complaint has a cause; it ends whatever the HSM does |
| Configuration, errors, grounding metadata (`config.rs`, `error.rs`, `handlers/grounding.rs`) | none | deserialisation, code table, documentation metadata | all | the choices of the configuration and the error table are part of the models; the rest has no behaviour |

What is hard here: connection tasks interleave with each other, with the accept
loop and with the two locks of the discovery log; hosts pipeline and cut frames
at will; handlers and forwards are awaits during which anything else may happen;
APC and the HSM may fail, be slow or close at any point of a two-call command;
the process may be restarted while its log file lives on. Verification looks at
keys and files that operators may change before the server uses them, and at
replies that may be cut or meant for somebody else.

## 2. Plan

Modules are written in this order, the behaviour that every command depends on
first. A module below another extends it unless the text says otherwise.

| Order | Module | State |
|---|---|---|
| 1 | `HostStream` -> `HostSession` (abstract) and `Proxy` -> `MCProxy`, `ProxyProofs` | done |
| 2 | `ForwardLeg` -> `ForwardLegProofs` | done |
| 3 | `Apc` (external) -> `Handlers` -> `HandlersProofs` | done |
| 4 | `Handlers` -> `MacHandlers`, `DataHandlers` -> `MCMessageHandlers`, `MessageProofs`; `Handlers` -> `PinHandlers`, `CardHandlers` -> `MCCardholder`, `CardholderProofs` (both proof modules also extend `HandlersProofs`) | done |
| 5 | `KeyMap` -> `MCKeyMap`, `KeyMapProofs` | done |
| 6 | `ThalesFraming` -> `FramingProofs`: frames over bytes, the 16-bit length wrapped as in the code | done |
| 7 | `ThalesFraming`, `Registry` -> `Verify` -> `MCVerify`, `VerifyProofs` (which also extends `FramingProofs`) | done |

Abstract specifications: `HostSession` is what a host may see of the server, and
`Proxy` is shown to implement it (checked by TLC, proved in `ProxyProofs`). The
contracts of `ForwardLeg` and of `Verify` are stated as invariants, since they
are about which bytes reach whom and what a report means, not about an order of
steps.

`Proxy` and `ForwardLeg` are composed by assumption and guarantee: `Proxy` takes a
forward to be an await that ends with a response for the task that called it, with
no bytes at all or with an error, and `ForwardLeg` shows for any number of callers
that an exchange ends and returns bytes of its own connection only. Their product
would add nothing but interleavings of tasks that share no state. `Verify` uses
the forward leg in the same way: its HSM may return everything that an exchange of
`ForwardLeg` may return, down to the bytes.

## 3. Modules and the code they model

**`HostStream`, `HostSession`.** What hosts send: a sequence of frames per
connection, each with a command code, an end position in the byte stream and
whether `parse` accepts it. `HostSession` is the promise: connections are opened
within the limit, frames are served in order, once, by their routing, and
nothing is served past a malformed frame. Served means answered, or, for a
forwarded frame, passed over in silence.

**`Proxy`** (`server.rs`). One variable per piece of shared state (`permits`, the
accept loop's position, `seen`, the `BufWriter`'s unflushed codes with room for
`LogRoom`, lines in the file) and per connection the program position of its task,
bytes received and the frame at the head of `buf`. Each action is the code between
two awaits or two locks: `AcquirePermit`, `AcceptOk`, `AcceptError`,
`BackoffElapsed`, `HandshakeOk/Fails`, `Read` (with the cap check behind it),
`ReadEnds`, `ReadIdle`, `ParseNone`, three ways to dispatch, `LogRecord`,
`HandlerReturns`, `HandlerPanics`, `ForwardReturns`, `WriteOk` (with the drain),
`WriteFails`. A dropped permit is released in the same step as the task ends.
`LogRecord` is `writeln!` and `flush` with their errors ignored: a full
`BufWriter` is flushed first, and if that fails the record is discarded while its
code stays in `seen` (`refused` remembers it). `ForwardReturns` has the three
outcomes of `exchange`: bytes, an error (answered 41), and Ok of no bytes when the
HSM closes at once (`silence`); of the last `WriteOk` writes nothing and drains
the frame. `Restart` kills the process; only the log file survives. `cfg` is the
configuration: TLS, idle timeout, discovery mode, log file.

**`ForwardLeg`** (`forward.rs`, `hsm_client.rs`). Exchanges run concurrently,
each with a connection of its own; `HsmSends` and `HsmCloses` are the
environment. `AwaitFails` is a timer or an I/O error at any await.

**`Apc`** is the service, and external: cryptography is symbolic. A datum
remembers its key, algorithm or format, what it was made of and its width in hex
digits, so that "verifies" means "was made in the same way". What the service
rejects is what the handlers' comments and grounding entries record (widths that
`verify_mac` takes, bare digits in offsets, Option B). The derivations of UnionPay
and EMV2000 are one (`Derivation`), as the cross-check in `unionpay_arqc.rs:128-132`
and `release-notes-v0.5.0.md` record: each accepts what was made under the other,
cryptograms and script MACs alike.

**`Handlers`** is the control flow that all handlers share: everything up to the
first await is one step (`Receive`), every call of the service is one
(`CallSucceeds`, `CallMismatches`, `CallFails`), and between two of them an
operator may retarget an alias (`Retarget`), since `key_map` maps to aliases
that the service resolves at each call. `Respond` puts the answer in the hands of
hosts, who may use it in any later command. A handler is its *plan*: the list of
its refusals in the order of the code, then its calls.

**`MacHandlers`, `PinHandlers`, `CardHandlers`, `DataHandlers`** give the plan
of each command, named after the source's functions (`parse_my`,
`message_for_apc`, `build_session_key`, ...). The end of each module has the
commands that hosts send and the properties. `wire = FALSE` stands for every
frame that the field reader refuses; fields on which the code decides (modes,
sizes, algorithms, schemes, flags, formats) hold the character of the wire.
`MacFrame`, `DataFrame`, `PinFrame` and `CardFrame` say what any frame of the
family can hold, whichever fields a host combines: fields of the right kind, a MAC
in the middle of a frame as wide as its field, a counter filled up with zeros, a
reference value of the kind that the command reads. The proofs are about all such
frames; the finite sets of commands that TLC enumerates (`PlainRequests`,
`ScriptRequests`, ...) are some of them, which the `ASSUME`s of
`MCMessageHandlers` and `MCCardholder` evaluate.

**`KeyMap`** (`key_map.rs`, the key parsing of `common.rs`). The scan is a
sequence of pages (`ListPage`), any of which may fail (`ScanFails`), while
operators create, enable, disable and delete keys; afterwards `Resolve` answers
the key fields of commands. `Create` also stands for restoring a key. Usages are
the codes of the service, except that the code's name for K0
(`TR31_K0_KEY_BLOCK_PROTECTION_KEY`, `key_map.rs:270`) is none of the service's, so
that a block of usage K0 always misses (`NotK0`).

**`ThalesFraming`** (`protocol/thales.rs`). `parse`, `frame_response`,
`frame_error`, `response_code` and `is_response_complete` on sequences of bytes.
`to_be_bytes` keeps the cast `as u16`, so that a body that is too long gets the
length that the code gives it.

**`Registry`** (`handlers/mod.rs`, `handlers/thales/mod.rs`, `noop.rs`). The
vendor's handlers with their codes, in the order of registration, and the stub
after them; `for_module` gives a code to the last handler that claims it.

**`Verify`** (`verify.rs`, `hsm_probe.rs`, `main.rs`, `server.rs` up to the
listener). `pc` is the stage of `verify::run`; `line` and `errors`, `warnings`
are the report. Each await is an action: `Credentials`, `Scan` (with
`hsm_probe_target` behind it, which reads the files of the forward leg),
`FetchKey` (a `get_key`) or `ReuseKey` (the cache `per_arn_checked`), one
`ProbeAnswered` or `ProbeUnreachable` per exchange with the HSM, `CheckFiles`,
and then `Start` or `StartRefused` of the server. The mappings are a hash map in
the code, so labels are taken in any order. Replies are bytes and `parse_bv`
reads them through `ThalesFraming`: the HSM's own reply, possibly with bytes
after it, every proper prefix of it (`exchange` returns what it has when the
peer closes), a refusal of the command, and replies to other clients or
commands. `ChangeKey` and `ChangeFile` are operators at any moment, and
`touched` remembers what they changed after it was looked at; `disturbed`
remembers labels that had a reply other than their own. The properties name
exactly these as the limits of what a report can promise.

## 4. Runs

| Run | Shows | Distinct states |
|---|---|---|
| `proxy_safety` | permits, cap, buffers, log and `HostSession` in every interleaving of three hosts with two permits over two lives | 2.7 M |
| `proxy_liveness` | received frames are dealt with; with an idle timeout the backlog is served although one of two permits may be held for ever | 115 k |
| `proxy_malformed` (violation) | a short malformed frame is neither answered nor closed | - |
| `forward` | no byte crosses over, the cap spares what fits, every exchange ends although the HSM owes nothing | 182 k |
| `message_commands` | verifying commands accept exactly their twins' MACs; ME, MO and MY re-MAC what they verified; issuer scripts get the card's MAC; decryption inverts encryption over chains of commands, M4 releases no clear text | 1.25 M |
| `mac_cmac` (violation) | MY answers 41 to a genuine full-size CMAC | - |
| `cardholder_commands` | a PIN is accepted exactly if it is right; a change releases the value of the new PIN, and only after the old one was right; a translated block holds the same PIN; cryptograms are accepted exactly if genuine, an ARPC answers the card, CVVs round-trip | 4.0 M |
| `card_padding` (violation) | JS pads what the host has padded | - |
| `key_map_scan` | no block is routed to another key, also when keys change after the scan; the index is complete and does not depend on paging | 335 k |
| `key_map_label` (violation) | a wrapped block that the index cannot hold (unknown usage, triple length) is not reached by its label | - |
| `verify` | a passing report means usable keys, the HSM's keys if it was asked, and a server that is refused only for what verification leaves to it; complaints have causes; no stub takes a handler's command; verification ends | 764 k |
| `verify_vendor` (violation) | a vendor that the server refuses passes verification | - |

Each violation is a finding of `PROJECT.json` (two for `key_map_label`), with the
line of the repository that says otherwise.

**Keys in the properties of handlers.** `trace` remembers what every identifier
named at each call. A property says of each key field of a command which role
the key that it named at the call has; a handler that mixes up two fields
breaks it although the calls that it makes are consistent.

**Bounds.** In `Proxy` frames are 2 to 4 bytes, a read returns up to 3, and the
cap is the smallest that the headroom assumption allows, so that frames are cut,
several arrive at once, the cap is reached exactly and overrun by a malformed
frame. Three hosts and two permits make one wait; two lives are enough for a log
that outlives the process; two unhandled codes and a `BufWriter` with room for one
record (`LogRoom`) make a record wait, and the next one be refused. In
`proxy_liveness` one of the three hosts is `Greedy`. In `ForwardLeg` two
exchanges, frame lengths below, at and above the cap, and an HSM that sends more
than a frame. The handler runs have one connection: handlers share nothing but the
immutable key map, so a second connection only interleaves independent steps, and
the theorems about handlers are for any number. Two keys, an alias, a fixed
identifier and an unmapped one make every wrong combination of keys; the hosts
keep one or two answers besides the data from outside (`MaxHeld`), which is what a
command needs at most from earlier ones. PIN blocks of DUKPT terminals come in a
format that CK reads and in one that it does not; `KW` is sent with a scheme of
each kind, with an unsupported and an unknown one. `KeyMap` has four keys: two
with one check value, one of usage K0, one of triple length, and a labelled block
of unknown usage. `Verify` has five configurations: without an HSM, with a plain
one, with mutual TLS on both legs, with half a pair of client files, and of
another vendor. A configuration maps up to three labels, some of which share an
identifier; a label is a key block (check value of 16 digits), a variant form
whose type is the second candidate (a blank after the value), one of a type that
cannot be named, or a plain name. Keys are usable, of another value with the same
first three digits, disabled, pending or missing; at most one file is damaged; and
operators make one change (`MaxChanges`), which is enough to fall between any
lookup and any use. The proofs are for any number of changes, labels and files.

`CHECK_DEADLOCK FALSE` is set where the system may stop: all exchanges ended,
all streams served.

**Fairness.** `FairTask` asks for what the runtime or a timer of the proxy does:
tokio polls ready tasks; handshake, idle read and every await of an exchange are
timed. Of the outside it is assumed that calls of the service return (the SDK
has its own timeouts) and that `accept` does not fail for ever (strong fairness,
since a failed accept gives the permit back). Nothing times `write_all`, and
`read_timeout_secs` does not interrupt a host that keeps sending
(`threat-model.md:152-154`), so a host may hold its permit for ever. `Greedy` is
the set of such hosts: of them neither `WriteOk` nor `ReadIdle` is fair
(`PatientHost` is for the others only). `BacklogIsAccepted` is about fewer greedy
hosts than permits; with as many it does not hold of the code, which the threat model
states as a limit.
`Read` is not fair: a host need not send anything. `Verify` asks for weak
fairness of `Step`, the steps of `verify::run` itself: it is sequential, and each
of its awaits is a call of the SDK or an exchange, which have timeouts; the
operators and the start of the server are not fair. `DeliverySpec`, used for the
violation only, adds that hosts send their streams.

## 5. Proofs

All theorems are about every value of the constants.

**`ProxyProofs`** (from `HeadroomAssumption`: the longest frame plus a chunk
exceeds the cap by at most one). The invariant `IInv` adds to the stated
properties where each task is in its stream (`Position`: a task that awaits a
read has no complete frame, one that serves a frame still has it), what it has
answered (`Answered`), why it was capped and who holds a log record
(`LogOf`: an unclaimed code has no record under way, a claimed one at most one).
Without `Position` the cap property is not inductive, without `LogOf` a second
record could be under way. `LogLosesOnlyOverflow` says what the log may lose: a
claimed code is in the file, in the buffer or in a task's hands unless a full
buffer refused it, and none is refused before more codes than the buffer has room
for were claimed. `PermitStep` counts live tasks through the
cardinality of a set that gains or loses one element. `Refinement` maps each step
to a step of `HostSession` or a stutter.

**`ForwardLegProofs`**. `NoCrossTalk` needs that a connection belongs to one
exchange for ever (`Exclusive`), that nothing travels on one on which nothing
was asked (`NoResidue`) and that what travels answers what was asked (`Own`).

**`HandlersProofs`**. `InStep` says that the trace of a task at call i has i - 1
entries and that a task without a command has none.

The properties of the families relate an answer to the keys that each call was
made with, and no part of the state says directly how an answer came about. The
inductive invariant `HInv(D)` therefore *explains* every answer by its history:
there is a chain of data, one per call, in which each entry is what the service
returns for the call, under the keys that the trace records, from the entry before
(`Chain`), and the code is what the plan or the last result of that chain gives
(`Explained`). Commands are made of data that hosts hold, and answers become data
that they hold, so the invariant is about a set `D` of data that hosts and handlers
do not leave (`Serves`); a family has it if every answer to a command made of `D`
is in `D` (`Closes`). `NextExplained` is proved once, for any plans, and each
property of a family is then a fact about one plan: which guard lets the calls be
made (`Refuse2`, `RefusalsJoin`, ...) and what the service returns for them.
`TypesAreKept` is a part of the invariant. `LiteralsAssumption` (in `Apc`) says that
the string literals of the tables are strings, which TLC evaluates and the provers
do not know.

**`MessageProofs`** proves the properties of the run `message_commands`, and
**`CardholderProofs`** those of `cardholder_commands`: which MACs,
cryptograms, card values and PINs pass, and what translations and changes release,
for every number of connections, every key map, every moment at which
an alias is retargeted, every history of earlier commands and every field of the
frames. Their hypotheses are `MessageTraffic` and `CardholderTraffic`: hosts send
frames that the family can hold (section 3), and the data in those whose
meaning depends on earlier answers is data that they were given. The sets of data:

- `MessageData`: a text is wholly garbled or not at all. Without it a text that
  contains the symbol of garbage could be taken for the result of a wrong key, a
  coincidence that the symbolic service leaves out.
- `CardholderData`: a reference value is of a PIN, nobody's PIN is the symbol of
  garbage, and a PVV has four digits, as in the service.

Both are closed under the commands (`MacCloses`, `DataCloses`, `PinCloses`,
`CardCloses`), so only what comes from outside is assumed. `CardFrame` leaves out
data that the host has padded for JS, which is the finding of `card_padding`.
What a host means by a command is stated apart from the handlers: `BrandOf` is a
table of its own, after the layouts of the manual that head the handlers, and
`HostFormat` is the format in which a terminal made its block.
`VerifiesItsTwin`, `ArqcAcceptedIfGenuine` and `PinAcceptedIfRight` keep the three
exceptions of section 7.

The proofs corrected the statements in three places where TLC's commands were
too few to tell: the twin of a command other than GW keeps its mode (`Twin`), a
host has no use for empty data either (`Useful`), and of session data only the
filling in front is left out, not every field of zeros (`Unfilled`).

**`KeyMapProofs`**. `IndexIsRight` and `ScanMissesNothing` rest on: an entry of
the index names a listed key with exactly the attributes it is filed under, and
while the scan runs, every listed key that has been enabled ever since it began is
filed (`Filed`, `Indexed`, `Collected`). They assume of the constants that no key
of the service has the usage or algorithm "none" that an unknown header maps to,
nor the name that the code has for K0, and that names are ordered as the naturals
are, so that `sort` has a first element (`SmallestIsLeast`).

`KeyMapTypes` is a part of the same invariant.

**`FramingProofs`**. `ResponseRoundTrip`: `parse` reads back every framed response
whose body is shorter than 65536 bytes, whatever follows it in the buffer, and
consumes exactly the frame. The hypothesis is needed: beyond it the length wraps.
`CutDoesNotParse` is the bridge to `exchange`, which may return an incomplete
reply.

**`VerifyProofs`** (from `ConfigAssumption`: mappings and files of the
configurations are what the code distinguishes; `CheckValueAssumption`: a usable
key of the service has 6 digits, the HSM prints 6 or 16 and blanks after them).
The stated properties relate the report to keys and files at the end, so the
invariant relates each layer to the one below while it is built: `LookupOk`, a
cached lookup is right about its key unless the key was touched; `LineOk`, a
line is right about the lookup it was written from; `ProbeOk`, the candidates
before the present one were refused by the HSM itself, without which a key of
unknown type and a disturbed reply could not be told apart; `StageOk`, a probe
that is off although it was configured has left an error or a warning, without
which a passing label could be unchecked in silence; `FilesOk`, what was missing
or unusable when it was looked at is in the report. The step of a reply uses
the round trip of `FramingProofs` for what the HSM says, `CutDoesNotParse` for what
came before it closed, and that six digits of the printed value are compared
whatever its length and case (`MatchIsSameKey`). `NoCommandIsShadowed` is about
the table that `server::run` builds: each code that a payShield handler claims is
claimed by one handler only and is not in the list of the stub (`OwnersAgree`,
`OneOwner`), and the registry of a server that is up is that table
(`Registered`).

Every invariant that a passing run checks is the subject of a theorem. Left to TLC:
liveness (fairness and ENABLED are out of the prover's reach), and the six
disagreements, which are counterexamples.

Still worth proving: that the finite sets of commands in the handler modules are
well-formed frames for every data that hosts hold, which the `ASSUME`s of the MC
modules evaluate for the data from outside only.

## 6. What is not modelled

- Bytes of commands: hex digits, BCD, lengths of fields. A frame that the field reader
  refuses is error 15 and changes nothing.
- Responses beyond the 16-bit length. No run can hold one; the commands on data
  answer no more digits than they were sent, except K0, which reads binary and
  answers hex (`emv_decrypt.rs:151`), so that its answer may be twice as long as
  its command and rests on the limit of the service.
- GW for AES DUKPT, which differs from 3DES in the width of a CMAC only.
- The account field of the ARQC commands holds 14 digits at most, so
  a card whose number is longer is not told apart from its suffix.
- Garbage that happens to decode: a block read with a wrong key is garbled, and
  the service may call it a mismatch or reject it.
- The optional blocks of a TR-31 header by characters: `KeyMap` has the walk over
  them as a list, with lengths and digits abstracted to whether they parse.
- A forward leg that another program injects into `server::run_with` or
  `verify::run`: `main.rs` passes none.
- In `Verify`: a wrong key type is assumed to fail the parity of the key, as the
  comment of the probe says; a `server_name` that rustls refuses counts as a bad
  file of the forward leg; a label that begins with 'S' is probed as a key block
  whatever follows (`hsm_probe.rs:111`), so such a label has the form "block".
- The deserialisation of `config.rs`, and `grounding.rs` and `lib.rs`, which have
  no behaviour.
- The text of log records and of error messages. Records are counted by their code
  and taken to be about as long: a failing flush may put out a part of a line, so that
  a line in the file may be torn or glued to the next.

## 7. Differences seen while modelling that no run checks

- The discovery log writes a code again after a restart, since `seen` starts
  empty and the file is opened for appending (`server.rs:40`), and writes none for a
  code whose record a full buffer refused (`server.rs:74`). The comments at
  `server.rs:28` and `:54` say "Each unique command code is written once" and "Each
  command code is logged once". `LoggedOncePerLife` is therefore about one life, and
  `SeenIsNotLost` names the refused records.
- `exchange` returns Ok with what it has when the HSM closes in the middle of a
  response (`hsm_client.rs:114`), and the host receives the part; if the HSM closes
  before its first byte, the host receives nothing, and the connection stays open.
- An HSM that sends a second frame behind its response: if both arrive in one read,
  the host of that exchange receives both. `NoCrossTalk` is about other exchanges.
- The headers of `pin_verify_non_dukpt.rs` say of the PIN block format "consumed
  (proxy hardcodes IsoFormat0)" (`:30`) and "consumed" (`:42`); the code maps the
  field and forwards it (`:223`, `:286`). The model follows the code.
- CK takes every block to be of format 0. The comment at `dukpt_pin_verify.rs:222-223`
  calls it a known gap and speaks of a format field, which the handler does not read. A
  cardholder with the right PIN in a block of another format is turned away;
  `PinAcceptedIfRight` names this exception.
- M6 with size '1' and a 3DES algorithm answers 8 hex digits where 16 were asked
  for, since the service's MAC is no longer (`mac.rs:99,343`), and M8 then refuses
  that MAC with 15. `VerifiesItsTwin` names this exception.
- KW takes derivation 'B', but its account field is too short for what the
  service asks of Option B, so the answer is always 41 (`kw_arqc.rs:24,46,243`,
  `cap_arqc.rs:178-183`). `ArqcAcceptedIfGenuine` names this exception.
- `key_map.rs:270` gives K0 a name that the service does not have, so that a wrapped
  key of usage K0 never resolves, nor one of triple length (`key_map.rs:239`).
  `key-presentation.md` says "You never need `key_mappings` for X9.143 wrapped keys
  with KC".
- `setup.md:227` says "Exit code is 0 only if every entry is `ok`"; the code exits
  with 0 if there are warnings and no errors. `CrossChecked` leaves out labels
  with a warning.
- Verification does not read `aws.profile`, which the server applies
  (`verify.rs:78`, `server.rs:108`): with a profile the report may be about the
  keys of another account.
- Verification looks whether files exist; only the forward leg's are parsed, and
  only if the HSM is probed. `PassedServes` names what is left to the server.
