# Verification of cc-go-sdk

TLA+ specifications of the Cloud Compute plugin SDK, their TLC configurations, and proofs checked
by TLAPS. A *plugin* is a process started by the Cloud Compute *launcher*: it reads its payload
from the compute store, resolves the variables in it, connects the data stores the payload names,
and runs the payload's actions, which move files between those stores and the local disk.
Everything here is translated from `src/`; line numbers are in `PROJECT.json` ("map").

## 1. Inventory

| component | state | operations | hard behaviour | what makes it correct |
|---|---|---|---|---|
| Initialisation (`pluginmanager.go`, `datastore.go`, `file_datastore.go`) | the manager, its payload, a session per store, a parent per action | `InitPluginManager` = `NewCcStore`, `GetPayload`, `substituteVariables`, `connectStores`, `SetParent` | any of many steps fails; two levels of stores; in-place changes on copies and on slices | a manager handed out is complete: every store has its own kind of session, every action its parent, no failed source is ignored |
| Actions (`pluginmanager.go`) | `ActionRegistry` | `RegisterAction`, `RunActions` | reflection on user types; runners that fail or panic; unregistered names | each action once, in order; what nil and an error say about the actions |
| Substitution (`pluginmanager.go`) | the maps of the payload | `substituteVariables`, `substituteMapVariables`, `pathsSubstitute`, `handleSliceSub`, `parameterSubstitute` | maps rewritten while Go iterates over them in no promised order | result independent of the order; sources fully resolved or an error |
| IOManager (`payload.go`) | stores and sources of two scopes; files elsewhere | `GetStore`, `GetDataSource`, `Get`, `Put`, `Copy`, `CopyFileToLocal`, `CopyFileToRemote` | lookup through the parent; each remote step may fail; other plugins change objects meanwhile | nil means done, an error means nothing stored, partial results have a known shape |
| Compute store (`ccstore*.go`) | the run's payload and objects; local directories | `SetPayload`, `GetPayload`, `PutObject`, `GetObject`, `PullObject`, for S3 and a file system | launcher and plugins at once; truncate-then-write; a process dies half way | no plugin starts from a damaged payload; an acknowledged payload stays; a pull is honest |
| Message queue (`mq/`) | a map of subscriptions, handlers in the client, a session at the broker | `NewMqttMessageQueue`, `Subscribe`, `UnSubscribe`, `Send` | no lock on the map; lost connections, repeats, session expiry, restarts | map, handlers, broker session agree; messages reach a registered handler at least once |
| Payload attributes (`payload-attributes.go`) | a map of JSON values | typed getters, `OrFail`, `OrDefault`, slices, `Decode` | conversions that narrow, truncate or panic; values that are references and so texts | an attribute reads the same where it is kept and through a reference; the getters agree |
| Event store (`event_store.go`, array calls of `tiledb_store.go`) | a recordset's buffers, an array, a result with a cursor | `NewEventStoreRecordset`, `Create`, `Write`, `Read`, `PutSimpleArray`, `GetSimpleArray`, `Scan`, `GetRow`, `GetColumn`, `Size` | index arithmetic over flat buffers: offsets, extents, ranges, layouts, estimates | what is read is what was stored, in its place; which inputs cannot be stored or read |
| TileDB store (`tiledb_store.go`) | arrays and metadata shared by plugins | `Connect`, `PutMetadata`, `GetMetadata`, `DeleteMetadata`, `PutSimpleArray`, `GetSimpleArray` | check-then-create by two plugins; one attribute under two keys; staged writes; calls that fail | races have one winner and no lost data; attributes and arrays are read whole |
| Logging, status, utility types | none that others read | output | none | not modelled |

The components meet in three ways: `InitPluginManager` *calls* the compute store and the substitution
and *connects* file data stores; actions *share* the manager's IOManager as parent; plugins share the
*objects* of the stores, without any coordination, with one another and with the launcher. The message
queue is used by plugins directly, its handlers being callbacks on the client's goroutine.

## 2. Modules

| module | models | checked by | proofs |
|---|---|---|---|
| `PluginManager` | initialisation and `RunActions`, one goroutine | `MCPluginManager` | `PluginManagerProofs` |
| `Substitution` | the whole variable pass, step by step | `MCSubstitution` | `PluginManagerProofs` |
| `IOManager` | lookups and data movement of one plugin among others | `MCIOManager` | `IOManagerProofs` |
| `CcStore` | both compute stores, a launcher and plugins, crashes, lost answers | `MCCcStore` | `CcStoreProofs` |
| `AbstractStore` | what an object store promises its users; `CcStore` implements it | through `CcStore` | `CcStoreProofs` |
| `TileDbStore` | plugins on one event database: attributes and simple arrays | `MCTileDbStore` | `TileDbStoreProofs` |
| `EventStore` | records and numbers through buffers and arrays, one program | `MCEventStore` | `EventStoreProofs` |
| `PayloadAttributes` | typed reading of attributes, directly and by reference | `MCPayloadAttributes` | `PayloadAttributesProofs` |
| `MessageQueue` | callers, client, link, broker | itself | `MessageQueueProofs` |
| `SequenceFacts` | nothing: induction, and what it shows of `FlattenSeq` | - | itself |

`PluginManager` treats the substitution as one step with the outcomes `Substitution` shows it to have
(a root resolved, left, or inflated away; attributes and parameters that may panic; a source "ok", "error" or
"panic"), and `GetPayload` as one
step that succeeds or fails, which `CcStore` details. A module keeps the code's names; each action is a
stretch of code between two points where another process, another caller or a failure can intervene.

**PluginManager.** `pc` walks through `InitPluginManager`; `level`/`next` are the two loops of
`connectStores` (level 0 is the payload, level *i* action *i*). `registry`, `cursor`, `runs` belong to
`RunActions`; a runner struct is described by what reflection sees of it (a pointer? which fields?) and
by whether its `Run` sets `ContinueOnError`. A data store is its type and the shape of its `root`.

**Substitution.** A text is a sequence of tokens, a reference being one. `heap` holds every map of the
payload by place, so that aliasing (data paths written into paths) shows; `stack` holds the `range`
loops under way with the keys still to come. `Rewrite` lets any subset of the added keys be visited later,
as Go allows, up to `MaxRevisits` of them. "-" is a token, and a key inflated by the value *v* is `Join(k, v)`, which is
`k + "-" + v`: two inflations in one template may make the same key twice. `Inflations` then gives every map some order
of the output leaves, a later line overwriting an earlier one. What "%v" prints for a nested value is one opaque token. `{VAR::x}` is left alone by this pass, and is so here. `Parts` says
where the maps of a payload are; each was decoded for one place. Names begin with `Pass` (`PassInit`, `PassNext`) where
`PluginManager`, whose proofs share a module with these, has one like it. Two conditions recur in the properties.
`Settled`: nothing a reference may become holds an automatic reference in turn; otherwise it depends on Go whether the
entry that holds it is visited again. `Apart`: no entry is named like one that inflating another adds (`x-a` beside `x`),
and could be overwritten by it. Keys that collide *within* the lines of one entry are not left out: `OrderIndependent`
speaks of them.

**IOManager.** Requests are records with the arguments of the calls. A call is started or rejected by
its early returns (`GetAllowed`, ...), then goes through `open`, `write`, `stat`, `fetch`, `create`,
`fill`, `upload`, each of which may fail; `RemoteChange` is another plugin, at any moment. Template
variables and the `datapath` argument, which file stores ignore, only alter a path's text and are left out.
An object or a file holds whole contents or `Short` ones, what a broken transfer left of them (`Bytes`); a
directory is uploaded in `WalkOrder`, the order of `filepath.WalkDir`; a directory without files may be there or not.
A downloaded file goes where `strings.Replace` of `root/path` in its key puts it (`Target`): below `LocalPath`, unless the
place is `Loose`, its keys not starting with `root/path/` (a root "" or "/", a path "" or one ending in "/"). Then
`Stray` says where the file lands; with the root "" that is its full key under the working directory.

**CcStore.** `kind` is the implementation of the run, chosen once. An FSB write is `Truncate`, `Fill`, `Reply`,
an S3 write `PutWhole`, `Reply`: the answer may get lost after the write took effect. A file is missing,
empty, torn, or one of the whole contents. `os.ReadFile` reads a file in pieces, so that a file which held two contents
during the call may come out as a mix of them (`MixOf`), and a mix of two JSON documents may decode; an S3 object is read
as it was at one instant. A single text cut short is no document. `io.Copy` reads the file as it is, and may mix it with
what it was when opened.
`SourceRootPath` is the store's own root: below another there is nothing, as with a key never written. The
FSB store is reached by `NewFSBCcStore` only, since `NewCcStore` does not create it (section 4). The S3
`PullObject` copies into a `bufio.Writer` it never flushes (`ccstore_s3.go:172`); nothing is lost because
`ReadFrom` of an empty one hands the reader over to the file.

**AbstractStore** knows objects and calls, no files: a put takes effect at one instant between its call and its
answer, a get answers with the content of one instant, a failed call may have taken effect. A store that is
not `atomic` may leave the object being put damaged, and read a damaged one. The refinement (`Store` in
`CcStore`) takes S3 for atomic, maps a put to one that took effect from `Reply` on, and a pull to one that
met the object when it opened it (`storeOp`, `storeGot`, `storeOutcome`); `Truncate` and a torn `Fill` are
`Damage`, the local files are hidden.

**TileDbStore.** A step is one use of TileDB, each of which may fail (`Fault`; a refusal by the rules below is
`Refuse`). TileDB is external: creating what exists is refused; an array opened to read shows what was there
then (`view`); metadata put into an array opened to write is `staged` and written when that is closed, at
once; a write query stores all its cells or none, and may have when it fails. Assumed too, as the code does:
bytes and offsets come back as the slices that were put. Strings are sequences of `Chars`. An attribute has a plain, a data and an offset key. A cell
holds the put that wrote it, so that mixtures show. An array has any number of dimensions and cells; the range of a put of
three or more is not filled to its end by the code, so that it is refused (`Fits`). `Connect`'s configuration is left out; a bad endpoint ends
the process (`tiledb_store.go:101`).

**EventStore.** A call is one step here, because only one program runs; the interleavings are those of
`TileDbStore`. Texts are sequences of bytes, so that offsets are real; `rs` has the buffers, `array.cells` the
cells by coordinate, `result.data` the flat buffers TileDB fills in the order of the layout. `captured`,
`stored` and `shown` keep the same records and cells without any buffer: the reference the properties
compare with. `made` says whether there is a recordset; a read of a nil one panics. TileDB takes buffers by the name of
their attribute (`BufferOf`). The number of elements of a sparse read is estimated by TileDB, exactly or one too many. `Spans` and `Products`
are the sides of a range and the sizes of its slices, in the order in which TileDB runs through them.

**PayloadAttributes.** One attribute of the payload and one of an action, which may be `{ATTR::..}` or
`{ENV::..}` or a list with one. `Substitute` is the part of the variable pass that concerns a text which is one
reference (`Substitution` has the rest), with what "%v" prints: an exponent below `Tiny` (1e-4) and from `Million` on.
Numbers are parts of `Unit`; JSON gives float64s, which hold `Precise` (2^53) units of the last place (`Rounded`). A text
is the form in which it can be read, and its number: plain digits; with leading zeros, which `ParseInt` takes for
octal; a literal like 0x10, which only `ParseInt` reads; with an exponent, which only `ParseFloat` reads; "true"; or a
word. `ToInt64E`, `ToFloat64E`, `ToStringE` are package `cast`, version 1.6.0; an integer text beyond int64 (`Long`) is refused,
and a float beyond it becomes what the processor makes of it (`saturates`, one way or the other for a whole run). `Half`
is 2^31. An element of a list that is itself a list or a map is opaque (`nested`).

**MessageQueue.** Each access to `subscriptions` is a step. `pc[c]` is where caller *c* is: waiting for
the SUBACK (`suback`, `ack`), `register`, `store`, `remove`, `delete`. The client library (autopaho) and
the broker are external: reconnection by itself, a session kept while disconnected, QoS 1 repeats,
retained messages sent on SUBSCRIBE, every handler called for every message. The runtime's fatal error on
two simultaneous map accesses, a possible outcome of the data race, is `Crash`.

The definitions commented `Mutant:` are deliberately wrong variants of the definition below them. None
takes part in a specification; each is put in its definition's place to see that a property notices.

## 3. Runs

| run | question | bounds and why they are enough |
|---|---|---|
| `plugin_manager` | is a handed-out manager complete; what do RunActions' answers mean | 11 payloads: none, both levels with two stores, each failing kind of root, type, source and attribute at each level, repeated and unregistered names; 5 runner structs, one per way reflection can go; 2 calls of RunActions, the second after whatever the first left |
| `queue_one_caller` | do map, handlers, session and messages agree for a sequential plugin | 1 caller, 2 topics (every handler is called for every message), 2 subscribes, 2 messages, 1 lost connection, expiry and restart |
| `queue_two_callers` | what survives the unlocked map; do owed messages arrive and calls return | 2 callers on 1 topic, because the races are all on one key; 2 subscribes, so that the calls overlap; 1 message, 1 lost connection, 1 expiry; no restart, which `queue_one_caller` has. Lost messages show there and, as `EventuallyHeard` fails then, here |
| `io_manager` | what do nil and an error mean | 20 requests: each call, in both scopes, with every early return, a store at the root of its bucket, an empty directory; 2 calls, so that the second finds the first's leftovers; 1 foreign change between any two steps |
| `cc_store` | payloads and pulls under concurrency, crashes and lost answers, for both implementations; do they implement the abstract store | launcher and 2 plugins (interchangeable), 3 calls, 1 crash, 2 payloads: a writer, an overlapping writer and a reader |
| `tiledb_store` | races to create, attributes under two keys, whole arrays | 2 interchangeable plugins, 1 attribute and 1 array, 5 calls (both connect, two writers, a reader), 1 crash, any TileDB call failing; values of one, of several and of no bytes, a one- and a two-dimensional array and one of strings |
| `event_store` | do records, rows and columns come back; what cannot be stored or read | 5 calls: make, create, write, read, look, or two writes before the read; 7 slices (none, one, two and three records, empty strings, no or wrong fields), 11 grids of no to three dimensions; ranges inside, up to and past the domain; tiles of 2 and indices up to 7 for 256 and MAXDIMENSION, so that both limits are met |
| `payload_attributes` | do the getters agree, directly and by reference | every pair of reads; 20 values of all JSON kinds, 9 texts of the environment, one of each form and around each limit; quarters for the parts of one, a half for 1e-4, 10 for a million, 16 for 2^31, 32 for 2^53 and 64 for 2^63, so that numbers on both sides exist |
| `substitution` | order independence and strictness | 11 documents with every reference kind, nested map, mixed list, inflating entries, one failing document per failure, one (`Colliding`) whose inflations make one key twice, and two (`Clashing`, `Unsettled`) that are not `Apart` or not `Settled`, by which the properties fail without these conditions; up to 2 re-visited entries |

The other three runs, `documented_fields`, `data_paths` and `cc_store_pull_s3`, are those of section 4.

Deadlock checking is off in every configuration: each program really stops (a manager failed, the
pass done, all calls made, a bound reached).

`plugin_manager` also shows what does *not* hold where it might be expected: the registered
`ContinueOnError` is irrelevant (`RunOutcome` speaks of what `Run` sets), and a store root that cannot be
resolved is connected as it is. `ExactWhenAlone` is stated for one caller because with two a handler can
leak (both pass the lookup, the later one overwrites the entry). `OrderIndependent` and
`SourcesStrict` speak of parts that are `Apart` or `Settled`; of others Go's iteration order shows. Where two lines of
one entry collide `OrderIndependent` allows whichever some order leaves. `CopyToLocalComplete` exempts an existing
object whose `GetObjectInfo` failed for another reason (it is taken for a directory and lands one directory up), the
objects under a path where there is an object too, and a walk of a `Loose` place, whose files land elsewhere with nil
answered. Which store a name means when two levels have it (`payload.go:118`), and that a missing path key is the path
"", decide where the model's calls go, so no property speaks of them. `ErrorLeavesWhole` allows a failed
call to have stored the object, since its answer may be lost. `PulledWasThere` exempts a file rewritten while it
is copied, `PayloadIsWhole` a payload of the file store that held two documents while it was read. `StringsAreWhole` exempts an attribute of which a put failed between its two keys: the first stays
staged and the deferred `Close` writes it, so that later reads cut new bytes at old offsets or panic.
`ReadPanics` lists the reads that panic: a sparse array of strings whose number was estimated too high (the size
of the last one underflows), a range of two dimensions asked of an array of one, and a nil recordset. `RowsAndColumns` speaks of
row order: in column order `GetRow` gives other cells. `ReferencesReadAlike` holds of integers and texts from 1e-4 up to a
million only: outside a reference becomes a text like 1e-05 or 1e+06, which `GetInt` refuses and `GetString` answers
differently. `GettersAgree` leaves out what only integers read (0x10), and an integer cut off a float beyond int64.
`ListsAreJson` allows a list to be shorter than written when it names an unknown attribute: the element is
dropped without an error.

## 4. Where code and documents differ

Each of these has a run that TLC ends with a counterexample.

| run | document | code |
|---|---|---|
| `documented_fields` | `pluginmanager.go:207` three fields suffice | a failing runner without `ContinueOnError` panics (`:227`) |
| `data_paths` | `pluginmanager.go:298` data paths are substituted | the result goes into `Paths` (`:422`) |
| `cc_store_pull_s3` | `ccstore_s3.go:162` copies if the file is found | the local file is emptied first |

More were met while translating; the models follow the code, and no run is spent on them.

- `README.md:19` says a local file system store is supported; it gets no session, and `CopyFileToRemote` to it
  answers nil and does nothing (`payload.go:442`).
- `mq/cc-message-queue.go:22` "the client is not subscribed to this topic" is answered while the broker
  still has the subscription: `UnSubscribe` never tells it.
- `event_store.go:24` disallows variable length types in simple arrays; `Golang2AttrTypeMap` has strings, so such
  an array is created, and can never be written.
- `DeleteMetadata` removes the plain key only (`tiledb_store.go:919`): a `[]string` attribute stays.
- `Recordset.Write` ignores its argument (`event_store.go:490`), and its `ArrayType` and `ArrayOrder` are never read.
- `README.md:24` offers `CC_STORE_TYPE=FS`; `NewCcStore` refuses it (`ccstore.go:83`). The action of that
  name in `PluginManager` fails for every type but S3.
- `pluginmanager.go:293` says store parameters are substituted; those of an action's own stores are not.
- `notes.txt:238` says inflated names come from the map's keys; they come from its values (`:547`).
- `mq/cc-message-queue.go:23`: `ErrAlreadySubscribed` is still answered when the broker's session has expired
  and the subscription with it, because the map outlives it.

## 5. Fairness

Only `MessageQueue` has liveness properties, as only it waits.

- `PluginManager`, `IOManager`, `CcStore`, `TileDbStore`, `EventStore`, `PayloadAttributes`: none. Their calls are
  sequences of steps and loops over finite lists, of which termination says nothing.
- `Substitution`: none. How often Go re-visits entries added under a `range` is bounded by `MaxRevisits` here
  and by nothing in the code, so that a run could not show the pass to end.
- `MessageQueue`: weak fairness of a call under way, of the broker's answer while connected, of the
  delivery loop, and of the reconnection, which autopaho retries until its context ends (the context is
  `Background`). No fairness for publishers, for losing the connection or for callers making calls.

## 6. Proofs

TLAPS checks the following for every value of the constants.

`PluginManagerProofs` (from `PayloadsAssumption`, `PrototypesAssumption`, `CallsAssumption`: the
documents are documents, the structs are structs, the bound is a number)

- `TypeCorrect`: `Spec => []TypeOK`.
- `HandedOutConnected`, `InOrder`: `Spec => []ReadyMeansConnected`, `[]ConnectedInOrder`. Neither is
  inductive. `IInv` adds where `connectStores` is: before the pass nothing is connected; at
  `<<level, next>>` exactly the slots that precede it are, each with its own kind of session; the actions
  up to `level` have their parent; and the payload's shape no longer changes. `ConnectionInductive` proves
  it, one lemma per action; at `InitReturns` the slots before the current one are all there are.
- `HandedOutSubstituted`: `Spec => []ReadyMeansSubstituted`, of sources, attributes and store parameters. The pass ends
  at its *first* failure, the property is about *any*; `SomeFaultIsFirst` finds the first of the first level that has one (`Least`).
- `RunOutcomeHolds`, `RunsInOrderHolds`: from an invariant tying `runs` to `cursor` and to the last error.

`PluginManagerProofs`, `Substitution` (from `ReferenceAssumption`: an environment variable can always be read, and no
reference is one of the words or the "-" the code itself writes; `PartsAssumption`: every map and name has one place in the payload,
as JSON decoding makes them, so that only the paths and data paths of one source go into one map; `DocumentsAssumption`:
maps are finite, a nested map is the value of one entry, sources hold strings)

- `PassInvariant`: the inductive invariant, `PassInv`. It is about a state in the middle of nested loops over maps that
  these loops rewrite. `PassType`: the maps keep their places, and an entry that is a map stays what it was. `PassStack`: the
  loops go down from the map of the part under way, and no map is gone through twice at once. `PassFresh`: parts to come are
  as in the document. `PassNames`, `PassPaths`: names and paths that are done have no reference left and named no unknown
  attribute; of the paths under way, what is left to visit is an entry of the document or has none left. `PassError`: why
  it stopped. A frame argument holds these together: the attributes a source sees are rewritten by earlier parts
  only (`ScopeKept`).
- `SourcesAreResolved`, `SourcesAreStrict`: `PassSpec => []SourcesResolved`, `[]SourcesStrict`. Both rest on what `Expand`
  computes for a text of any length (`ExpandMade`, `ExpandMeans`): the references found first are replaced one by one, so
  that none is left when no replacement brings one, and an unknown attribute is an error even when every line is gone.
- `OrderDoesNotMatter`: `PassSpec => []OrderIndependent`, from `PassOrderInvariant`. It needs no comparison of two passes:
  the property says what every pass must have left, and `PassOrder` says it of a loop under way (`Seen`). Each entry of
  the document either is still there and to be visited, or the entries that came of it (those whose keys extend its key by
  "-") are one of the outcomes wanted, and any of these that are visited again are texts with nothing left to replace. An
  entry has several outcomes when a list inflates in an order or when lines collide; nothing else leaves a choice. The
  same holds for the maps inside the one the part is in, before, while and after they are visited (`InsideSeen`). Wanted is
  what the *present* attributes make of the document; as these change only while the first part rewrites the payload's
  attributes, where `{ATTR::..}` is not replaced, or before an action's sources are reached, it stays what it was
  (`WantedKept`).

`MessageQueueProofs` (from `BoundsAssumption`, `TopicsAssumption`)

- `TypeCorrect`: `TypeOK` with `DispatchInv` (a message being dispatched on the current connection is the
  head of the queue), without which `Acknowledge` could not take the queue's tail.
- `MapIsBacked`: `Spec => []RegisteredOrLeaving`, for any number of callers. `OwnerInv` says who owns a
  handler id: a Subscribe in progress alone knows its id until it is stored; an id is in the map under one
  topic at most; a removal's id is in the map under the removal's topic at most. So a removal can take a
  handler away only from the entry its caller is about to delete.
- `HandlersAreSubscribed`: `Spec => []BrokerKnowsHandlers`, with `SubackInv`: a caller between SUBACK and
  registration has its topic at the broker.
- `DeliveredAtLeastOnce`: `Spec => []NothingLost`. `OwedInv`: what is owed has its handler still, and the message whose
  acknowledgement would count is the head of the queue and was or will be passed to that handler. It needs that an id
  has one topic (`OneTopicInv`), or removing a handler could take another's, and that a new message is none known
  before (`FreshInv`).
- `MapIsExact`: `Spec => []ExactWhenAlone`. `AloneInv` says how handlers and entries differ inside a call: by the
  caller's own handler.

`CcStoreProofs` (from `DistinctAssumption`, `KindAssumption`, `BoundsAssumption`: the launcher is no plugin, the
payload no object, a damaged file no whole content; a store is one of the two)

- `TypeCorrect`: `Spec => []TypeOK`, with `CallInv`, which call a step belongs to.
- `PayloadWhole`, `PayloadStays`: `Spec => []PayloadIsWhole`, `[]AckedPayloadStays`. `PayloadInv` rests on the
  launcher being the only one that writes the payload: between its steps the file is what its last step left, so
  that `Reply` acknowledges the document it was called with, and a reader finds a document, nothing, a file
  that does not decode, or pieces of two documents the file held while it was read.
- `PulledHolds`, `FileStoreKeeps`: `Spec => []PulledWasThere`, `[]FileStoreKeepsLocal`. `PullInv` says that what a pull
  has met is among what the object was during the call, and that an object that was there never goes away,
  so that a pull that has opened it no longer ends for want of it.
- `Implements`: `Spec => Store!Spec`, that is `ImplementsStore`. One lemma per kind of step (writing, answering,
  reading, pulling, beginning, dying) names the abstract step or the stutter it is, from `KindInv` (only the file
  store writes in two steps) and from lemmas on what the mapping shows of one process.

`TileDbStoreProofs` (from `BoundsAssumption` and `RequestsAssumption`: calls have their arguments, an attribute's
value is a type with a value, strings being sequences of sequences; arrays have at least one dimension, each of at
least one cell and otherwise of any size; no two puts put the same value, which is what tells them apart)

- `TypeCorrect`: `Spec => [](TypeOK /\ CallInv)`. `CallInv`: each step belongs to a call of its operation, and a put that
  writes has found or made its array.
- `CreationRace`: `Spec => []LoserFindsIt`, since neither kind of array ever goes away (`StepKeepsArrays`).
- `AttributesHold`: `Spec => []AttributeWasThere`; `SeenInv` follows a reader from its first instant over the opening
  of the array to its answer.
- `ArrayStays`: `Spec => []AckedArrayStays`, from what the two steps that change arrays write (`WriteCells`,
  `CreateCells`); an array is made blank only where none was, so never under an acknowledged put.
- `NeverAMix`: `Spec => []ArraysAreWhole`. `WholeInv` says it of the stored arrays as well: a put of other
  dimensions writes values that are no whole put's, one of the same dimensions writes every cell.
- `StringsHold`: `Spec => []StringsAreWhole`. `StringsInv` says of every key what its metadata are: a plain value
  that was put, and bytes and offsets of *one* value that was put, unless a put has failed between the two keys
  (`half`). It has to be said of what is staged and of what a reader has seen, too. That cutting the bytes at the
  offsets then gives the strings back (`ReadsBack`) is `FlattenCut`.

`IOManagerProofs` (from the assumptions of `IOManager`: two names are one object only when they are the same;
a walk lists each name once, as `filepath.WalkDir` does; contents are not the marks of missing or partial ones; every
object and file a call can name, a `Stray` one included, is one there may be, so that the finite sets of a run leave nothing
out)

- `TypeCorrect`: `Spec => []TypeOK` with `PhaseInv`, what each step knows of the call it is part of: without it `todo`
  could be any sequence, and `Head(todo)` any name.
- `NilIsStored`, `ErrorIsWhole`: `Spec => []NilMeansStored`, `[]ErrorLeavesWhole`, from `StoreInv`: what a call has written
  holds what it stored there until others change it, and only an upload of a directory writes more than one object.
- `UploadStoresPrefix`: `Spec => []UploadIsPrefix`. `PrefixInv`: what is stored comes before what is left of the walk,
  and what is left is in its order.
- `OneIsTruncated`: `Spec => []AtMostOneTruncated`. The property had to be stated of the files *this call has written*: a
  truncated file of an earlier call stays, so that of all files on disk there may be as many as there were calls.
- `CopyIsComplete`: `Spec => []CopyToLocalComplete`. `CompleteInv`: an object the call answers for is on disk or still to
  be fetched, and the one being fetched was read as it is. It says nothing of `Loose` places, where keys do not start with
  `root/path/`.

`PayloadAttributesProofs` (from `BoundsAssumption`, `DocumentsAssumption`: attributes are JSON values, their numbers
float64s, texts are texts; `Unit` is a power of two, and a million is one of int64)

- `AnswersInductive`: the inductive invariant. Nothing is answered before the substitution (`SubstitutedInv`); after it
  the attributes are what it makes of the documents and do not change, so that what was answered is what the getter
  answers of them still (`AnswersInv`). The properties are then about the functions.
- `NumbersAgree`: `Spec => []GettersAgree`, for every `Half`, `Long` and `Precise` (`WrappedDiffers`: an int32 differs by a
  multiple of 2^32; a text of digits is read by the float getter as the float nearest to the integer).
- `ReferencesRead`: `Spec => []ReferencesReadAlike` (`PrintedReadsAlike`: what "%v" prints without an exponent reads as
  the value, since a float64 is nearest to itself).
- `ListsHoldNumbers`: `Spec => []ListsAreJson`. The new list is the concatenation of what each element adds, nothing or
  one (`Appended`); `FlattenCount` counts these, so that a list of any length is read only when it has as many
  numbers as the document.

`EventStoreProofs` (from the assumptions of `EventStore`: `MAXDIMENSION`, 2^63 - 1, is no multiple of the tile of 256; a
slice is shorter than the largest index by a tile; strings are sequences of bytes; the tags of a struct differ, since TileDB
takes no two attributes of one name; a range is a pair of numbers)

- `EventInvariant`: the inductive invariant, with what each call has just answered. `RecordsInv`: the buffers of a
  recordset give back the fields they were made of (`BufferMade`, `StringItem`). `ArrayInv`: the cells are those that were
  meant. `ResultInv`: a result read from this array, whose number was estimated exactly, holds at each place of
  its buffers the value meant for the cell of that place (`ReadKeeps`, `StringsReturned`).
- `ScansGiveRecords`: `Spec => []ScanGivesRecords`. A cell's coordinates are the digits of its place in the range
  (`PlaceOfCell`), for any number of dimensions and both orders; `Digits` is the step from one dimension to the next.
- `LinesOfTheRange`: `Spec => []RowsAndColumns`. What `GetRow` and `GetColumn` cut out of the flat buffer are the cells of
  that line (`GridCell`), and they panic exactly when there is no such line (`RowInside`).
- `PanicsOfReads`: `Spec => []ReadPanics`. Cutting the bytes at the offsets stays within both unless there are fewer
  elements than estimated.
- `WellMadeIsStored`: `Spec => []InputsStored`; a simple array whose dimensions whole tiles hold is always made when none is
  there, since the tile is the default or the smallest dimension below it. Only an empty recordset finds no array made for it, because
  it takes `MAXDIMENSION` for its length and its last tile would end past that (`LargestDoesNotFit`); any other
  is made (`RecordsFit`).

`SequenceFacts` has no component. Induction over data is reached without a theorem that takes an operator: a set
of numbers has a least (`Least`, from the library's well-founded minimum), so a set with 0 and the successors of its
members has all (`Induction`), and a recursive function on 0 .. n exists for every n (`Recursion`). `FlattenCut`,
`FlattenParts` and `FlattenCount` follow for sequences of any length.

Every safety property of a passing run is a theorem. Only model-checked: liveness (`EventuallyHeard`, `SubscribeReturns`), since neither liveness under fairness nor ENABLED is within the
provers' reach. Not stated: that the order of a *list's* elements is all that
inflating one in it leaves open; `OrderIndependent` compares lists as sets of texts.

## 7. Plan

1. Done: every component modelled and checked; the refinement of `AbstractStore`.
2. Done: proofs. Every safety property the passing runs check is a theorem.
3. Open: liveness stays with TLC. `MaxRevisits` bounds only the runs; the proofs hold for every value of it.

A composition of several plugins that hand objects to one another is not planned: when a plugin is started, again
or after another, is decided outside this repository.

## 8. Not modelled

Logging, status and error types (output only); S3 configuration from profiles (pure I/O); `json`
marshalling of a payload (library code: a whole text decodes to the document it was made from);
goroutine-level parallelism inside the client library; file descriptors (an upload's reader is never
closed, `payload.go:468`); `InitPluginManagerWithConfig`, whose `MaxRetry` nothing reads; the second
constructor argument of the stores; `JSONSchemaExtend` of the attributes; `GetMetadataOld`, which nothing calls;
arrays and coordinates a caller builds by hand for `CreateArray` and `PutArray`; buffers of TileDB's C library,
which the code never frees.
