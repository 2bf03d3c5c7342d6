# Verification of the ensicoin node

TLA+ models of the node in `src/`, the TLC runs that check them on small
instances, and TLAPS proofs of the results that hold for every instance.

The node is one process with one thread: `main` builds a `Node`, and
`io_context.run()` calls one completion handler after the other. There is no
lock and no second thread. What is hard is the order of handlers, several
operations outstanding on one socket, errors that no handler looks at, values
that change on their way through the byte format, and what a transaction is
linked to when it arrives before what it spends. The repository has no tests;
its documentation is the doxygen comments and `docs/mainpage.md`.

## The system's parts

| Part | State | Operations | Meets | Hard, and what makes it correct |
|---|---|---|---|---|
| `Connection` (`connection.cpp`) | `currentStatus`, `peerType`, `versionUsed`, `bufferedMessages`, a streambuf, the outstanding reads and writes | `bind`, `sendMessage`, `updateStatus`, `idle`, `handleHeader`, `handleMessage`, `handleWrite` | calls `Node::registerConnection`, is called by `MessageHandler` and by asio | overlapping reads; messages held back until the handshake ends. The handshake precedes everything, no reply is lost or doubled, the two ends meet |
| `MessageHandler` | none: built for each message | one case for each message type | reads from `NetworkBuffer`, asks `Node` what exists, sends through `Connection` | any message in any status. One answer for each inventory, for exactly what the node lacks |
| `Node` (`node.cpp`) | `unregistred`, `connectedNodes`, `connectedRelays`, the acceptor, `Mempool`, `Blockchain` | constructor, `startAccept`, `handleAccept`, `registerConnection`, `transactionExists`, `blockExists` | owns everything else | maps keyed by endpoint, which nothing is ever removed from; registration at one moment only; an exception ends the process. Every entry is true, and no endpoint is lost |
| Message framing (`messages.*`, `message/*.cpp`) | none | `byteRepr`, constructors from a `NetworkBuffer`, `getTypeFromString` | `Connection` | names found by a search, in front of bytes that nobody has set; a length that every later message depends on. Each message is found under its type and read to its last byte |
| `NetworkBuffer`, base types (`networkbuffer.cpp`, `networkable.*`) | a stringstream with its failbit | appends, reads, `byteRepr` | every message, script, transaction, block | widths, whitespace, NULs, fields cut short. What is read is what was appended, and a failure stays one |
| `Script` (`script.cpp`) | instructions, `codePointer`, data stack, `valid` | parse, `byteRepr`, `chain`, `step`, `done` | `LinkedTransaction::validateScript` | an iterator that every copy of a script keeps from the original. The bytes are kept; what verdict follows from the script is another matter |
| `Mempool`, `LinkedTransaction`, `HashMemory` | `mainPool`, `orphans`, `orphanUsingUTXO`, `currentHeight`; the dependencies of a transaction, found when it is linked | `addTransaction`, `registerTransaction`, `updateOrphan`, `validate`, `incrementHeight`, `decrementHeight` | `UTXOManager`, `Script` | orphans that wait for one another, linked once. Every entry leads to an orphan that lacks the output, an orphan's links are never stale. No handler calls `addTransaction` |
| `UTXOManager` (`utxo.cpp`) | a LevelDB database | `exists`, `getData`, `isSpendable`, `add`, `spend` | `Mempool` | outputs outlive the process that stored them. Each is found under its own key and read as it was stored. Nothing calls `add` and `spend` |
| Transaction and block elements, `Target` | fields, read once | accessors, `check`, `outputValue`, `byteRepr`; a shift by the exponent | the above | boundaries of the format; a target that is written as 0 |
| `Blockchain`, `BlockIndex` | a LevelDB database | `exists`, `getBlock`, `getWindowFrom`, `retrieve` | `Node` | `pushBlock`, `popBlock`, `registerBlock`, `deleteBlock` are declared and not written |
| Crypto, logging, JSON, utilities, startup | none that matters here | calls of libraries, text | | |

`PROJECT.json` lists each part with what is modelled of it, and every hazard at
its line with the properties that cover it.

## Modules

    ConnectionProofs ---> Connection               Greeting
                              ^ implements             ^ implements
                         ConnectionIO <---------- Handshake <--- HandshakeProofs

    Wire <--- NetworkBuffer <--- NetworkBufferProofs   Script <--- ScriptProofs
     ^
    FixedStr <--- Records <--- Inventory <--- InventoryProofs
        ^
        +---- UTXOManager <--+
                           Ledger <--- LedgerProofs
                  Mempool <--+ (and implements it)
                     | implements
                     v
              TransactionPool

    Wire <--- WireProofs <--- NetworkBufferProofs, InventoryProofs, LedgerProofs
    Recursion: instances in WireProofs, NetworkBufferProofs, InventoryProofs

An arrow without a word is EXTENDS. Modules named MC... give the constants of a
run; definitions marked `mutation` are plausible slips of the code, which the
properties are known to find; nothing else uses them.

**Connection** has the connections of one node, message by message. One action
is one completion handler run to its end: `OnWhoAmI`, `OnWhoAmIAck`, `OnInv`,
`OnUnknown` are `handleMessage` with the case of `MessageHandler` that it calls,
the `updateStatus` and the sends inside it, and the `idle()` that closes it;
`HandleWrite` and `HandleAccept` are the handlers of these names. `FromIdle`,
`FromInitiated`, ... are the cases of `updateStatus`. `written` is what was
given to `async_write`, oldest first; `reads` counts the outstanding reads.
`PeerEnds` closes or resets the socket; then `Throw` is `remote()` throwing out
of `io_context::run`, and a closed socket is read as blank messages because no
handler takes an error code. The peer may send anything in any status. `remote` is
the endpoint of a connection, and the three maps of `Node` are functions from
endpoints to connections: `Insert` leaves an entry that is there, `Erase` takes away
whatever the endpoint has, and no action removes the entry of a connection that has
ended. Two connections may have one endpoint, one after the other or (with other
local addresses) at once. `heldBack` and `answered` are history: what `onInv`
built before, and in, the status Ack.

**ConnectionIO** adds the reads. A header and a payload are chunks that arrive
in order; `pending` are the reads started and not completed. `idle()` starts one
after each message *and* after each completed write, so they overlap, on one
socket and one streambuf. asio's side is external and stated at the head of the
module: reads are served in the order they were started, and the completion of
one makes the others stale, so that a handler finds other bytes than those
received. `MissHeader`, `Misread` and `EndOfFile` are what the handlers then do.
`ParsedAs` is `getTypeFromString` on a `FixedStr<12>` of which only the name is
set: `whoami` in front of the rest of an earlier `whoamiack` is found as
`whoamiack`.

**Handshake** puts the program at both ends of one connection, and **Greeting**
is the exchange that it promises, without messages. (The program connects to
port 4224 and listens on 4225; the model assumes something that forwards.)

**Wire** is the byte format of numbers and texts as pure operators: how values
become bytes, and what a read takes from a stringstream and leaves there,
including `operator>>` skipping whitespace, short reads, and the C string of
`readStr`. **NetworkBuffer** is the machine that appends at one end and reads at
the other, possibly cut in the middle of a field.

**FixedStr** is a text copied into an array of fixed length (`Fill`), as every hash
is; `Memories` is what memory holds where the code does not set it: behind a C
string (`beyond`), and at each place of such an array that the text does not reach
(`residue`): any bytes, an earlier name for one.

**Records** has everything that is made of these. A record has bytes, `byteRepr()`
(`TransactionBytes`, `BlockBytes`, `Payload`), and a reader, the constructor from a
`NetworkBuffer`: a function from the stream to the value and the stream that is left.
`Struct` is one reader after the other, `Array` as many of one as the count says.
Where bytes and readers differ in the code they differ here: `Inv_vect` writes 1 for a
transaction and reads 1 as a block, a target is written as 0, a hash written as text
is read as a text by one class and as a `FixedStr` by another.

**Inventory** sends messages of all eleven types through these bytes, with the
header, the padded name and the payload of each. `Arrived` is `handleHeader` and
`handleMessage` on the bytes that have come in, `TypeFromString` the search for
one name after the other; `OnInv` answers with a `GetData`, which the far end
reads. The names of the instance keep how the real ones lie in one another. What an
array shows behind a short name takes part in the search (`FoundType`), so that an
`inv` behind a `getaddr` may be found as an `addr` and go unanswered, and another
message be taken for an inventory and answered. One memory is chosen for each
message that is handled; `handled` is history and has each message with the type it
was found under and what followed its texts. `ReadAs` says what the constructor makes
of a message in a given memory.

**Script** is the script of one input under its only caller: parsed, copied,
chained with the output's script, stepped until `done()`. Every script that is
parsed from a message is copied on its way to `validateScript`: by
`Var_Array::getValue` (`networkable.hpp:162`) and again by `Transaction(*tx)` in the
constructor of `LinkedTransaction` (`linkedtransaction.cpp:16`). A copy has a vector
of its own and the iterator of the original, whose memory is given back; so `Copy`
is a step that no script avoids, and from then on `codePointer` is `elsewhere`. What
`step` then finds is any of `Shown`, which may look like the script itself, like any
other instruction or like none; reading it may also fault, as an operation does that
has no operands (`OP_HASH160`, which copies the hash into an empty vector, always):
the verdict is `undefined`. Only an empty script is different. Its iterator is null,
as that of its copies: the loop ends at once if the output's script is empty too, and
follows a null pointer if it is not.

**Mempool** is the pool of transactions; its actions are the paths through
`addTransaction` with everything that they call. `Link` is the constructor of
`LinkedTransaction`: it looks once at what is in the pool and in the database, and
`isOrphan()` compares what it found with the inputs for ever after. An orphan
leaves one entry in `orphanUsingUTXO` for each output that it lacks, over an
earlier entry if there is one. `getOrphanDeps` walks from the beginning of one
temporary vector to the end of another: it faults (`FaultInOrphanDeps`), or takes
memory between the two for outputs (`Stray`). `currentHeight` is set by no
constructor, so it starts with any value. An exception has no handler: `Ends`
forgets the pool, which is in memory only, and `Start` is the next process.
`Register` is `registerTransaction` with its `updateOrphan`; it is never reached,
because `Worth` compares 0 with 0 as `validate` does. **TransactionPool** is what `Mempool`
promises, seen through `type()`: each transaction in one place, and there until
the process ends.

**UTXOManager** is the database of outputs in its bytes: the key of an output is
its `TransactionIdentifier` (`Key`), the value its `UTXOdata` (`DataBytes`), read
back field after field (`DataFrom`).
LevelDB is external: a map that survives its process and whose operations do not
fail. **Ledger** puts the pool over it. A LevelDB database is open in one process
at a time, so that `add` and `spend`, which nothing in the program calls, happen
between two lives of the node; `Mempool` has only `unspent`, what the database
answers, and `ImplementsMempool` says that the bytes give no other answers.

## Runs

Runs that pass:

| Run | Shows | Bounds |
|---|---|---|
| `pair` | A bound and an accepted connection interleave. `HandshakeFirst`: the handshake messages are written first, once, in order. `RepliesKept`: what is written is the handshake, the replies held back in reverse, then the others. `ReadsGrow`: one more outstanding read for each write completed. `RegistryShape`: each entry leads to a connection of its endpoint, only acknowledged ones of the right type are registered, no endpoint but a wallet's is lost, and a connection that shares its endpoint with no other is in exactly one map. `AckIsFinal`: no registered entry ever leaves or changes; an acknowledged connection enters no map, and loses its place in `unregistred` only when another one of its endpoint registers. `ResetStopsNode`: one reset ends the node for both | two connections, of one endpoint and of two: enough for every action that touches the shared maps, for a connection that meets the entry of an ended one, and for both sides of the handshake; every peer type; two inventories, on the bound connection, so that a queue of two is turned round behind the acknowledgment, or one is held back and one is not. The version is 0: no property speaks of it |
| `reads` | `ImplementsConnection`: with its overlapping, stale or misaligned reads `ConnectionIO` takes only steps that `Connection` allows. `HandshakeIntact`: the two messages of the handshake are still handled as they were sent | three messages of four kinds, enough for three overlapping reads and a misaligned stream |
| `handshake` | `ImplementsGreeting`: both ends of the program take only the steps of `Greeting`, whatever was parsed before, and they finish it. `RegisterEachOther`: if each is read right they end up registered for good | one connection; with and without an earlier `whoamiack` on the stack |
| `buffer` | `FieldsAligned`, `ReadAsAppended`: the read position stays on a field boundary and what is read is what was appended, or blank when bytes are missing. `FailureIsFinal`: a failed read leaves nothing behind | three fields from all six types, with the values on both sides of each width |
| `inventory` | `MessagesReadable`: the next message is read by its constructor to the last byte and comes out as `ReadAs` says for that memory; with NULs behind its name it is found under its type, and a transaction or block with nothing behind its texts is written again with the same bytes. `AnsweredInTurn`: one request for each message that is taken for an inventory and none for any other. `AskedAsAnnounced`: what the far end reads in the request for an inventory taken as one was announced, in order and with its type, and nothing that the node lacks is left out, unless the request names so many that their number is taken for whitespace | two messages, so that one is read behind another; behind a name NULs, or the end of `whoamiack`, or that of `getaddr` with `inv` behind it, so that messages are taken for others, for inventories and instead of them; with and without a byte behind a C string; inventories of up to two entries, some of three, whose number is taken for whitespace, and one of four of which three are lacked; one message of each other type with its numbers and texts on the boundaries, addresses with NULs among them (a `WhoAmI` of this program has one) |
| `script` | `BytesKept`: a script is written as the bytes it came from, chained or not. `OnlyEmptyDecided`: a verdict that follows from the scripts is that of an input without one: true if the output has none either, undefined if it has | scripts of up to two bytes of five, 1 and 75, the first and the last that mean `OP_STACK`, among them, and of one byte of six more; outputs of up to two bytes; other memory shows every operation, `OP_STACK` for up to two bytes, an unknown one and a byte that is none; a stack of two, which is what the operations take |
| `ledger` | `WaitingNamed`: every entry leads to an orphan that names the output and lacks it. `OrphansLack`: an orphan is one for a reason that holds as long as the process. `StoredAsAdded`: the database has what was added and not spent and reads it back. `ImplementsPool`, `ImplementsMempool` | two outputs that may be stored, one with an index of three bytes; six transactions: chains of three, two that wait for one output, one that names an output twice, one with an output of 0; heights on both sides of the maturity of an output of height 4; four data, two of which the format does not carry; with and without garbage behind a script |

`TypeOK` is checked in `pair`, `buffer`, `script` and `ledger`.

A byte has 8 values in `buffer`, `inventory` and `ledger`: 5, 6 and 7 announce 2,
4 and 8 bytes as 0xFD, 0xFE and 0xFF do among 256, so each width and boundary is
there. `Wire` takes the size as a parameter. A block of `readStr` has 2 or 4 bytes
instead of 4096, a hash 2 instead of 32, a name 4 instead of 12.

Runs that find a disagreement with what the source says of itself:

| Run | The text | What happens |
|---|---|---|
| `handled_as_sent` | `connection.hpp:65` "Called when reading a Message" | after the handshake the overlapping reads give the handler a message that the peer did not send |
| `current_ones_registered` | `node.hpp:32` "Vector of all current connections" | a `whoami` taken for a `whoamiack` carries no peer type: both ends reach Ack and register nobody |
| `var_uint_read` | `networkbuffer.hpp:37` "Read a networkable::Var_uint from the buffer" | values 9 to 13 and 32 are skipped as whitespace |
| `asks_only_unknown` | `node.hpp:52` "Checks if a transaction is known" | `Inv_vect` writes 1 for a transaction and reads 1 as a block, so a known transaction is asked for |
| `each_awaited` | `mempool.hpp:79` "There by design can't be more than one Transaction using a specified output" | a second orphan that waits for an output takes over the entry of the first, which stays in the pool and is led to by none |

The passing properties of `buffer`, `inventory` and `ledger` name what they leave
out (`Clean`): a count that begins with whitespace, which `var_uint_read` shows,
and texts that hold a NUL or are longer than a block, which `readStr` appends as
C strings: a hash with a zero byte comes out shorter, a script with an `OP_FALSE`
ends there. What follows a text in memory is read with it (`Garbage`): `buffer` and
`inventory` have that for every text, `ledger` for a script. A hash that comes out
longer than its array is written past the end of it (`FixedStr`), which is undefined;
`Fill` cuts it off.

Seen while modelling, and not the subject of a run of their own:

- `inputValue` and `outputValue` drop the result of `std::accumulate`, so that
  `validate` compares 0 with 0 (`linkedtransaction.cpp:54`, `75`) and refuses every
  transaction, although `transaction.hpp:158` says "Calculate the value of all
  OutputTransaction" and `mempool.hpp:72` speaks of a "Storage of all valid
  Transaction". No property says that nothing is accepted: it would restate the
  comparison. What lies behind it (`Register`, the scripts, the maturity of a
  coinbase) is in `Mempool`, but no run reaches it.
- No parsed script that has instructions is ever run from them (`OnlyEmptyDecided`).
- A connection is not entered where its endpoint has an entry already, be it that of
  an ended connection: after a reconnect of a registered node, `connectedNodes` keeps
  the connection that has ended, and the live one leaves `unregistred` for no map.
- `validateScript` looks for an output of the database in the pool and for one of
  the pool in the database.
- The constructor of `TransactionMessage` from a buffer gives it the type `block`.
- `readStr` allocates an array for each text and never frees it.

The runs that say `CHECK_DEADLOCK FALSE` are those that really may stop: a node
that was stopped by an exception or has nothing left to do within the bounds, a
handshake that is over, an exchange in which nothing more is sent, a script with
its verdict. `ledger`, `buffer` and `var_uint_read` check deadlock.

## Fairness

`Connection`, for each connection: a write completes, a reset is met, and after
an end of file each read completes. These are completions that the operating
system reports and `io_context::run` hands out; nothing is assumed of the peer.
`Handshake`: the reads, writes and accepts of both ends complete and the network
delivers; without it neither end could be expected to finish. `ConnectionIO`,
`NetworkBuffer`, `Inventory`, `Script`, `Mempool` and `Ledger` state no liveness and assume no fairness: nothing obliges
a peer to send, or anyone to add a transaction or to start the node again.

## Proofs

Every theorem is proved from the named assumptions on the constants of its module,
which TLC evaluates in every run; none uses fairness. A byte has any number of
values above 4 in them, a block of `readStr` any length.

**ConnectionProofs** proves for any set of connections, any versions and payloads
and any bound on inventories: `TypeCorrect`, `HandshakeFirstHolds`,
`RepliesKeptHolds`, `RegistryShapeHolds`, `AckIsFinalHolds` and `ReadsGrowHolds`.
The only assumptions are the named ones of `Connection`: `Outbound` is a subset of
`Conns`, versions are integers, payloads are sequences of resources, every connection
has an endpoint, and the bound is a natural number for each. Endpoints may be shared
in any way.

 1. `TypeStep`: `TypeOK` is inductive, one step for each action; `Reverse` and
    concatenation keep types (`ReverseType`, `ExtendTwice`).
 2. `HandshakeFirst` and `RepliesKept` are not inductive alone: that the first two
    messages are the handshake says nothing of what `idle()` will append.
    `WireInv` ties `written`, `bufferedMessages` and the two histories together in
    each status; `WireFlush`, `WireSend` and `WireKeep` say what the three ways of
    sending do to it, and `WireInvImplies` gives both properties.
 3. `RegistryShape` is inductive with `TypeOK` and `Unlinked`: a connection that is
    not accepted yet has handled nothing. `ShapeAccepted` is the
    insertion by `handleAccept`, which does nothing where the endpoint has an entry;
    `ShapeRegistered` the step to Ack, which erases the entry of the endpoint,
    whosever it is; `ShapeKept` all the others.
 4. `ReadsGrow` needs `OutboundLinked`: a bound connection is never accepted, and
    so never has the read that accepting starts.
 5. `AckIsFinal` follows from `TypeOK`, `Unlinked` and the step (`AckStep`).

**HandshakeProofs** begins with `ConnectionIO`, for which it uses only `TrafficAssumption`: what a peer sends has the types
of the model, and what the model leaves out of a message is blank.

 1. `ConnectionImplemented`: every step is a step of `Connection`, or leaves its
    variables alone. Beyond types nothing is needed of the state, because
    `Connection` lets a peer send anything: `MessageImplements` is what
    `handleMessage` does with whatever it finds, `HeaderImplements` the same of
    `handleHeader`, and `ConnectionStep` goes through the actions. So what
    `ConnectionProofs` shows of steps and invariants of `Connection`, which uses no
    fairness, holds of `ConnectionIO` too.
 2. `HandshakeIntactHolds` needs to know why reads that overlap later do not
    overlap yet. The invariant `IInv` follows a connection, while it is open and the
    peer begins as it should, through four stages: `NothingRead`, `HeaderSeen`,
    `Greeted` and `Acknowledged`. Before the node answers (`Unanswered`) at most one
    read is outstanding, one for each write completed or accepted connection; after
    the first message all the outstanding reads are of headers, and so it does not
    matter which of them meets the one of the acknowledgment; and what has arrived
    and is unread are the chunks that are still due (`Arriving`), so that the oldest
    read meets what it was started for (`ReadsMeet`). After the second message
    nothing more is claimed, and `handled_as_sent` shows that nothing could be.

Its second part, on `Handshake`, adds `EndsAssumption` and `TransmitAssumption`: there are two
ends, and what one end hands to the other is something that a peer may send. It
proves `FollowsGreetingHolds`, the safety half of `ImplementsGreeting`, and
`NoHalfOpenHolds`.

 1. What the network hands over is what a peer of `ConnectionIO` could send
    (`TransmitSends`, `StepAllowed`), so both ends keep the invariant `IInv` of
    `ConnectionIO`: the reads meet what they were started for.
 2. That is not enough, because a peer of `ConnectionIO` may send anything at any
    time. `Coupled` says what the other end being the same program adds: the number
    of messages handled gives the status, and the status what was written
    (`Standing`); what was sent is the beginning of what the far end wrote
    (`Delivered`); and of it the chunks not yet taken are in the inbox (`Left`).
 3. `TakeTurns` derives from it that of the pairs of statuses only those of
    `Greeting` occur; `ReadCouples`, `StartCouples` and `TransmitCouples` keep
    `Coupled`, and `GreetingStep` maps each step to one of `Greeting` or a stutter.

**Recursion** is what the other proofs need of recursive definitions. The prover
knows `FoldLeft`, or a function `f[n \in Nat]`, as a CHOOSE of a function that
satisfies an equation, and no more. The module is parameterised by the step (`Op`),
what is given to all steps, and where they start, and proves for any step and any
sequence that the function exists and satisfies its equation: `FoldEmpty`,
`FoldAppend`, `RecursiveSteps`; for a step that stays in a set (`Closed`) that the
results do, `FoldTyped` and `RecursiveTyped`; with `LeastNumber` and
`InductionOverNat`, induction for a set instead of a predicate. A module that folds
makes an instance.

**WireProofs** has the lemmas about the byte format. `NumberOfDigits` is induction
over the digits: reading them from the first place is dividing by the power of the
places that are left (`DivisionTwice`). From it follow `UintBack`, `VarUintBack` and
`VarUintInjective`; a text comes back by `StrBack`, and by `VarStrBack` with the
length in front. `UintShort`, `VarUintShort` and `StrShort` are the same cut short.

**NetworkBufferProofs** proves all of `NetworkBuffer`, for any fields in the range of
their type (`FieldsAssumption`), cut short anywhere: `TypeOKHolds`,
`FieldsAlignedHolds`, `ReadAsAppendedHolds`, `FailureIsFinalHolds`. That a field is
read as it was appended needs to know where the stream stands: `Aligned` says that
what is in it are the bytes of the fields not yet read, without those missing at the
end, and `LastCut` that these are missing from the last field alone.
`ReadBack` is a read with all its bytes, `ReadCut` one without, `UnreadFirst` and
`UnreadLast` what a read and an append do to the bytes still to be read.
Of a failed stream the one subtle case is a text announced as empty: `readStr` then
appends an array that it has not set, and its garbage is all that comes out
(`StrOfFailed`).

**InventoryProofs** proves of `Records` what readers make of bytes, and of `Inventory`
its three invariants, for messages of any size and any number of them:
`AnsweredInTurnHolds`, `MessagesReadableHolds` and `AskedAsAnnouncedHolds`.

 1. `Carries` says that a reader takes a text for a value and leaves what follows it;
    it passes from the fields to `Struct` and `Array` by induction over them, and so
    from `Wire` up to the constructors of all messages (`MessageCarries`): of a clean
    message they make what `ReadAs` says, whatever memory holds behind a C string and
    at the places of an array that is not set.
    `PayloadSame` is the way back: what was read has the bytes that it was read from,
    when nothing follows its texts in memory.
 2. `FrameArrives`: a frame leaves what is behind it and arrives with its payload,
    under the type that the array of its name shows (`FoundType`), its own or
    another. Only for a name with NULs behind it is that the type it was sent as
    (`FoundBeforeNULs`), by `FoundAssumption`: with the real names it rests on the
    order in which `getTypeFromString` looks for them, and TLC evaluates it for those
    of the run.
 3. The invariant is `IInvInventory`: the bytes under way to the node are the frames
    of the messages that it has not handled, one after the other, and those under
    way to the peer are one whole request for each message that was taken for an
    inventory (`Taken`), less those that were read (`ToPeer`). None of the three
    properties is inductive: they speak of the next
    message, of the number of requests, of what was read, and only the frames behind
    one another say that the next read finds one too. What the node answers to
    something unreadable, or to something that is no inventory, is a request all the
    same, and has to fit a frame: `TrafficAssumption` bounds what a payload may be
    read as, when it is taken for an inventory, by what an 8-byte length can count.
 4. All three hold for any memory; `Residues` and `Garbage` are any sets.
    `AnsweredInTurn` follows by counting frames, whatever they hold and whatever they
    were taken for. `AskedAsAnnounced` speaks of a request whose inventory was taken
    as one and had nothing behind its texts, and whatever came before it may have been
    taken for anything.
 5. `AskedAsAnnounced` rests on two changes of type undoing each other (`SwapTwice`)
    around a choice by `Exists` (`ThoseSwapped`). Its proof failed at first for a good
    reason: nothing keeps the number of resources that a request asks for from being
    one of those that are taken for whitespace, even when that of the announcement is
    not. Then the far end reads an empty request and the node never gets what it
    lacks. TLC shows it with an inventory of four of which three are lacked; the
    property says so now, and `ListCount` is what is read of such a number.

**ScriptProofs** proves all the invariants of `Script` for scripts of any length, any
signatures and whatever other memory shows: `TypeOKHolds`, `BytesKeptHolds` and
`OnlyEmptyDecidedHolds`. The bytes are kept because parsing two scripts behind one
another is parsing them as one (`ParseConcat`), and what was parsed is written as it
was (`Represented`). `OnlyEmptyDecided` is inductive with what holds before the output
is chained (`IInv`): the iterator is the script's own only until the copy, and null
then exactly for an empty script. `ElsewhereKeeps` covers every step over other memory,
`EndKeeps` the verdicts that no operation gives.

**LedgerProofs** proves of `Mempool`, for any outputs, transactions, databases and
heights: `TypeCorrect`, `WaitingNamedHolds`, `OrphansLackHolds` and `PoolImplemented`; and of
`Ledger`:
`StoredAsAddedHolds`, `MempoolImplemented` and `PoolOverDatabase`.

 1. Of `Mempool` they need only `TransactionsAssumption` (inputs and outputs are
    sequences) and `HeightsAssumption`. The inductive invariant is their
    conjunction, with `PoolLost` and `NoneRegular`, that nothing is in the main pool:
    none is inductive alone, since an entry stays true
    only while nothing that an orphan lacks can arrive. `NeverWorth` and
    `AddRegularIdle` close the way into the main pool (0 is not above 0), `OrphanLacks` is the step from
    the cardinalities that `isOrphan` compares to an input that is missing or named
    twice (`DistinctElements`), and `PoolMoves` maps each action to one of
    `TransactionPool` or a stutter.
 2. Of `Ledger` they assume that what is stored has the ranges of its types and a
    hash of full length (`StorableAssumption`, `DataAssumption`), and that `Mempool`
    allows for it (`DatabasesAssumption`). The invariant, `Stored`, is that the
    entries are those of the outputs added, with the bytes of their data. It is
    inductive because no two outputs have one key (`KeyInjective`: the hash has a
    fixed length, the index comes back from its bytes).
 3. `DataBack` reads those bytes again: each field leaves what follows it
    (`Regroup`), so that the height and the flag of a coinbase survive whatever comes
    behind them, and the rest does when the format carries it. With it `Stored`
    implies `StoredAsAdded` (`StoredReadBack`), and the pool is told exactly what was
    added (`ToldAsStored`), which makes every `add` and `spend` a `DatabaseChanges`
    of `Mempool` (`LedgerStep`).

Only model-checked:

- `ResetStopsNode`, `RegisterEachOther` and the second half of
  `ImplementsGreeting`, that the exchange ends: the prover has no liveness under
  fairness.
- The five disagreements above.

## Not modelled

- Memory that a write still reads after `sendMessage` has returned
  (`connection.cpp:59`): a write sends what it was given.
- Memory use: the count of a `Var_array`, the arrays of `readStr` and the three maps
  of `Node` have no limit in the code, and how far they grow is the subject of no
  property. No path removes a connection that has ended from a map: a registered peer
  that has closed stays there (`AckIsFinal`), in the way of the next one of its
  endpoint.
- A constructor of `Node` that fails to connect or to bind: the process never
  starts. The test objects that the constructor builds and drops.
- `Blockchain` and `BlockIndex`: the operations that would write the database are
  declared and not written, so that reading it always finds nothing; whether a block
  exists is a constant of `Connection` and `Inventory`.
- The shift of `Target` by `8 * (exponent - 3)`: nothing compares a target yet.
- Failures of LevelDB, and a process that ends while it writes: `add` and `spend` are
  one call of LevelDB each.
- The contents of hashes, keys and signatures; logging, JSON, directories.

## Plan

The order is that of what a running node does: connections and their handshake
first, then what passes over them, then what the messages are used for.

1. Done: `Connection`, `ConnectionIO`, `Greeting`, `Handshake`, and the proofs of all
   their invariants and of both refinements.
2. Done: `Wire`, `NetworkBuffer` and their proofs; `FixedStr`, `Records`, `Inventory`.
3. Done: `Script`, with the loop of `validateScript`, and its proofs.
4. Done: `Mempool`, `TransactionPool`, `UTXOManager`, `Ledger` and their proofs.
5. Left: `BlockIndex` and the target, once blocks are stored; `Register` of `Mempool`
   in full (the scripts that run in it change the transaction), once `validate` can
   accept one.
6. Done: the proofs of `Records` and `Inventory`. Of the safety that the runs check
   nothing is left to prove; liveness stays with TLC.
