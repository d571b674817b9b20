# TLA+ models of quorum-reporting

This directory holds TLA+ models of the reporting tool in `src/`, the TLC
configurations that check them, and `PROJECT.json`. That file lists the
components, the runs, the mutants, which source lines each definition
models, the findings and the hazards.

## 1. Inventory

The repository snapshot under `src/` has these parts. Implementation code:

| Part | Source | State it keeps | Operations |
|---|---|---|---|
| Backend | `src/core/backend.go` | `lastPersisted`, the monitor, filter and RPC services | `New` (client, in-memory DB, last persisted block, configured addresses), `Start` (three goroutines, wait for SIGINT/SIGTERM, deferred stop of rpc and filter) |
| RPC APIs | `src/core/rpc/apis.go` | none of its own; reads and writes the shared `database.Database` | `GetStorageHistory`, `GetStorageHistoryTwo`, `GetTransaction`, `GetAllEventsFromAddress`, `AddAddress`, `DeleteAddress`, `AddABI` and pass-throughs |
| Token monitor | `src/unnamed/part_002` (package `monitor`) | the configured `[]TokenRule` and the node client | `InspectTransaction`, `checkRuleMeta`, `checkEIP165`, `checkBytecodeForTokens`, `checkAbiMatch` |

Test-only code:

- **Storage parser tests** (`src/unnamed/part_002` lines 1-99): `roundUpTo32`, `hash` and `ExtractFromSingleStorage`, the on-chain storage decoder that `spec.md` describes. Its implementation is not under `src/`.
- **Elasticsearch database tests** (`src/unnamed/part_000`, `part_001`): mock-based tests of request shapes.

How the parts interact. `Backend.Start` runs the monitor, the filter and the
RPC server concurrently. All three share the database. The monitor writes
blocks, transactions and each contract's raw storage per block, calling
`InspectTransaction` to find new token contracts. The RPC handlers read
these records and can add or delete tracked addresses. `GetStorageHistory`
reads one block of raw storage at a time while the monitor keeps writing.
`InspectTransaction` makes a series of node calls (`GetCode`,
`CallEIP165`), and any one of them can fail.

What is hard:

- **Interleaving.** An RPC read loop runs against concurrent persistence. The three services start and stop in whatever order the Go scheduler picks.
- **Numeric edges.** `GetStorageHistory` counts blocks with a uint64.
- **Partial failure.** One failing node call or database read aborts a whole inspection or query.
- **Ordering.** Rules are tried in order and the first match breaks out of the loop. Candidate addresses can overwrite each other.
- **Protocol sequence.** ERC165 detection is a three-call handshake.

What makes each part correct:

- **GetStorageHistory** reads each block of the inclusive range once. It returns an ascending history that matches the database and skips nothing already persisted. It always returns. It skips empty snapshots (spec §4.5).
- **InspectTransaction** classifies each deployed contract by the first rule that fits and detects it. It never returns a partial answer when a call fails.
- **Backend** starts every service and stops every service it started.
- **Storage decoder** (spec §3-4): `roundUpTo32` is the least multiple of 32 that is ≥ n. Extraction reads a right-aligned window. Slot addresses follow the layout rules.

## 2. Plan

In order of importance:

1. `StorageHistory` (done): `GetStorageHistory` against a concurrent indexer. This is the query the spec centres on (HistoryAssembler). `GetStorageHistoryTwo` is the same loop at a fixed range (done).
2. `TokenMonitor` (done): `InspectTransaction` against any single node failure, checked against a declarative reference classification.
3. `HistoryAssembler` (done): the abstract query of spec §4.5, with `StorageHistory` shown to implement it through `INSTANCE ... WITH`.
4. `RpcApis` (done): `GetTransaction` and `GetAllEventsFromAddress` as step-by-step readers racing `AddABI`, `AddAddress` and `DeleteAddress`.
5. `Backend` (done): the goroutine start/stop lifecycle, the signal and the `lastPersisted` hand-off to the filter.
6. `StorageLayout`: dropped. The decoder's implementation (`roundUpTo32`, `hash`, `ExtractFromSingleStorage`, slot resolution) is not under `src/`. A module written from spec §3-4 could only be checked against spec §8, which is the spec checked against itself, with no code to be faithful to. See §4.
7. `BytecodeMatch` (done): `checkAbiMatch` on the hex text, checked against a byte-level reference. It is a pure algorithm, checked over every bounded input.

## 3. Modules and runs

### StorageHistory (`StorageHistory.tla`, `MCStorageHistory.tla`)

Variables:

- `storage` and `persisted`: the database's raw storage of one address per block, and the frontier up to which the indexer has written it.
- `pc`, `startBlock`, `endBlock`, `i`, `historicStates`, `result`: the handler's locals and its return value.
- `fetched` and `persistedAtCall`: history variables used by the properties.

Actions:

- **`PersistBlock`**: the indexer. It is modelled from the spec, because the database is not under `src/`.
- **`GetStorageHistory`**: entry into the handler.
- **One action per iteration outcome:**
  - `GetStorageFails` (return nil, err);
  - `SkipNilStorage` (continue);
  - `AppendParsedState`;
  - `ParseFails`.
- **`ReturnHistory`**: the loop exits.

`Increment` is `i++` modulo 2^`BlockWidth`, which is the uint64 wrap at a
smaller width.

Bounds: `BlockWidth = 2` gives blocks 0..3, enough for an empty range, a
range of one block, longer ranges and the range ending at the last block.
There are three raw storage values: decodable, empty and undecodable. The
nil map is `SNil`. In `history_safety` a `CONSTRAINT` caps the history at
one entry per block. Without wrap-around it is never reached. With
wrap-around it stops the otherwise endless loop.

Fairness: weak fairness on the handler's steps other than a database
error. A running goroutine keeps executing. Errors may happen but are never
forced. The indexer and callers get no fairness.

Runs:

- **`history_safety`** (pass): `TypeOK`, `HistoryFaithful`. `TypeOK` requires every appended entry to hold a decoded map, never the nil map that the `rawStorage == nil` check skips. A successful call read exactly the range, its history is strictly ascending, and each entry holds the stored value. It misses no block persisted before the call began.
- **`history_max_end`** (violation, code bug): with `endBlockNumber` at the maximum, `i++` wraps and the call never returns.
- **`history_empty_snapshot`** (violation, spec/code divergence): a non-nil empty map is emitted as a snapshot. Spec §4.5 says such a block is skipped.

`GetStorageHistoryTwo` enters the same loop with the range 1..1 (`Enter`
is shared by both entries).

### HistoryAssembler (`HistoryAssembler.tla`): the abstract query

This module states what spec §4.5 promises, without a loop. A call is one
`Call` step and one returning step. The returning step is one of:

- `Return`: the ascending snapshots of a set S of blocks of the range. S holds every block persisted with a non-nil snapshot before the call, and only blocks whose snapshot decodes.
- `FetchFails`: allowed only for a non-empty range.
- `DecodeFails`: allowed only when some block of the range does not decode.

An error carries no snapshots. Weak fairness on returning makes every call
end.

`StorageHistory` maps onto it with `AH == INSTANCE HistoryAssembler WITH`.
While the loop runs, the mapping shows `pc` as `"busy"` and the history as
empty. Each loop iteration is therefore an abstract stuttering step, and
the loop's exit is the abstract return.

Run **`history_refinement`** (pass) checks `ImplementsHistoryAssembler`,
that is `AH!Spec` with its fairness. Because the abstract spec makes every
call return, this also shows that every call returns under weak fairness of
the handler alone. It is checked over the ranges that end below the last block.
`history_max_end` shows why the last block must be excluded.

### RpcApis (`RpcApis.tla`, `MCRpcApis.tla`)

The go-ethereum RPC server serves each request in its own goroutine.

Writers are one atomic step each:

- `AddAddress`, which rejects the zero address;
- `DeleteAddress`;
- `AddABI`, which stores nothing unless `abi.JSON` accepts the data.

Readers keep their locals per client (`pc`, `tx`, `k`, `txABI`, `parsed`,
`query`, `result`, `listed`), and each step is one database call:

- `GetTransaction`: `ReadTransaction`.
- `GetTransactionABI`: the target's ABI and `ParseTransaction`. The target is `To`, or the created contract when `To` is zero.
- `GetTransactionEvent`: one event's ABI and `ParseEvent`, once per event.
- `GetTransactionReturn`.
- `GetAllEventsFromAddress`, then `GetAllEventsABI`.
- `GetAddresses`: one read of the registry into `listed`.

A call resets the per-client values that describe the previous call, so
the properties read them as the last call's.

`Init` is `Backend.New`, which registers `config.Reporting.Addresses`.

Every read may fail. ABI parsing is abstracted to which methods and events
an ABI describes. The database's own methods are outside `src/`. The model
assumes an ABI is only ever replaced, never removed, and that
`GetAllEventsFromAddress` returns the indexed events of the address.

Bounds:

- two contracts plus the zero address;
- one RPC reader (readers share no state, so a second one adds nothing);
- two valid ABI versions: the second lacks the event;
- `""` and one malformed string;
- three transactions:
  - a call emitting events of its own and another contract;
  - a creation;
  - a call to a contract without an ABI.

Run **`rpc_abi_race`** (pass) checks `TypeOK` and `OwnEventsDecoded`. A
successful `GetTransaction` that decoded the transaction also decoded every
event of the transaction's own contract, whatever `AddABI` did between the
two ABI reads. This rests on two things:

- `AddABI`'s validation: an ABI cannot be set back to `""`;
- the abort on a failed `ParseEvent`.

Run **`rpc_zero_address`** (violation, code bug) checks
`ZeroAddressNeverListed` with a configuration that lists the zero address.
A configuration entry can parse to that address. `AddAddress` refuses the
zero address as "invalid input", but `Backend.New` registers the
configured addresses without that check (`backend.go:33`), so
`GetAddresses` lists it two steps in.

### Backend (`Backend.tla`, `MCBackend.tla`)

`main` follows `New` and `Start` line by line:

- the three `go` statements (`GoMonitor`, `GoFilter`, `GoRpc`);
- `Notify` (the defer and `signal.Notify` on a buffered channel);
- `WaitSignal`: the goroutine, back from `Notify`, reaches `<-sigs` and
  blocks there. This is a separate step, since a signal can arrive in between;
- `Receive`;
- the deferred `StopRpc` and `StopFilter`, after which the process ends.

`StartService(s)` is the launched goroutine running `Start`. It may come
after the cleanup has already stopped that service.

`Signal` is the environment:

- **Before `Notify`:** the default action ends the process.
- **Afterwards:** the signal waits in the channel's one slot. This holds
  even if the main goroutine is not yet blocked in the receive, because
  `signal.Notify` sends without blocking and relies on that buffer.

Two services have loops outside `src/`, so they are modelled only by their
role:

- **Monitor (`PersistBlock`):** persists blocks in order.
- **Filter (`FilterBlock`):** indexes persisted blocks from the block it was given.

Fairness: weak fairness on the main goroutine and on each service. The Go
scheduler eventually runs every runnable goroutine. Signals are never
forced.

`CHECK_DEADLOCK FALSE`: the process really stops, either when `Start`
returns or when a signal kills it. It also idles while it waits for a
signal.

Bound: three blocks, so the monitor and filter can still be working at
any point of the start-up and shutdown sequence when a signal arrives.

Run **`backend_lifecycle`** (pass) checks `ShutdownOnSignal`: every signal
ends the process. It ends either by the default action or through the
receive and the deferred cleanup. The mutant `SignalUnbuffered` gives
`sigs` no buffer, so a signal that arrives between `Notify` and
`<-sigs` is dropped and the process waits forever. This is the mistake
`go vet` warns about. The run fires `WaitSignal` with a signal pending.

### TokenMonitor (`TokenMonitor.tla`, `MCTokenMonitor.tla`)

`InspectTransactionResult` mirrors the code's loops as RECURSIVE operators:

- `CheckRules` is the loop over rules with its `continue`, `break` and early returns. A bytecode match of a rule whose `templateName` is empty returns `""` from `checkBytecodeForTokens`, so the loop goes on, as in the code.
- `InspectCandidates` is the loop over candidates, where a later entry overwrites an earlier one.

`checkEIP165` is translated step by step. The node is a per-contract record:

- how it answers `supportsInterface` (not at all, correctly per ERC165, or true to everything);
- the signatures in its bytecode;
- whether it had code one block earlier.

One node call, identified by address and call kind, may fail in each inspection.

The state is the configured rules, the chain, and the last inspection: its
transaction, its failure and its result. Each `InspectTransaction` step
inspects any transaction of the set.

Bounds:

- two contracts, two senders, two signatures and one interface id;
- every contract behaviour over these;
- three rule lists: two rules matching the same contract, an undecodable eip165 string, and an empty ABI;
- six transactions: creation, internal CREATE/CREATE2, extension events (including a second one that the code ignores), a plain CALL, and one that reaches the same contract through an extension event and an internal CREATE, so a later candidate's classification overwrites an earlier one.

Run **`token_inspection`** (pass) checks:

- `TypeOK`;
- `InspectionCorrect`: every successful result equals a declarative reference. The reference takes the least detecting rule per candidate, the last detected entry per address, and ERC165 only for contracts that answer `0xffffffff` with false.

- `ErrorsExplained`: an inspection fails only for one of two reasons. Either a node call failed, or `checkEIP165` reached the `hex.DecodeString` of a rule's undecodable interface id for a candidate that passed both ERC165 probes, with no earlier fitting rule detecting that candidate. When every call answers, reaching such a rule always fails the inspection. One misconfigured rule therefore fails every transaction that deploys a matching ERC165 contract, but nothing else.

This covers the `break`, the overwrite order, the handshake, the abort on failure, and the place of the decode in the handshake.

An extension event's data is either the address it carries or `ShortData`,
meaning fewer than the 32 bytes that `Data.AsBytes()[12:32]` slices. A
panic sets `result.panic` and ends the inspections.

Run **`token_short_data`** (violation, code bug) adds to the transaction
set a transaction whose log has the extension topic and short data. Any
contract can emit such a log. `NoPanic` fails in one step:
`InspectTransaction` panics on the slice instead of returning an error.

### BytecodeMatch (`BytecodeMatch.tla`, `MCBytecodeMatch.tla`)

This module models `checkBytecodeForTokens` and `checkAbiMatch` on the hex
text itself, where `TokenMonitor` abstracts bytecode to a set of
signatures:

- `Hex` is `HexData.String()` and `Signature()`: two hex digits per byte.
- `StringsContains` is `strings.Contains`.
- One `CheckBytecode` step checks one ABI (at most one function and one
  event) against one bytecode.

Bounds: hex digits {0, 1}, 2-byte signatures, and bytecode of up to 3
bytes. This is enough for a signature to occur both on and off a byte
boundary. The 24 566 states are every such input.

Two assumptions come from the `types` package, which is outside `src/`:

- both texts are plain lower-case hex;
- any `0x` prefix is two characters long, so it cannot move an offset by
  half a byte.

`CHECK_DEADLOCK FALSE`: each behaviour is one call, which returns.

- **`bytecode_complete`** (pass): `MatchesEveryCarrier`. A contract whose
  bytes carry every signature of the ABI is always matched. An ABI with no
  signatures matches every contract. The mutant uses `HasPrefix` in place of
  `Contains`.
- **`bytecode_nibble`** (violation, code bug): `MatchesWholeBytes`. Bytecode
  `10 00 01` is taken to carry the signature `00 00`. Its hex text `100001`
  contains `0000` half a byte off, although the bytecode holds no such
  bytes. The comment at the call says that every "4bytes" of the ABI is
  checked.

### Mutants

Each property of a passing run is killed by a mutant in `PROJECT.json`:

- the `rawStorage == nil` check dropped, so a nil map is appended (`TypeOK`);
- the loop written as `i < end` (`HistoryFaithful`);
- the missing `IsEmpty` check on the created contract (`TypeOK`);
- the missing `break` after a bytecode match (`InspectionCorrect`);
- the decoded prefix returned with a decode error (`ImplementsHistoryAssembler`);
- `AddABI` without `abi.JSON` validation (`TypeOK` of `RpcApis`);
- an event whose `ParseEvent` fails left undecoded instead of failing the call (`OwnEventsDecoded`);
- an unbuffered `sigs` channel (`ShutdownOnSignal`);
- the rule's interface id decoded before the two ERC165 probes (`ErrorsExplained`);
- `strings.HasPrefix` in place of `strings.Contains` (`MatchesEveryCarrier`).

## 4. Not modelled, and why

- **Elasticsearch layer:** only tests are present, and the spec puts it out of scope.
- **Node client:** external. It appears only as call results and failures.
- **Storage decoder:** its implementation is not under `src/`. Only its tests are (`src/unnamed/part_002` lines 1-99). Its operators are pure functions with no interleaving, and they would be written from spec §3-4 and checked against the vectors of spec §8 that those tests already pin. That shows nothing about this repository's code. Its one interaction with modelled code, decode success or failure inside `GetStorageHistory`, is modelled abstractly in `StorageHistory` (`Undecodable`).
- **Log output, `fmt.Println` and JSON formatting:** no property depends on them. Hex formatting is modelled only in `BytecodeMatch`, where a property depends on it.
- **`eip165Sig`** is decoded from the odd-length string `"01ffc9a70"`, and the error is discarded. The model takes the 4-byte prefix, `01ffc9a7`, which is what `hex.DecodeString` returns together with `ErrLength`. This is listed as a hazard.
- **Read-only RPC pass-throughs:** `GetLastPersistedBlockNumber`, `GetBlock`, `GetContractCreationTransaction`, `GetAllTransactions*ToAddress`, `GetStorage` and `GetABI` are single database reads that change no state.
- **Database, monitor service and filter service:** their implementations are not under `src/`. They appear only as the effects the modelled code relies on: an ABI map, a persisted frontier, and in-order persistence and indexing.
- **Stop on a service that never started:** what it does is not under `src/`. The model shows the interleaving but asserts nothing about it.
- **The zero address in the configuration:** the configuration loader is not under `src/`. `rpc_zero_address` shows what follows if it lets that address through.
