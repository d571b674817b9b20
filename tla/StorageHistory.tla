--------------------------- MODULE StorageHistory ---------------------------
(***************************************************************************)
(* RPCAPIs.GetStorageHistory (src/core/rpc/apis.go) for one contract      *)
(* address, racing the indexer that persists that address's raw storage   *)
(* block by block into the database.                                       *)
(*                                                                         *)
(* The handler walks i = startBlockNumber .. endBlockNumber with a Go      *)
(* uint64 counter, reads db.GetStorage(address, i) once per block, skips a *)
(* nil map, decodes everything else with parseRawStorage and appends       *)
(* {BlockNumber, HistoricStorage}; the first database or decode error      *)
(* returns (nil, err) and discards what was accumulated.                   *)
(*                                                                         *)
(* Data is abstracted: a raw storage map is a model value of RawStorage,   *)
(* NoStorage is the nil map the database yields for a block it holds       *)
(* nothing for, and parseRawStorage fails exactly on Undecodable.          *)
(***************************************************************************)
EXTENDS Naturals, Sequences, SequencesExt

CONSTANTS
    BlockWidth,     \* bit width of block numbers (uint64 in the code)
    RawStorage,     \* raw storage maps the indexer may persist
    EmptyStorage,   \* the non-nil empty map, a member of RawStorage
    Undecodable,    \* raw storage parseRawStorage rejects
    NoStorage,      \* the nil map: nothing persisted for that block
    Requests        \* <<startBlockNumber, endBlockNumber>> pairs callers send

\* Block numbers wrap at 2^BlockWidth, as uint64 does at 2^64.
MaxBlock == 2^BlockWidth - 1
Blocks == 0..MaxBlock

ASSUME /\ BlockWidth \in 1..4
       /\ EmptyStorage \in RawStorage
       /\ Undecodable \subseteq RawStorage
       /\ NoStorage \notin RawStorage
       /\ Requests \subseteq Blocks \X Blocks

VARIABLES
    storage,          \* database: block -> raw storage of the address
    persisted,        \* blocks 0..persisted-1 have been written by the indexer
    pc,               \* handler: "idle" | "loop" | "done"
    startBlock,       \* startBlockNumber of the current call
    endBlock,         \* endBlockNumber of the current call
    i,                \* the loop counter (uint64)
    historicStates,   \* the accumulated []*ParsedState
    result,           \* "none" | "ok" | "err": what the call returned
    fetched,          \* the blocks passed to db.GetStorage so far
    persistedAtCall   \* persisted when the call began (history variable)

db == <<storage, persisted>>
handler == <<pc, startBlock, endBlock, i, historicStates, result, fetched,
             persistedAtCall>>
vars == <<db, handler>>

StoredValue == RawStorage \cup {NoStorage}
ParsedState == [BlockNumber : Blocks, HistoricStorage : RawStorage]

\* i++ on a BlockWidth-bit unsigned integer.
Increment(n) == (n + 1) % (MaxBlock + 1)

(***************************************************************************)
(* Types; in particular every ParsedState the handler appends carries a   *)
(* decoded map, never the nil map of a block the database holds nothing   *)
(* for (the rawStorage == nil check before parseRawStorage).              *)
(***************************************************************************)
TypeOK ==
    /\ storage \in [Blocks -> StoredValue]
    /\ persisted \in 0..(MaxBlock + 1)
    /\ pc \in {"idle", "loop", "done"}
    /\ startBlock \in Blocks /\ endBlock \in Blocks /\ i \in Blocks
    /\ historicStates \in Seq(ParsedState)
    /\ result \in {"none", "ok", "err"}
    /\ fetched \subseteq Blocks
    /\ persistedAtCall \in 0..(MaxBlock + 1)

Init ==
    /\ storage = [b \in Blocks |-> NoStorage]
    /\ persisted = 0
    /\ pc = "idle"
    /\ startBlock = 0 /\ endBlock = 0 /\ i = 0
    /\ historicStates = <<>>
    /\ result = "none"
    /\ fetched = {}
    /\ persistedAtCall = 0

(***************************************************************************)
(* The indexer records the storage of the next block (NoStorage when it    *)
(* records nothing for the address there). Blocks are written in order and *)
(* never rewritten.                                                        *)
(***************************************************************************)
PersistBlock ==
    /\ persisted <= MaxBlock
    /\ \E s \in StoredValue :
          storage' = [storage EXCEPT ![persisted] = s]
    /\ persisted' = persisted + 1
    /\ UNCHANGED handler

\* A handler is entered: historicStates := [], i := startBlockNumber.
Enter(start, end) ==
    /\ pc \in {"idle", "done"}
    /\ startBlock' = start
    /\ endBlock' = end
    /\ i' = start
    /\ pc' = "loop"
    /\ historicStates' = <<>>
    /\ result' = "none"
    /\ fetched' = {}
    /\ persistedAtCall' = persisted
    /\ UNCHANGED db

GetStorageHistory == \E r \in Requests : Enter(r[1], r[2])

\* GetStorageHistoryTwo runs the same loop over the fixed range 1..1.
GetStorageHistoryTwo == Enter(1, 1)

\* The loop condition i <= endBlockNumber holds: one iteration reads block i.
LoopGuard ==
    /\ pc = "loop"
    /\ i <= endBlock
    /\ fetched' = fetched \cup {i}
    /\ UNCHANGED <<db, startBlock, endBlock, persistedAtCall>>

\* db.GetStorage returns an error: return nil, err.
GetStorageFails ==
    /\ LoopGuard
    /\ pc' = "done"
    /\ result' = "err"
    /\ historicStates' = <<>>
    /\ UNCHANGED i

\* rawStorage == nil: continue with i++.
SkipNilStorage ==
    /\ LoopGuard
    /\ storage[i] = NoStorage
    /\ i' = Increment(i)
    /\ UNCHANGED <<pc, historicStates, result>>

\* Mutant: the rawStorage == nil check dropped; a nil map is appended too.
AppendParsedStateNil ==
    /\ LoopGuard
    /\ storage[i] \notin Undecodable
    /\ historicStates' =
          Append(historicStates, [BlockNumber |-> i,
                                  HistoricStorage |-> storage[i]])
    /\ i' = Increment(i)
    /\ UNCHANGED <<pc, result>>

\* parseRawStorage succeeds: append the ParsedState, then i++.
AppendParsedState ==
    /\ LoopGuard
    /\ storage[i] \in RawStorage \ Undecodable
    /\ historicStates' =
          Append(historicStates, [BlockNumber |-> i,
                                  HistoricStorage |-> storage[i]])
    /\ i' = Increment(i)
    /\ UNCHANGED <<pc, result>>

\* Mutant: the decoded prefix returned alongside the error.
ParseFailsKeepsPrefix ==
    /\ LoopGuard
    /\ storage[i] \in Undecodable
    /\ pc' = "done"
    /\ result' = "err"
    /\ UNCHANGED <<i, historicStates>>

\* parseRawStorage fails: return nil, err.
ParseFails ==
    /\ LoopGuard
    /\ storage[i] \in Undecodable
    /\ pc' = "done"
    /\ result' = "err"
    /\ historicStates' = <<>>
    /\ UNCHANGED i

\* Mutant: the loop written as i < endBlockNumber.
ReturnHistoryEarly ==
    /\ pc = "loop"
    /\ ~(i < endBlock)
    /\ pc' = "done"
    /\ result' = "ok"
    /\ UNCHANGED <<db, startBlock, endBlock, i, historicStates, fetched,
                   persistedAtCall>>

\* The loop condition fails: return the ReportingResponseTemplate.
ReturnHistory ==
    /\ pc = "loop"
    /\ ~(i <= endBlock)
    /\ pc' = "done"
    /\ result' = "ok"
    /\ UNCHANGED <<db, startBlock, endBlock, i, historicStates, fetched,
                   persistedAtCall>>

\* The handler's steps that do not depend on the database failing.
HandlerProgress ==
    \/ SkipNilStorage
    \/ AppendParsedState
    \/ ParseFails
    \/ ReturnHistory

Handler == GetStorageFails \/ HandlerProgress

Next == PersistBlock \/ GetStorageHistory \/ GetStorageHistoryTwo \/ Handler

(***************************************************************************)
(* Only the handler is fair: once called it keeps running until it        *)
(* returns. A database error may end a call but is never forced to; the   *)
(* indexer may stop writing and callers may stop calling.                 *)
(***************************************************************************)
Spec == Init /\ [][Next]_vars /\ WF_vars(HandlerProgress)

-----------------------------------------------------------------------------
(***************************************************************************)
(* Properties                                                              *)
(***************************************************************************)
RangeBlocks == startBlock..endBlock
Listed == {historicStates[k].BlockNumber : k \in DOMAIN historicStates}
Succeeded == pc = "done" /\ result = "ok"

(***************************************************************************)
(* A successful GetStorageHistory read every block of the range and no     *)
(* other (no wrap of the uint64 counter, no off-by-one at                  *)
(* endBlockNumber), and returned a history strictly ascending by block,    *)
(* whose entries carry the storage the database holds for that block, and *)
(* which misses no block of the range that was already persisted, with    *)
(* non-nil storage, when the call began.                                   *)
(***************************************************************************)
HistoryFaithful ==
    Succeeded =>
      /\ fetched = RangeBlocks
      /\ \A k \in 1..(Len(historicStates) - 1) :
            historicStates[k].BlockNumber < historicStates[k + 1].BlockNumber
      /\ \A k \in DOMAIN historicStates :
            /\ historicStates[k].BlockNumber \in RangeBlocks
            /\ historicStates[k].HistoricStorage
                  = storage[historicStates[k].BlockNumber]
      /\ \A b \in RangeBlocks :
            (b < persistedAtCall /\ storage[b] # NoStorage) => b \in Listed

(***************************************************************************)
(* Every call of GetStorageHistory eventually returns, whatever the        *)
(* indexer does meanwhile.                                                 *)
(***************************************************************************)
Termination == (pc = "loop") ~> (pc = "done")

(***************************************************************************)
(* Spec 4.5: a block whose returned snapshot is empty is skipped; no       *)
(* snapshot is emitted for it. The code skips only a nil map.              *)
(***************************************************************************)
EmptySnapshotSkipped ==
    \A k \in DOMAIN historicStates :
        historicStates[k].HistoricStorage # EmptyStorage

(***************************************************************************)
(* Refinement: the handler implements the abstract query of spec 4.5. The *)
(* loop's steps are stuttering steps of the abstract call; its locals are *)
(* hidden until it returns.                                                *)
(***************************************************************************)
AH == INSTANCE HistoryAssembler WITH
        Requests <- Requests \cup {<<1, 1>>},
        pc <- IF pc = "loop" THEN "busy" ELSE pc,
        historicStates <- IF pc = "loop" THEN <<>> ELSE historicStates

(***************************************************************************)
(* GetStorageHistory and GetStorageHistoryTwo, racing the indexer, behave *)
(* as the abstract query: each call returns either an error with no       *)
(* snapshots (no decoded prefix) or an ascending sparse history that holds *)
(* every decodable block persisted before the call and nothing else, an   *)
(* empty range never fails, and every call returns.                        *)
(***************************************************************************)
ImplementsHistoryAssembler == AH!Spec

=============================================================================
