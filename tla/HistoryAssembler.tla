-------------------------- MODULE HistoryAssembler --------------------------
(***************************************************************************)
(* What a storage-history query promises (spec 4.5, getHistory), stated   *)
(* without its loop: one call over an inclusive block range returns, in   *)
(* one step, either an error with no snapshots, or the ascending sparse    *)
(* list of the decoded snapshots of a set S of blocks of the range, while  *)
(* an indexer keeps persisting blocks.                                     *)
(*                                                                         *)
(* S holds every block that was persisted with a non-nil snapshot before  *)
(* the call began, and only blocks whose snapshot is non-nil and decodes. *)
(* An empty range never fails; a decode failure needs a block that does   *)
(* not decode. The call returns.                                           *)
(***************************************************************************)
EXTENDS Naturals, Sequences, SequencesExt

CONSTANTS BlockWidth, RawStorage, Undecodable, NoStorage, Requests

MaxBlock == 2^BlockWidth - 1
Blocks == 0..MaxBlock

VARIABLES storage, persisted, pc, startBlock, endBlock, historicStates,
          result, persistedAtCall

avars == <<storage, persisted, pc, startBlock, endBlock, historicStates,
           result, persistedAtCall>>

QueryRange == startBlock..endBlock
Snapshot(b) == [BlockNumber |-> b, HistoricStorage |-> storage[b]]
\* The snapshots of the blocks of S, by ascending block number.
SnapshotsOf(S) == LET bs == SetToSortSeq(S, <) IN
                  [k \in DOMAIN bs |-> Snapshot(bs[k])]
PersistedBefore == {b \in QueryRange : b < persistedAtCall /\ storage[b] # NoStorage}
Decodable == {b \in QueryRange : storage[b] \in RawStorage \ Undecodable}

Init ==
    /\ storage = [b \in Blocks |-> NoStorage]
    /\ persisted = 0
    /\ pc = "idle"
    /\ startBlock = 0 /\ endBlock = 0
    /\ historicStates = <<>>
    /\ result = "none"
    /\ persistedAtCall = 0

Persist ==
    /\ persisted <= MaxBlock
    /\ \E s \in RawStorage \cup {NoStorage} :
          storage' = [storage EXCEPT ![persisted] = s]
    /\ persisted' = persisted + 1
    /\ UNCHANGED <<pc, startBlock, endBlock, historicStates, result,
                   persistedAtCall>>

Call ==
    /\ pc \in {"idle", "done"}
    /\ \E r \in Requests : startBlock' = r[1] /\ endBlock' = r[2]
    /\ pc' = "busy"
    /\ historicStates' = <<>>
    /\ result' = "none"
    /\ persistedAtCall' = persisted
    /\ UNCHANGED <<storage, persisted>>

Finish(res, hist) ==
    /\ pc' = "done"
    /\ result' = res
    /\ historicStates' = hist
    /\ UNCHANGED <<storage, persisted, startBlock, endBlock, persistedAtCall>>

Return ==
    /\ pc = "busy"
    /\ \E S \in SUBSET Decodable :
          /\ PersistedBefore \subseteq S
          /\ Finish("ok", SnapshotsOf(S))

\* The fetch of some block of the range fails.
FetchFails == pc = "busy" /\ QueryRange # {} /\ Finish("err", <<>>)

\* Some block of the range holds a snapshot that does not decode.
DecodeFails ==
    /\ pc = "busy"
    /\ \E b \in QueryRange : storage[b] \in Undecodable
    /\ Finish("err", <<>>)

Next == Persist \/ Call \/ Return \/ FetchFails \/ DecodeFails

Spec == Init /\ [][Next]_avars /\ WF_avars(Return \/ DecodeFails)

=============================================================================
