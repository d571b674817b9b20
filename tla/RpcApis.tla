------------------------------ MODULE RpcApis ------------------------------
(***************************************************************************)
(* The RPC handlers of src/core/rpc/apis.go that read or write the        *)
(* address registry and the contract ABIs of the shared database.         *)
(*                                                                         *)
(* The RPC server serves every request in its own goroutine, so a        *)
(* GetTransaction or GetAllEventsFromAddress in progress interleaves with *)
(* AddABI, AddAddress and DeleteAddress calls. Each database call is one  *)
(* atomic step; the handlers' pure decoding runs inside the step of the   *)
(* database call whose result it uses. A database read may fail.          *)
(*                                                                         *)
(* Data is abstracted: an ABI is a model value naming the methods and     *)
(* events it describes (Describes), a transaction is its target, created *)
(* contract, called method and the (address, event) pairs it emitted.     *)
(***************************************************************************)
EXTENDS Naturals, Sequences, SequencesExt

CONSTANTS
    Addresses,        \* contract addresses
    Zero,             \* common.Address{0}
    ABIs,             \* ABI JSON strings abi.JSON accepts
    NotJSON,          \* strings abi.JSON rejects, "" among them
    NoABI,            \* "": what GetContractABI returns for no ABI
    Describes,        \* ABI -> the methods and events it can decode
    Transactions,     \* the transactions the database holds
    ConfigAddresses,  \* config.Reporting.Addresses given to Backend.New
    Clients           \* concurrent RPC requests reading the database

ASSUME /\ NoABI \in NotJSON
       /\ Describes \in [ABIs -> SUBSET UNION {{t.method} \cup
                              {e.event : e \in ToSet(t.events)} : t \in Transactions}]

NoneParsed == "nil"   \* a nil *types.ParsedEvent

VARIABLES
    addresses,   \* the registered addresses
    abi,         \* contract address -> stored ABI (NoABI when none)
    pc,          \* client -> "idle" | "txAbi" | "txEvents" | "evAbi" | "done"
    tx,          \* client -> the transaction read by GetTransaction
    k,           \* client -> index of the next event to decode
    txABI,       \* client -> the ABI the transaction was decoded with
    parsed,      \* client -> ParsedEvents: the ABI each event was decoded with
    query,       \* client -> the address GetAllEventsFromAddress asked for
    result,      \* client -> "none" | "ok" | "err"
    listed       \* client -> the addresses GetAddresses returned last

db == <<addresses, abi>>
handler == <<pc, tx, k, txABI, parsed, query, result, listed>>
vars == <<db, handler>>

AllAddresses == Addresses \cup {Zero}
Events == UNION {ToSet(t.events) : t \in Transactions}
ABIValue == ABIs \cup {NoABI}

TypeOK ==
    /\ addresses \subseteq AllAddresses
    /\ abi \in [AllAddresses -> ABIValue]
    /\ pc \in [Clients -> {"idle", "txAbi", "txEvents", "evAbi", "done"}]
    /\ tx \in [Clients -> Transactions]
    /\ txABI \in [Clients -> ABIValue]
    /\ parsed \in [Clients -> Seq(ABIs \cup {NoneParsed})]
    /\ query \in [Clients -> AllAddresses]
    /\ result \in [Clients -> {"none", "ok", "err"}]
    /\ listed \in [Clients -> SUBSET AllAddresses]

\* Backend.New: a fresh database with the configured addresses registered.
Init ==
    /\ addresses = ConfigAddresses
    /\ abi = [a \in AllAddresses |-> NoABI]
    /\ pc = [c \in Clients |-> "idle"]
    /\ tx = [c \in Clients |-> CHOOSE t \in Transactions : TRUE]
    /\ k = [c \in Clients |-> 1]
    /\ txABI = [c \in Clients |-> NoABI]
    /\ parsed = [c \in Clients |-> <<>>]
    /\ query = [c \in Clients |-> Zero]
    /\ result = [c \in Clients |-> "none"]
    /\ listed = [c \in Clients |-> {}]

-----------------------------------------------------------------------------
(***************************************************************************)
(* Writers: each is one database call.                                     *)
(***************************************************************************)
\* The zero address is rejected with "invalid input".
AddAddress(a) ==
    /\ addresses' = IF a = Zero THEN addresses ELSE addresses \cup {a}
    /\ UNCHANGED <<abi, handler>>

DeleteAddress(a) ==
    /\ addresses' = addresses \ {a}
    /\ UNCHANGED <<abi, handler>>

\* Mutant: data stored without the abi.JSON check.
AddABIUnchecked(a, data) ==
    /\ abi' = [abi EXCEPT ![a] = data]
    /\ UNCHANGED <<addresses, handler>>

\* abi.JSON rejects the data: the error is returned, nothing is stored.
AddABI(a, data) ==
    /\ data \notin NotJSON
    /\ abi' = [abi EXCEPT ![a] = data]
    /\ UNCHANGED <<addresses, handler>>

-----------------------------------------------------------------------------
(***************************************************************************)
(* Readers.                                                                *)
(***************************************************************************)
Idle(c) == pc[c] \in {"idle", "done"}
Return(c, res) == pc' = [pc EXCEPT ![c] = "done"] /\ result' = [result EXCEPT ![c] = res]
Fail(c) == Return(c, "err") /\ UNCHANGED <<tx, k, txABI, parsed, query, listed>>

\* The contract a transaction is decoded against: To, or the created
\* contract when To is the zero address.
Target(t) == IF t.to = Zero THEN t.createdContract ELSE t.to

\* r.db.ReadTransaction(hash); an error is returned as is.
GetTransaction(c) ==
    /\ Idle(c)
    /\ \E t \in Transactions :
          /\ tx' = [tx EXCEPT ![c] = t]
          /\ \/ /\ pc' = [pc EXCEPT ![c] = "txAbi"]
                /\ result' = [result EXCEPT ![c] = "none"]
             \/ Return(c, "err")
    /\ txABI' = [txABI EXCEPT ![c] = NoABI]
    /\ parsed' = [parsed EXCEPT ![c] = <<>>]
    /\ UNCHANGED <<db, k, query, listed>>

\* GetContractABI(address), then ParseTransaction and the nil ParsedEvents.
GetTransactionABI(c) ==
    /\ pc[c] = "txAbi"
    /\ LET a == abi[Target(tx[c])] IN
       \/ Fail(c)
       \/ /\ a = NoABI
          /\ Return(c, "ok")
          /\ UNCHANGED <<tx, k, txABI, parsed, query, listed>>
       \/ /\ a # NoABI
          /\ tx[c].method \notin Describes[a]
          /\ Fail(c)
       \/ /\ a # NoABI
          /\ tx[c].method \in Describes[a]
          /\ txABI' = [txABI EXCEPT ![c] = a]
          /\ parsed' = [parsed EXCEPT ![c] =
                          [j \in DOMAIN tx[c].events |-> NoneParsed]]
          /\ k' = [k EXCEPT ![c] = 1]
          /\ pc' = [pc EXCEPT ![c] = "txEvents"]
          /\ UNCHANGED <<tx, query, result, listed>>
    /\ UNCHANGED db

\* Mutant: an event whose ParseEvent fails is left undecoded, not an error.
GetTransactionEventLenient(c) ==
    /\ pc[c] = "txEvents"
    /\ k[c] <= Len(tx[c].events)
    /\ LET e == tx[c].events[k[c]]
           a == abi[e.address]
       IN  \/ Fail(c)
           \/ /\ parsed' = [parsed EXCEPT ![c][k[c]] =
                     IF a # NoABI /\ e.event \in Describes[a] THEN a
                     ELSE NoneParsed]
              /\ k' = [k EXCEPT ![c] = k[c] + 1]
              /\ UNCHANGED <<pc, tx, txABI, query, result, listed>>
    /\ UNCHANGED db

\* One iteration over RawTransaction.Events: GetContractABI(e.Address),
\* ParseEvent when an ABI is stored.
GetTransactionEvent(c) ==
    /\ pc[c] = "txEvents"
    /\ k[c] <= Len(tx[c].events)
    /\ LET e == tx[c].events[k[c]]
           a == abi[e.address]
       IN  \/ Fail(c)
           \/ /\ a # NoABI
              /\ e.event \notin Describes[a]
              /\ Fail(c)
           \/ /\ IF a = NoABI THEN TRUE ELSE e.event \in Describes[a]
              /\ parsed' = [parsed EXCEPT ![c][k[c]] =
                              IF a = NoABI THEN NoneParsed ELSE a]
              /\ k' = [k EXCEPT ![c] = k[c] + 1]
              /\ UNCHANGED <<pc, tx, txABI, query, result, listed>>
    /\ UNCHANGED db

GetTransactionReturn(c) ==
    /\ pc[c] = "txEvents"
    /\ k[c] > Len(tx[c].events)
    /\ Return(c, "ok")
    /\ UNCHANGED <<db, tx, k, txABI, parsed, query, listed>>

\* The events the database holds for an address (one page of them).
EventsOf(a) == SetToSeq({e \in Events : e.address = a})

\* r.db.GetAllEventsFromAddress(address, options).
GetAllEventsFromAddress(c) ==
    /\ Idle(c)
    /\ \E a \in AllAddresses :
          \/ /\ query' = [query EXCEPT ![c] = a]
             /\ pc' = [pc EXCEPT ![c] = "evAbi"]
             /\ result' = [result EXCEPT ![c] = "none"]
          \/ /\ query' = [query EXCEPT ![c] = a]
             /\ Return(c, "err")
    /\ txABI' = [txABI EXCEPT ![c] = NoABI]
    /\ parsed' = [parsed EXCEPT ![c] = <<>>]
    /\ UNCHANGED <<db, tx, k, listed>>

\* GetContractABI(address), then every event decoded with that one ABI.
GetAllEventsABI(c) ==
    /\ pc[c] = "evAbi"
    /\ LET a == abi[query[c]]
           evs == EventsOf(query[c])
       IN  \/ Fail(c)
           \/ /\ a # NoABI
              /\ \E j \in DOMAIN evs : evs[j].event \notin Describes[a]
              /\ Fail(c)
           \/ /\ IF a = NoABI THEN TRUE
                 ELSE \A j \in DOMAIN evs : evs[j].event \in Describes[a]
              /\ parsed' = [parsed EXCEPT ![c] =
                     [j \in DOMAIN evs |-> IF a = NoABI THEN NoneParsed ELSE a]]
              /\ Return(c, "ok")
              /\ UNCHANGED <<tx, k, txABI, query, listed>>
    /\ UNCHANGED db

\* r.db.GetAddresses(): the registered addresses, or an error.
GetAddresses(c) ==
    /\ Idle(c)
    /\ \/ /\ Return(c, "ok")
          /\ listed' = [listed EXCEPT ![c] = addresses]
       \/ /\ Return(c, "err")
          /\ listed' = [listed EXCEPT ![c] = {}]
    /\ txABI' = [txABI EXCEPT ![c] = NoABI]
    /\ parsed' = [parsed EXCEPT ![c] = <<>>]
    /\ UNCHANGED <<db, tx, k, query>>

Next ==
    \/ \E a \in AllAddresses : AddAddress(a) \/ DeleteAddress(a)
    \/ \E a \in AllAddresses, data \in ABIs \cup NotJSON : AddABI(a, data)
    \/ \E c \in Clients :
          \/ GetTransaction(c) \/ GetTransactionABI(c)
          \/ GetTransactionEvent(c) \/ GetTransactionReturn(c)
          \/ GetAllEventsFromAddress(c) \/ GetAllEventsABI(c)
          \/ GetAddresses(c)

Spec == Init /\ [][Next]_vars

-----------------------------------------------------------------------------
(***************************************************************************)
(* Properties                                                              *)
(***************************************************************************)

(***************************************************************************)
(* A successful GetTransaction that decoded the transaction also decoded  *)
(* every event the transaction's own contract emitted, even when AddABI   *)
(* calls ran between the handler's separate GetContractABI reads: AddABI  *)
(* cannot take a contract's ABI back to "" (abi.JSON rejects it), and an  *)
(* ABI replaced by one that lacks the event fails the whole call.         *)
(***************************************************************************)
OwnEventsDecoded ==
    \A c \in Clients :
        (pc[c] = "done" /\ result[c] = "ok" /\ txABI[c] # NoABI) =>
            \A j \in DOMAIN tx[c].events :
                tx[c].events[j].address = Target(tx[c]) =>
                    parsed[c][j] # NoneParsed

(***************************************************************************)
(* GetAddresses never lists the zero address: AddAddress refuses it as    *)
(* "invalid input", so the registry is meant not to hold it. It rests on  *)
(* every path that registers addresses applying that check, Backend.New   *)
(* registering config.Reporting.Addresses included.                       *)
(***************************************************************************)
ZeroAddressNeverListed == \A c \in Clients : Zero \notin listed[c]

=============================================================================
