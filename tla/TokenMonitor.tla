---------------------------- MODULE TokenMonitor ----------------------------
(***************************************************************************)
(* DefaultTokenMonitor.InspectTransaction (src/unnamed/part_002, package  *)
(* monitor): which contracts a transaction deploys, and which configured  *)
(* TokenRule, if any, classifies each of them as a token.                  *)
(*                                                                         *)
(* Candidates are collected in order: the created contract, the contract  *)
(* named by the first contract-extension event if it had no code at the  *)
(* previous block, then every CREATE/CREATE2 internal call. For each      *)
(* candidate the rules are tried in order; the first rule whose scope and *)
(* deployer fit and that detects the contract (ERC165 first, then the ABI *)
(* selectors in the bytecode) gives its template name, and the loop over  *)
(* rules stops. Any failing node call aborts the whole inspection.        *)
(*                                                                         *)
(* The node is abstracted to what the calls reveal of each contract: how  *)
(* it answers supportsInterface, which selectors its bytecode contains,   *)
(* and whether it had code one block earlier. One node call (an address   *)
(* and a call kind) may fail during an inspection. An event's data is the  *)
(* address it carries, or ShortData when it holds fewer than 32 bytes.     *)
(***************************************************************************)
EXTENDS Naturals, Sequences, SequencesExt, FiniteSets, FiniteSetsExt, TLC

CONSTANTS
    Addresses,       \* contract addresses
    Users,           \* externally owned accounts sending transactions
    NoAddr,          \* the empty types.Address
    Selectors,       \* 4-byte function and event signatures of the ABIs
    InterfaceIds,    \* ERC165 interface ids the rules name
    BadHex,          \* a rule's eip165 string that hex.DecodeString rejects
    RuleSets,        \* the rule lists the monitor may be configured with
    Transactions,    \* the transactions the monitor may inspect
    NoFault,         \* no node call fails
    ShortData        \* event data shorter than the 32-byte address word

\* Scopes of types.ExternalScope, InternalScope and AllScope.
Scopes == {"external", "internal", "all"}

\* The node calls InspectTransaction makes, by kind.
CallKinds == {"codeBefore", "eip165Sig", "eip165Check", "eip165Iface", "code"}
Faults == {NoFault} \cup (Addresses \X CallKinds)

\* How a contract answers supportsInterface: not at all, as ERC165
\* prescribes, or true for every argument.
EIP165Modes == {"none", "std", "all"}
\* (interfaces only matter to a contract answering as ERC165 prescribes)
ChainState ==
    {c \in [eip165 : EIP165Modes, interfaces : SUBSET InterfaceIds,
            code : SUBSET Selectors, codeBefore : BOOLEAN] :
        c.eip165 # "std" => c.interfaces = {}}

\* The zero address: no code, and every call to it returns false.
NoContract == [eip165 |-> "none", interfaces |-> {}, code |-> {},
               codeBefore |-> FALSE]

ContractExtensionTopic == "extension"
TemplateNames == UNION {{r[k].templateName : k \in DOMAIN r} : r \in RuleSets}

\* A transaction that deploys nothing: the state before any inspection.
NoTx == [from |-> CHOOSE u \in Users : TRUE, createdContract |-> NoAddr,
         events |-> <<>>, internalCalls |-> <<>>]

VARIABLES
    rules,           \* tm.rules
    chain,           \* what the node returns for each contract
    lastTx,          \* the transaction inspected last
    lastFault,       \* the node call that failed during that inspection
    result           \* what InspectTransaction returned, or that it panicked

vars == <<rules, chain, lastTx, lastFault, result>>

-----------------------------------------------------------------------------
(***************************************************************************)
(* The node calls.                                                         *)
(***************************************************************************)
Fails(a, kind, fault) == fault = <<a, kind>>

\* client.CallEIP165(address, sig): the contract's supportsInterface(sig).
SupportsInterface(a, sig) ==
    \/ chain[a].eip165 = "all"
    \/ /\ chain[a].eip165 = "std"
       /\ sig \in {"01ffc9a7"} \cup chain[a].interfaces

Ok(t) == [err |-> FALSE, type |-> t]
Err == [err |-> TRUE, type |-> ""]

(***************************************************************************)
(* The collection of candidate addresses, in order. The extension event   *)
(* costs a GetCode call at the previous block, which may fail.            *)
(***************************************************************************)
IsExtensionEvent(e) == e.topics = <<ContractExtensionTopic>>

\* Mutant: the created contract taken without the IsEmpty check.
CreatedCandidatesUnchecked(tx) ==
    <<[address |-> tx.createdContract, scope |-> "external",
       deployer |-> tx.from]>>

CreatedCandidates(tx) ==
    IF tx.createdContract # NoAddr
    THEN <<[address |-> tx.createdContract, scope |-> "external",
            deployer |-> tx.from]>>
    ELSE <<>>

\* [err, panic, seq]: the first extension event only, when the address is
\* new; Data.AsBytes()[12:32] panics on data shorter than 32 bytes.
ExtensionCandidates(tx, fault) ==
    LET ext == SelectSeq(tx.events, IsExtensionEvent)
        a == ext[1].dataAddress
        Ret(err, seq) == [err |-> err, panic |-> FALSE, seq |-> seq]
    IN  IF ext = <<>> THEN Ret(FALSE, <<>>)
        ELSE IF a = ShortData THEN [err |-> FALSE, panic |-> TRUE, seq |-> <<>>]
        ELSE IF Fails(a, "codeBefore", fault) THEN Ret(TRUE, <<>>)
        ELSE IF ~chain[a].codeBefore
             THEN Ret(FALSE, <<[address |-> a, scope |-> "external",
                                deployer |-> tx.from]>>)
             ELSE Ret(FALSE, <<>>)

IsCreate(ic) == ic.type \in {"CREATE", "CREATE2"}

InternalCandidates(tx) ==
    LET creates == SelectSeq(tx.internalCalls, IsCreate)
    IN  [k \in DOMAIN creates |-> [address |-> creates[k].to,
                                   scope |-> "internal",
                                   deployer |-> creates[k].from]]

-----------------------------------------------------------------------------
(***************************************************************************)
(* The rule checks.                                                        *)
(***************************************************************************)
checkRuleMeta(rule, meta) ==
    \/ rule.scope = "all"
    \/ /\ rule.scope = meta.scope
       /\ rule.deployer \in {NoAddr, meta.deployer}

\* Mutant: the rule's interface id decoded before the two ERC165 probes.
checkEIP165DecodeFirst(rule, a, fault) ==
    IF rule.eip165 = "" THEN Ok("")
    ELSE IF rule.eip165 = BadHex THEN Err
    ELSE IF Fails(a, "eip165Sig", fault) THEN Err
    ELSE IF ~SupportsInterface(a, "01ffc9a7") THEN Ok("")
    ELSE IF Fails(a, "eip165Check", fault) THEN Err
    ELSE IF SupportsInterface(a, "ffffffff") THEN Ok("")
    ELSE IF Fails(a, "eip165Iface", fault) THEN Err
    ELSE IF SupportsInterface(a, rule.eip165) THEN Ok(rule.templateName)
    ELSE Ok("")

\* [err, type]: "" when the rule does not detect the contract via ERC165.
checkEIP165(rule, a, fault) ==
    IF rule.eip165 = "" THEN Ok("")
    ELSE IF Fails(a, "eip165Sig", fault) THEN Err
    ELSE IF ~SupportsInterface(a, "01ffc9a7") THEN Ok("")
    ELSE IF Fails(a, "eip165Check", fault) THEN Err
    ELSE IF SupportsInterface(a, "ffffffff") THEN Ok("")
    ELSE IF rule.eip165 = BadHex THEN Err
    ELSE IF Fails(a, "eip165Iface", fault) THEN Err
    ELSE IF SupportsInterface(a, rule.eip165) THEN Ok(rule.templateName)
    ELSE Ok("")

\* Every function and event signature of the rule's ABI is in the bytecode.
checkAbiMatch(abi, code) == abi \subseteq code

\* Mutant: no break after a bytecode match; a later rule's match wins.
RECURSIVE CheckRulesNoBreak(_, _, _)
CheckRulesNoBreak(meta, k, fault) ==
    IF k > Len(rules) THEN Ok("")
    ELSE IF ~checkRuleMeta(rules[k], meta)
         THEN CheckRulesNoBreak(meta, k + 1, fault)
    ELSE LET e == checkEIP165(rules[k], meta.address, fault) IN
         IF e.err \/ e.type # "" THEN e
         ELSE IF Fails(meta.address, "code", fault) THEN Err
         ELSE IF /\ checkAbiMatch(rules[k].abi, chain[meta.address].code)
                 /\ rules[k].templateName # ""
              THEN LET later == CheckRulesNoBreak(meta, k + 1, fault) IN
                   IF later.err \/ later.type # "" THEN later
                   ELSE Ok(rules[k].templateName)
         ELSE CheckRulesNoBreak(meta, k + 1, fault)

\* [err, type]: rules k.. tried in order for one candidate; the first
\* detection ends the loop (break). checkBytecodeForTokens returns the
\* rule's templateName, so a match of a rule named "" continues the loop.
RECURSIVE CheckRules(_, _, _)
CheckRules(meta, k, fault) ==
    IF k > Len(rules) THEN Ok("")
    ELSE IF ~checkRuleMeta(rules[k], meta) THEN CheckRules(meta, k + 1, fault)
    ELSE LET e == checkEIP165(rules[k], meta.address, fault) IN
         IF e.err \/ e.type # "" THEN e
         ELSE IF Fails(meta.address, "code", fault) THEN Err
         ELSE IF /\ checkAbiMatch(rules[k].abi, chain[meta.address].code)
                 /\ rules[k].templateName # ""
              THEN Ok(rules[k].templateName)
         ELSE CheckRules(meta, k + 1, fault)

\* [err, tokens]: candidates j.. in order; a later detection of the same
\* address overwrites tokenContracts[address].
RECURSIVE InspectCandidates(_, _, _, _)
InspectCandidates(cands, j, tokenContracts, fault) ==
    IF j > Len(cands)
    THEN [err |-> FALSE, panic |-> FALSE, tokens |-> tokenContracts]
    ELSE LET r == CheckRules(cands[j], 1, fault) IN
         IF r.err THEN [err |-> TRUE, panic |-> FALSE, tokens |-> <<>>]
         ELSE InspectCandidates(cands, j + 1,
                 IF r.type # ""
                 THEN (cands[j].address :> r.type) @@ tokenContracts
                 ELSE tokenContracts,
                 fault)

InspectTransactionResult(tx, fault) ==
    LET ext == ExtensionCandidates(tx, fault) IN
    IF ext.err \/ ext.panic
    THEN [err |-> ext.err, panic |-> ext.panic, tokens |-> <<>>]
    ELSE InspectCandidates(CreatedCandidates(tx) \o ext.seq
                             \o InternalCandidates(tx), 1, <<>>, fault)

-----------------------------------------------------------------------------
Init ==
    /\ rules \in RuleSets
    /\ \E c \in [Addresses -> ChainState] : chain = (NoAddr :> NoContract) @@ c
    /\ lastTx = NoTx
    /\ lastFault = NoFault
    /\ result = [err |-> FALSE, panic |-> FALSE, tokens |-> <<>>]

\* The monitor inspects a transaction; at most one node call fails. A
\* panic ends the process, and with it the inspections.
InspectTransaction ==
    /\ ~result.panic
    /\ \E tx \in Transactions, fault \in Faults :
        /\ lastTx' = tx
        /\ lastFault' = fault
        /\ result' = InspectTransactionResult(tx, fault)
        /\ UNCHANGED <<rules, chain>>

Next == InspectTransaction

Spec == Init /\ [][Next]_vars

-----------------------------------------------------------------------------
(***************************************************************************)
(* Properties                                                              *)
(***************************************************************************)
TypeOK ==
    /\ rules \in RuleSets
    /\ lastFault \in Faults
    /\ result.err \in BOOLEAN /\ result.panic \in BOOLEAN
    /\ DOMAIN result.tokens \subseteq Addresses
    /\ \A a \in DOMAIN result.tokens : result.tokens[a] \in TemplateNames

(***************************************************************************)
(* The reference: a rule detects a contract when the contract implements  *)
(* ERC165 properly and supports the rule's interface, or when its         *)
(* bytecode carries every signature of the rule's ABI. An address is      *)
(* typed by the first rule, in configured order, that fits and detects    *)
(* it, taken at the last candidate entry for that address that any rule   *)
(* detects.                                                                *)
(***************************************************************************)
Detects(rule, a) ==
    \/ /\ rule.eip165 \in InterfaceIds
       /\ chain[a].eip165 = "std"
       /\ rule.eip165 \in chain[a].interfaces
    \/ rule.abi \subseteq chain[a].code

\* The contracts a transaction deploys, in order: its own creation, the
\* first extended contract that had no code before, its CREATE/CREATE2s.
Candidates(tx) ==
    LET Meta(a, scope, deployer) ==
            [address |-> a, scope |-> scope, deployer |-> deployer]
        exts == {k \in DOMAIN tx.events : IsExtensionEvent(tx.events[k])}
        ext == IF exts = {} THEN <<>>
               ELSE LET a == tx.events[Min(exts)].dataAddress
                    IN  IF chain[a].codeBefore THEN <<>>
                        ELSE <<Meta(a, "external", tx.from)>>
        creates == {k \in DOMAIN tx.internalCalls :
                       tx.internalCalls[k].type \in {"CREATE", "CREATE2"}}
    IN  (IF tx.createdContract = NoAddr THEN <<>>
         ELSE <<Meta(tx.createdContract, "external", tx.from)>>)
        \o ext
        \o [k \in 1..Cardinality(creates) |->
              LET ic == tx.internalCalls[CHOOSE m \in creates :
                         Cardinality({n \in creates : n <= m}) = k]
              IN  Meta(ic.to, "internal", ic.from)]

DetectingRules(meta) ==
    {k \in DOMAIN rules : checkRuleMeta(rules[k], meta)
                          /\ Detects(rules[k], meta.address)}

ExpectedTokens(tx) ==
    LET cs == Candidates(tx)
        det == {j \in DOMAIN cs : DetectingRules(cs[j]) # {}}
    IN  [a \in {cs[j].address : j \in det} |->
           LET j == Max({m \in det : cs[m].address = a})
           IN  rules[Min(DetectingRules(cs[j]))].templateName]

(***************************************************************************)
(* InspectTransaction either fails, or returns exactly the reference      *)
(* classification: never a partial map after a failing node call, never   *)
(* a later rule's type where an earlier rule matched, never a contract    *)
(* that answers supportsInterface(0xffffffff) taken as ERC165.            *)
(***************************************************************************)
InspectionCorrect ==
    ~result.err => result.tokens = ExpectedTokens(lastTx)

\* A rule whose eip165 string does not decode is reached for a candidate
\* that answers both ERC165 probes as the standard prescribes, no earlier
\* fitting rule having detected it.
BadHexReached(tx) ==
    LET cs == Candidates(tx) IN
    \E j \in DOMAIN cs, k \in DOMAIN rules :
        /\ rules[k].eip165 = BadHex
        /\ checkRuleMeta(rules[k], cs[j])
        /\ chain[cs[j].address].eip165 = "std"
        /\ \A m \in 1..(k - 1) : m \notin DetectingRules(cs[j])

(***************************************************************************)
(* InspectTransaction fails only for a reason: a node call failed, or     *)
(* checkEIP165 reached hex.DecodeString on a rule's undecodable interface *)
(* id for a contract that passed both ERC165 probes. And when every node  *)
(* call answers, reaching such a rule always fails the whole inspection:  *)
(* the configuration error is not confined to the rule, nor to contracts  *)
(* that implement ERC165 being skipped.                                    *)
(***************************************************************************)
ErrorsExplained ==
    /\ result.err => (lastFault # NoFault \/ BadHexReached(lastTx))
    /\ (lastFault = NoFault /\ BadHexReached(lastTx)) => result.err

(***************************************************************************)
(* InspectTransaction reports failures through its error result (the      *)
(* TokenMonitor interface): no transaction, whatever logs it carries,     *)
(* makes it panic. The extension branch slices Data.AsBytes()[12:32] on   *)
(* the assumption, stated in its comment, that the data is a 32-byte word. *)
(***************************************************************************)
NoPanic == ~result.panic

=============================================================================
