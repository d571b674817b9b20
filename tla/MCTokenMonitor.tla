-------------------------- MODULE MCTokenMonitor --------------------------
(***************************************************************************)
(* Instantiates TokenMonitor for TLC: two contracts, two senders, two ABI  *)
(* signatures and one ERC165 interface id; every contract behaviour over  *)
(* those; three rule lists in which two rules can match the same contract *)
(* (so rule order matters), one with an undecodable eip165 string and one *)
(* with an empty ABI; and transactions exercising each candidate source,   *)
(* one of them reaching the same contract through two candidates.          *)
(***************************************************************************)
EXTENDS TokenMonitor

CONSTANTS A1, A2, U1, U2, Zero, F1, F2, None

MCAddresses == {A1, A2}
MCUsers == {U1, U2}
MCSelectors == {F1, F2}
MCInterfaceIds == {"80ac58cd"}
MCBadHex == "80ac58cz"

Rule(scope, deployer, name, eip165, abi) ==
    [scope |-> scope, deployer |-> deployer, templateName |-> name,
     eip165 |-> eip165, abi |-> abi]

MCRuleSets == {
    \* a catch-all ERC20 rule ahead of a scoped ERC721 rule
    << Rule("all", Zero, "ERC20", "", {F1}),
       Rule("external", U1, "ERC721", "80ac58cd", {F1, F2}) >>,
    \* an internal-scope rule restricted to one deployer, then a rule
    \* whose interface id does not decode
    << Rule("internal", A1, "ERC721", "80ac58cd", {F2}),
       Rule("all", Zero, "ERC20", MCBadHex, {F1}) >>,
    \* a scoped rule, then one whose empty ABI matches any contract
    << Rule("external", Zero, "ERC20", "", {F1}),
       Rule("all", Zero, "Any", "", {}) >> }

Ev(topic, a) == [topics |-> <<topic>>, dataAddress |-> a]
Call(type, from, to) == [type |-> type, from |-> from, to |-> to]
Tx(from, created, events, calls) ==
    [from |-> from, createdContract |-> created, events |-> events,
     internalCalls |-> calls]

MCTransactions == {
    Tx(U1, A1, <<>>, <<>>),
    Tx(U2, A1, <<Ev("other", A2)>>, <<Call("CREATE", A1, A2)>>),
    Tx(U1, Zero, <<Ev("other", A1), Ev("extension", A2)>>, <<>>),
    Tx(U2, Zero, <<Ev("extension", A1), Ev("extension", A2)>>,
       <<Call("CALL", A1, A2)>>),
    Tx(U1, Zero, <<>>, <<Call("CREATE2", A2, A1), Call("CREATE", A1, A2)>>),
    \* A1 reached twice: through an extension event and an internal CREATE
    Tx(U1, Zero, <<Ev("extension", A1)>>, <<Call("CREATE", A2, A1)>>) }

\* Any contract can emit a log whose one topic is the extension topic; here
\* with data shorter than a 32-byte word.
MCShortDataTransactions ==
    MCTransactions \cup {Tx(U2, A1, <<Ev("extension", ShortData)>>, <<>>)}
=============================================================================
