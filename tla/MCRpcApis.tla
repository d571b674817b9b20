----------------------------- MODULE MCRpcApis -----------------------------
(***************************************************************************)
(* Instantiates RpcApis for TLC: two contracts, an ABI that decodes the   *)
(* call and the event and a later version that lacks the event, "" and   *)
(* one malformed string, and three transactions: a call to A1 emitting    *)
(* events of A1 and A2, a creation of A2 (To is the zero address), and a *)
(* call to A2 emitting an event of A1.                                     *)
(***************************************************************************)
EXTENDS RpcApis

CONSTANTS A1, A2, Z, AbiFull, AbiNoEvent, Empty, Malformed, C1

MCAddresses == {A1, A2}
MCABIs == {AbiFull, AbiNoEvent}
MCNotJSON == {Empty, Malformed}
MCDescribes == (AbiFull :> {"call", "ev"}) @@ (AbiNoEvent :> {"call"})

Ev(a) == [address |-> a, event |-> "ev"]
MCTransactions ==
    { [to |-> A1, createdContract |-> Z, method |-> "call",
       events |-> <<Ev(A1), Ev(A2)>>],
      [to |-> Z, createdContract |-> A2, method |-> "call",
       events |-> <<Ev(A2)>>],
      [to |-> A2, createdContract |-> Z, method |-> "call",
       events |-> <<Ev(A1)>>] }

MCConfigAddresses == {A1}
\* A configuration listing the zero address, e.g. an entry that parsed to it.
MCConfigWithZero == {A1, Z}
MCClients == {C1}
=============================================================================
