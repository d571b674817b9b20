--------------------------- MODULE BytecodeMatch ---------------------------
(***************************************************************************)
(* checkBytecodeForTokens and checkAbiMatch (src/unnamed/part_002): the   *)
(* bytecode fallback of token detection. A rule's ABI matches a contract  *)
(* when the signature of every function and of every event occurs in the  *)
(* bytecode, tested with strings.Contains on their hex texts.              *)
(*                                                                         *)
(* Bytes are pairs of nibbles over a small alphabet; a hex text is the    *)
(* sequence of nibbles, two per byte, in order. A "0x" prefix on either   *)
(* text is two characters long and shifts no offset by half a byte, so it *)
(* is left out. Signatures are SigBytes long (4 in the code).              *)
(***************************************************************************)
EXTENDS Naturals, Sequences, SequencesExt

CONSTANTS
    Nibbles,      \* hex digits
    SigBytes,     \* bytes of a function or event signature
    CodeBytes,    \* longest bytecode inspected
    TemplateName  \* the rule's templateName

Bytes == Nibbles \X Nibbles
Words(n) == [1..n -> Bytes]
Codes == UNION {Words(n) : n \in 0..CodeBytes}
Sigs == Words(SigBytes)
\* ABIs with at most one function and at most one event.
ABIs == [functions : {{}} \cup {{s} : s \in Sigs},
         events : {{}} \cup {{s} : s \in Sigs}]

VARIABLES
    code,          \* the contract bytecode GetCode returned
    abi,           \* the rule's ABI
    contractType,  \* what checkBytecodeForTokens returned
    checked        \* the check has run

vars == <<code, abi, contractType, checked>>

\* HexData.String() and Signature(): two hex digits per byte.
Hex(bytes) == FlattenSeq([i \in DOMAIN bytes |-> <<bytes[i][1], bytes[i][2]>>])

\* Mutant: strings.HasPrefix in place of strings.Contains.
StringsHasPrefix(s, substr) == IsPrefix(substr, s)

\* strings.Contains(s, substr).
StringsContains(s, substr) == \E suf \in Suffixes(s) : IsPrefix(substr, suf)

checkAbiMatch(abiToCheck, data) ==
    /\ \A b \in abiToCheck.functions : StringsContains(Hex(data), Hex(b))
    /\ \A event \in abiToCheck.events : StringsContains(Hex(data), Hex(event))

checkBytecodeForTokens(rule, data) ==
    IF checkAbiMatch(rule, data) THEN TemplateName ELSE ""

Init ==
    /\ code = <<>>
    /\ abi = [functions |-> {}, events |-> {}]
    /\ contractType = ""
    /\ checked = FALSE

\* InspectTransaction falls back to the bytecode for one rule.
CheckBytecode ==
    /\ ~checked
    /\ \E c \in Codes, a \in ABIs :
          /\ code' = c
          /\ abi' = a
          /\ contractType' = checkBytecodeForTokens(a, c)
    /\ checked' = TRUE

Spec == Init /\ [][CheckBytecode]_vars

-----------------------------------------------------------------------------
\* The reference: the signature's bytes occur in the bytecode's bytes.
CarriesSignature(data, sig) ==
    \E i \in 0..(Len(data) - Len(sig)) : SubSeq(data, i + 1, i + Len(sig)) = sig

(***************************************************************************)
(* The bytecode check matches a rule exactly when the bytecode contains   *)
(* every 4-byte signature of the rule's ABI, as the comment at the call   *)
(* says ("Check contract bytecode directly for all 4bytes presented in    *)
(* abi"): a signature found half a byte off, straddling two bytes of the  *)
(* hex text, is not in the bytecode.                                       *)
(***************************************************************************)
MatchesWholeBytes ==
    checked =>
        (contractType # "" <=>
            \A s \in abi.functions \cup abi.events : CarriesSignature(code, s))

(***************************************************************************)
(* The bytecode check never misses a contract whose bytecode holds every  *)
(* signature of the rule's ABI, wherever in the bytecode they are; in     *)
(* particular an ABI with no functions and no events matches any contract.*)
(***************************************************************************)
MatchesEveryCarrier ==
    (checked /\ \A s \in abi.functions \cup abi.events : CarriesSignature(code, s))
        => contractType = TemplateName

=============================================================================
