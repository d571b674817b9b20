-------------------------- MODULE MCBytecodeMatch --------------------------
(***************************************************************************)
(* Instantiates BytecodeMatch for TLC: two hex digits, 2-byte signatures  *)
(* and bytecode of up to 3 bytes, so that a signature can occur both on   *)
(* and off a byte boundary.                                                *)
(***************************************************************************)
EXTENDS BytecodeMatch

MCNibbles == {0, 1}
MCSigBytes == 2
MCCodeBytes == 3
=============================================================================
