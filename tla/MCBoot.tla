------------------------------- MODULE MCBoot -------------------------------
(* Seventeen bytes of .bss behind three of data: _sbss is not at a word.   *)
EXTENDS Startup

CONSTANTS p, q, r

SomeObjects == {{}, {3}, {3, 4}, 7 .. 8, {9, 10, 11}}
=============================================================================
