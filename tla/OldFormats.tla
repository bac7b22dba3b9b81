----------------------------- MODULE OldFormats ------------------------------
(* What the models of the decoders of the formats before gzip share.        *)
EXTENDS Integers

CONSTANT ByteBits      \* 8

Least(a, b) == IF a < b THEN a ELSE b
=============================================================================
