--------------------------- MODULE MCRegistryKey ---------------------------
(* RegistryKey with bytes 0 and 1, strings of up to two characters, arrays   *)
(* of up to two strings, and another program that stores up to four bytes.   *)
EXTENDS RegistryKey

AChar == <<1, 0>>
BChar == <<0, 1>>
MCStrings == BoundedSeq({Null, AChar, BChar}, 2)
MCArrays == BoundedSeq({<<>>, <<AChar>>, <<AChar, BChar>>, <<AChar, Null>>}, 2)
MCStored == BoundedSeq(Bytes, 4)
=============================================================================
