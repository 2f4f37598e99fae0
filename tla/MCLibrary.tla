------------------------------ MODULE MCLibrary ------------------------------
(* Library with texts of a few characters, among them those that cut, trim   *)
(* and end a text, one with two cases, and one that takes two bytes.         *)
EXTENDS Library

Alphabet == {"a", "H", "h", "/", "backslash", "=", "null", " "}
LowerCase == [c \in Alphabet |-> IF c = "H" THEN "h" ELSE c]
(* The second byte of H is another character's, as in a double-byte code     *)
(* page.                                                                     *)
TwoBytes == [c \in Alphabet |-> IF c = "H" THEN <<"H", "/">> ELSE <<c>>]
(* HKEY_CURRENT_USER, HKCU, and another root. *)
RootNames == (<<"h">> :> "HKCU") @@ (<<"h", "a">> :> "HKCU") @@ (<<"a">> :> "HKU")
SmallTexts ==
  BoundedSeq({"h", "/", "null", " "}, 3) \cup BoundedSeq(Alphabet, 2) \cup
  {<<"h", "backslash", "a", "/", "h">>, <<"/", "H", "backslash", "a">>, <<"h", "=", "a", "=">>}
SmallLists ==
  BoundedSeq({<<>>, <<"a">>, <<"h", "=">>, <<"a", "=", "h">>, <<"h", "a">>,
              <<"a", "null">>, <<"H">>}, 2)
(* Definitions of one bit, of two, and of two that others define as well.    *)
Definitions ==
  BoundedSeq({[name |-> "one", bits |-> {1}], [name |-> "two", bits |-> {2, 3}],
              [name |-> "shared", bits |-> {1, 3}]}, 2)
Flags == SUBSET (1 .. 4)

(* Names of different lengths: a buffer made for none of them is enlarged    *)
(* three times for the longest.                                              *)
NameLength == [n \in Entries |-> (2 * n) - 1]
(* Parts of no byte, of one, and of more than one word. *)
SmallParts == {<<>>, <<1>>, <<3, 0, 2>>, <<2, 1, 1>>}
=============================================================================
