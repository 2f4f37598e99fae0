------------------------------- MODULE Strings -------------------------------
(* libcommon/string.{h,cpp}, and the uses of strings in error.cpp, guid.cpp, *)
(* fileenumerator.h, valuemapper.h and registry/registrypath.cpp. A string   *)
(* is a sequence of characters, wide or narrow; what may throw returns an    *)
(* outcome.                                                                  *)
EXTENDS Lists

CONSTANTS
  Null,       \* the character that ends a C string
  Slash, Backslash, EqualSign,
  TrimChars,  \* TrimChars and WideTrimChars
  LowerOf,    \* what _wcslwr_s makes of a character
  NarrowOf,   \* the bytes WideCharToMultiByte makes of a character
  GuidLength, \* of a GUID without braces, 36 in the code
  Roots       \* the names of the roots of the registry, in lower case, with the roots

Characters == DOMAIN NarrowOf  \* wide ones; those that a code page has

(* The names of roots are in lower case, and are single tokens.              *)
ASSUME StringsAssumption ==
  /\ GuidLength \in Nat \ {0}
  /\ {Null, Slash, Backslash, EqualSign} \subseteq Characters
  /\ Null \notin TrimChars /\ Null \notin {Slash, Backslash, EqualSign}
  /\ LowerOf \in [Characters -> Characters]
  /\ \A name \in DOMAIN Roots :
       /\ name \in Seq(Characters) /\ name # <<>>
       /\ \A i \in DOMAIN name :
            LowerOf[name[i]] = name[i] /\ name[i] \notin {Null, Slash, Backslash}

Done(value) == [ok |-> TRUE, value |-> value]
Thrown == [ok |-> FALSE]

-----------------------------------------------------------------------------
(* An operator marked "Fault" is a plausible bug in the definition that      *)
(* follows it; no specification uses one.                                    *)

(* What is left of a string that is passed as str.c_str().                   *)
CString(s) == SubSeq(s, 1, Find(s, {Null}) - 1)

Lower(s) == LET c == CString(s) IN [i \in DOMAIN c |-> LowerOf[c[i]]]
(* _wcsicmp *)
SameIgnoringCase(s, t) == Lower(s) = Lower(t)

(* Fault: there is a token between every two delimiters.                     *)
TokenizeWithEmpty(str, delimiters) ==
  LET s == CString(str)
      cuts == InOrder({i \in DOMAIN s : s[i] \in delimiters} \cup {0, Len(s) + 1})
  IN [n \in 1 .. Len(cuts) - 1 |-> SubSeq(s, cuts[n] + 1, cuts[n + 1] - 1)]
(* wcstok_s: the runs of characters that are not delimiters.                 *)
Tokenize(str, delimiters) == Runs(CString(str), delimiters)

(* No delimiter is appended as long as what was joined is empty.             *)
Join(parts, delimiter) ==
  LET joined[n \in 0 .. Len(parts)] ==
        IF n = 0 THEN <<>>
        ELSE IF joined[n - 1] = <<>> THEN parts[n]
        ELSE joined[n - 1] \o delimiter \o parts[n]
  IN joined[Len(parts)]

Padding == <<".", ".", ".">>
Summary(s, max) ==
  IF Len(s) <= max THEN Done(s)
  ELSE IF max < Len(Padding) THEN Thrown
  ELSE Done(SubSeq(s, 1, max - Len(Padding)) \o Padding)

(* A pair without a separator is a key with an empty value. *)
KeyOf(pair) == SubSeq(pair, 1, Find(pair, {EqualSign}) - 1)
ValueOf(pair) == SubSeq(pair, Find(pair, {EqualSign}) + 1, Len(pair))
(* insert() leaves an entry that is there as it is.                          *)
SplitKeyValuePairs(pairs) ==
  [k \in {KeyOf(pairs[i]) : i \in DOMAIN pairs} |->
     ValueOf(pairs[Min({i \in DOMAIN pairs : KeyOf(pairs[i]) = k})])]

(* The names to be joined. Flags are sets of bits; a definition is listed as *)
(* soon as one of its bits is set, and all of its bits are known then.       *)
Unnamed == "[...]"
Listed(definitions, flags) == {i \in DOMAIN definitions : definitions[i].bits \cap flags # {}}
(* Fault: only what the last definition leaves remains. *)
RemainingAfterLast(definitions, flags) ==
  LET listed == Listed(definitions, flags)
  IN IF listed = {} THEN flags ELSE flags \ definitions[Max(listed)].bits
Remaining(definitions, flags) ==
  flags \ UNION {definitions[i].bits : i \in Listed(definitions, flags)}
FormatFlags(definitions, flags) ==
  LET listed == InOrder(Listed(definitions, flags))
      present == [n \in DOMAIN listed |-> definitions[listed[n]].name]
  IN IF Remaining(definitions, flags) # {} THEN Append(present, Unnamed) ELSE present

BeginsWith(hay, needle) == Len(hay) >= Len(needle) /\ SubSeq(hay, 1, Len(needle)) = needle

Untrimmed(s) == {i \in DOMAIN s : s[i] \notin TrimChars}
TrimRight(s) == SubSeq(s, 1, Max(Untrimmed(s) \cup {0}))
TrimLeft(s) == SubSeq(s, Min(Untrimmed(s) \cup {Len(s) + 1}), Len(s))
Trim(s) == TrimLeft(TrimRight(s))

-----------------------------------------------------------------------------
(* Conversions between wide and narrow characters: a call that tells the     *)
(* size, null included, and one that converts. Either may fail.              *)

Bytes == UNION {ToSet(NarrowOf[c]) : c \in Characters}
(* Only the null is narrowed to a null, and no character to what others      *)
(* begin with: so it is in UTF-8 and in code pages of one or two bytes.      *)
ASSUME NarrowAssumption ==
  \A c \in Characters :
    /\ NarrowOf[c] \in Seq(Bytes) /\ NarrowOf[c] # <<>>
    /\ IF c = Null THEN NarrowOf[c] = <<Null>> ELSE Null \notin ToSet(NarrowOf[c])
    /\ \A d \in Characters : BeginsWith(NarrowOf[d], NarrowOf[c]) => c = d

Narrowed(s) == FlattenSeq([i \in DOMAIN s |-> NarrowOf[s[i]]])
ToMultiByte(s, throwOnError, callFails) ==
  IF s = <<>> THEN Done(<<Null>>)
  ELSE IF ~callFails THEN Done(Append(Narrowed(CString(s)), Null))
  ELSE IF throwOnError THEN Thrown ELSE Done(<<Null>>)

ToUtf8(s, throwOnError, callFails) == ToMultiByte(s, throwOnError, callFails)
(* Fault: the terminating null is made part of the string.                   *)
ToAnsiWithNull(s, throwOnError, callFails) == ToMultiByte(s, throwOnError, callFails)
ToAnsi(s, throwOnError, callFails) ==
  LET bytes == ToMultiByte(s, throwOnError, callFails)
  IN IF bytes.ok THEN Done(CString(bytes.value)) ELSE Thrown

(* MultiByteToWideChar: the string that would be narrowed to these bytes.    *)
Widened(bytes) ==
  CHOOSE s \in BoundedSeq(Characters, Len(bytes)) : Narrowed(s) = bytes
ToWide(bytes, throwOnError, callFails) ==
  IF bytes = <<>> THEN Done(<<>>)
  ELSE IF ~callFails THEN Done(Widened(CString(bytes)))
  ELSE IF throwOnError THEN Thrown ELSE Done(<<>>)

-----------------------------------------------------------------------------
(* error.cpp: what follows the last separator, of either kind.               *)
IsolateFilename(path) ==
  LET s == CString(path)
  IN SubSeq(s, Max({i \in DOMAIN s : s[i] \in {Slash, Backslash}} \cup {0}) + 1, Len(s))

(* guid.cpp: a GUID with or without two characters around it, whatever they  *)
(* are; UuidFromStringW reads what is inside.                                *)
GuidFromString(s) ==
  IF Len(s) = GuidLength + 2 THEN Done(SubSeq(s, 2, GuidLength + 1))
  ELSE IF Len(s) = GuidLength THEN Done(s)
  ELSE Thrown

(* valuemapper.h: the first entry wins. *)
TryMap(t, dictionary) ==
  LET entries == {i \in DOMAIN dictionary : dictionary[i][1] = t}
  IN IF entries = {} THEN Thrown ELSE Done(dictionary[Min(entries)][2])

(* fileenumerator.h: candidates have a name and may be directories.          *)
FilterDirectories(c) == c.directory
FilterFiles(c) == ~FilterDirectories(c)
FilterNotRelativeDirs(c) == c.name \notin {<<".">>, <<".", ".">>}
FilterNamedSet(objects, c) == \E o \in objects : SameIgnoringCase(c.name, o)
FilterNotNamedSet(objects, c) == ~FilterNamedSet(objects, c)

(* registry/registrypath.cpp: a root and the path of a key below it.         *)
RegistryPath(path) ==
  LET tokens == Tokenize(path, {Slash, Backslash})
      root == Lower(tokens[1])
  IN IF Len(tokens) < 2 THEN Thrown
     ELSE IF root \notin DOMAIN Roots THEN Thrown
     ELSE Done([key |-> Roots[root], subkey |-> Join(Tail(tokens), <<Backslash>>)])
=============================================================================
