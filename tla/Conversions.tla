----------------------------- MODULE Conversions -----------------------------
(* A program that calls the functions of Strings and Network, which have no  *)
(* state: conversion is the last call with what went in and what came out.   *)
EXTENDS Strings, Network

CONSTANTS
  Texts,           \* strings that are trimmed, cut, converted and parsed
  TextLists,       \* lists of strings that are joined or split into pairs
  DefinitionLists, \* definitions of flags
  FlagSets         \* flags

(* Definitions are listed, and none of them is named as if it had no name.   *)
ASSUME ConversionsAssumption ==
  /\ Texts \subseteq Seq(Characters) /\ TextLists \subseteq Seq(Seq(Characters))
  /\ \A definitions \in DefinitionLists :
       /\ Len(definitions) \in Nat /\ DOMAIN definitions = 1 .. Len(definitions)
       /\ \A i \in DOMAIN definitions : definitions[i].name # Unnamed

VARIABLE conversion

NoConversion == [call |-> "none"]
Calls == {"Tokenize", "Join", "RegistryPath", "Summary", "Trim", "ToUtf8", "ToAnsi", "ToWide",
          "SplitKeyValuePairs", "Map", "FormatFlags", "Guid", "Filename", "Filter",
          "BeginsWith", "Address", "Mask", "ByteSwap"}

ConversionTypeOK ==
  /\ conversion.call \in Calls \cup {"none"}
  /\ conversion.call \in {"Summary", "ToUtf8", "ToAnsi", "ToWide", "RegistryPath", "Guid", "Map"} =>
       conversion.out.ok \in BOOLEAN
  /\ conversion.call \in {"Address", "Mask", "ByteSwap"} => conversion.out \in Word
ConversionInit == conversion = NoConversion

Call(call, in, out) ==
  /\ conversion = NoConversion
  /\ conversion' = [call |-> call, in |-> in, out |-> out]

CallTokenize(s, delimiters) == Call("Tokenize", s, Tokenize(s, delimiters))
CallJoin(parts) == Call("Join", parts, Join(parts, <<Slash>>))
CallRegistryPath(s) == Call("RegistryPath", s, RegistryPath(s))
CallSummary(s, max) == Call("Summary", <<s, max>>, Summary(s, max))
CallTrim(s) == Call("Trim", s, Trim(s))
CallToUtf8(s, throwOnError, callFails) ==
  Call("ToUtf8", <<s, callFails>>, ToUtf8(s, throwOnError, callFails))
CallToAnsi(s, throwOnError, callFails) ==
  Call("ToAnsi", <<s, callFails>>, ToAnsi(s, throwOnError, callFails))
CallToWide(bytes, throwOnError, callFails) ==
  Call("ToWide", <<bytes, callFails>>, ToWide(bytes, throwOnError, callFails))
CallSplit(pairs) == Call("SplitKeyValuePairs", pairs, SplitKeyValuePairs(pairs))
CallMap(t, pairs) ==
  Call("Map", <<t, pairs>>, TryMap(t, [i \in DOMAIN pairs |-> <<KeyOf(pairs[i]), ValueOf(pairs[i])>>]))
CallFormatFlags(definitions, flags) ==
  Call("FormatFlags", <<definitions, flags>>, FormatFlags(definitions, flags))
CallGuid(s) == Call("Guid", s, GuidFromString(s))
CallFilename(s) == Call("Filename", s, IsolateFilename(s))
CallFilter(name, objects) ==
  \E directory \in BOOLEAN :
    LET c == [name |-> name, directory |-> directory] IN
    Call("Filter", c,
      [directories |-> FilterDirectories(c), files |-> FilterFiles(c),
       notRelative |-> FilterNotRelativeDirs(c),
       named |-> FilterNamedSet(objects, c), notNamed |-> FilterNotNamedSet(objects, c)])
CallBeginsWith(hay, needle) == Call("BeginsWith", <<hay, needle>>, BeginsWith(hay, needle))
CallAddress(address) == Call("Address", address, LiteralAddressToNetwork(address))
CallMask(prefix) == Call("Mask", prefix, MaskFromRoutingPrefix(prefix))
CallByteSwap(val) == Call("ByteSwap", val, ByteSwap(val))
(* The program is done with the result. *)
CallDone == conversion # NoConversion /\ conversion' = NoConversion

ConversionNext ==
  \/ \E s \in Texts :
       \/ CallTokenize(s, {Slash}) \/ CallRegistryPath(s) \/ CallTrim(s)
       \/ CallGuid(s) \/ CallFilename(s)
       \/ \E max \in 0 .. Len(s) : CallSummary(s, max)
       \/ \E throwOnError, callFails \in BOOLEAN :
            \/ CallToUtf8(s, throwOnError, callFails) \/ CallToAnsi(s, throwOnError, callFails)
            \/ CallToWide(Narrowed(s), throwOnError, callFails)
       \/ \E list \in TextLists : CallFilter(s, ToSet(list))
  \/ \E list \in TextLists :
       \/ CallJoin(list) \/ CallSplit(list)
       \/ \E i \in DOMAIN list :
            \/ CallMap(list[i], list)
            \/ CallBeginsWith(list[i], Last(list))
  \/ \E definitions \in DefinitionLists, flags \in FlagSets : CallFormatFlags(definitions, flags)
  \/ \E address \in Address : CallAddress(address)
  \/ \E prefix \in 0 .. Width : CallMask(prefix)
  \/ \E val \in 0 .. (Radix * Radix) - 1 : CallByteSwap(val)
  \/ CallDone

ConversionSpec == ConversionInit /\ [][ConversionNext]_conversion

-----------------------------------------------------------------------------
Made(call) == conversion.call = call

(* What was joined with a delimiter is what is found between delimiters,     *)
(* except for empty parts; and a registry path has one form: the path made   *)
(* of a root and a subkey that were read from any path is read as the same   *)
(* root and subkey, and the subkey has no empty component.                   *)
PartsSurvive ==
  /\ Made("Join") /\ (\A i \in DOMAIN conversion.in :
                        {Slash, Null} \cap ToSet(conversion.in[i]) = {}) =>
       Tokenize(conversion.out, {Slash}) = NonEmpty(conversion.in)
  /\ Made("Tokenize") =>
       Tokenize(Join(conversion.out, <<Slash>>), {Slash}) = conversion.out
  /\ Made("RegistryPath") /\ conversion.out.ok =>
       \A name \in DOMAIN Roots : Roots[name] = conversion.out.value.key =>
         RegistryPath(name \o <<Slash>> \o conversion.out.value.subkey) = conversion.out

(* What was converted to narrow or to wide characters converts back to the   *)
(* string as far as a C string holds it; bytes handed out are terminated     *)
(* whatever failed; a call that failed leaves an empty string and not a part *)
(* of one.                                                                   *)
TextSurvives ==
  /\ Made("ToAnsi") /\ conversion.out.ok =>
       ToWide(conversion.out.value, TRUE, FALSE) =
         Done(IF conversion.in[2] THEN <<>> ELSE CString(conversion.in[1]))
  /\ Made("ToWide") /\ conversion.out.ok =>
       ToAnsi(conversion.out.value, TRUE, FALSE) =
         Done(IF conversion.in[2] THEN <<>> ELSE CString(conversion.in[1]))
  /\ Made("ToUtf8") /\ conversion.out.ok =>
       Find(conversion.out.value, {Null}) = Len(conversion.out.value)

(* Every flag that is set is named or announced, and none is announced that  *)
(* is named; every key that was given is there, with the first of its        *)
(* values, and a table in the code is read the same way; trimming takes      *)
(* nothing else off and shortening keeps its limit; a file is passed by one  *)
(* of a filter and its opposite; a file name is all that follows the last    *)
(* separator.                                                                *)
NothingUnaccounted ==
  /\ Made("FormatFlags") =>
       LET definitions == conversion.in[1]
           named(bit) == \E i \in DOMAIN definitions :
             bit \in definitions[i].bits /\ definitions[i].name \in ToSet(conversion.out)
       IN Unnamed \in ToSet(conversion.out) <=> \E bit \in conversion.in[2] : ~named(bit)
  /\ Made("SplitKeyValuePairs") =>
       \A i \in DOMAIN conversion.in :
         LET key == KeyOf(conversion.in[i]) IN
         (\A j \in 1 .. i - 1 : KeyOf(conversion.in[j]) # key) =>
           conversion.in[i] \in {key, key \o <<EqualSign>> \o conversion.out[key]}
  /\ Made("Trim") =>
       \E lead, trail \in BoundedSeq(TrimChars, Len(conversion.in)) :
         /\ conversion.in = lead \o conversion.out \o trail
         /\ conversion.out # <<>> =>
              {Head(conversion.out), Last(conversion.out)} \cap TrimChars = {}
  /\ Made("Summary") /\ conversion.out.ok => Len(conversion.out.value) <= conversion.in[2]
  /\ Made("Map") =>
       LET held == SplitKeyValuePairs(conversion.in[2]) IN
       /\ conversion.out.ok <=> conversion.in[1] \in DOMAIN held
       /\ conversion.out.ok => conversion.out.value = held[conversion.in[1]]
  /\ Made("BeginsWith") =>
       (conversion.out <=> \E i \in 0 .. Len(conversion.in[1]) :
                             SubSeq(conversion.in[1], 1, i) = conversion.in[2])
  /\ Made("Filename") =>
       /\ {Slash, Backslash} \cap ToSet(conversion.out) = {}
       /\ \E directory \in {<<>>} \cup {SubSeq(conversion.in, 1, i) : i \in DOMAIN conversion.in} :
            /\ directory = <<>> \/ Last(directory) \in {Slash, Backslash}
            /\ CString(conversion.in) = directory \o conversion.out
  /\ Made("Filter") =>
       /\ conversion.out.directories # conversion.out.files
       /\ conversion.out.named # conversion.out.notNamed

(* An address that was read byte by byte is shown byte by byte, and a mask   *)
(* covers the first bits of what is shown: both are in the order FormatIpv4  *)
(* expects of its caller.                                                    *)
AddressesAgree ==
  /\ Made("Address") => FormatHostOrder(conversion.out) = conversion.in
  /\ Made("Mask") =>
       LET shown == FormatHostOrder(conversion.out)
           byte(i) == shown[((i - 1) \div ByteBits) + 1]
           place(i) == Bit[(ByteBits - 1) - ((i - 1) % ByteBits)]
           bit(i) == (byte(i) \div place(i)) % 2
       IN \A i \in 1 .. Width : bit(i) = IF i <= conversion.in THEN 1 ELSE 0
  /\ Made("ByteSwap") =>
       SubSeq(FormatHostOrder(conversion.out), 3, 4) = SubSeq(FormatNetworkOrder(conversion.in), 1, 2)

(* network.h: "Convert array of bytes e.g. 0x7F, 0x0, 0x0, 0x1 into uint32_t *)
(* with network byte order": the first byte is the first one in memory.      *)
NetworkByteOrder == Made("Address") => Memory(conversion.out) = conversion.in
=============================================================================
