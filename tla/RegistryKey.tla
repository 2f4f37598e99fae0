---------------------------- MODULE RegistryKey ----------------------------
(* The values of common::registry::RegistryKey                               *)
(* (libcommon/registry/registrykey.{h,cpp}): one program writes, reads and   *)
(* deletes a value through its key, and another program does the same. To    *)
(* read is to ask for type and size, to allocate, and to ask for the data.   *)
(*                                                                           *)
(* The registry stores bytes, whatever the type says. A character is two of  *)
(* them, the terminating null two zeros; a string is a sequence of           *)
(* characters, here two-byte pairs.                                          *)
EXTENDS Lists

CONSTANTS
  Bytes,       \* values of a byte, 0 among them
  NumberSize,  \* bytes of a number
  Strings,     \* strings the program writes
  Arrays,      \* arrays of strings it writes
  Blobs,       \* sequences of bytes it writes
  Stored       \* what the other program stores: any bytes for any type

ASSUME RegistryKeyAssumption ==
  /\ 0 \in Bytes /\ NumberSize \in Nat \ {0}
  /\ Strings \subseteq Seq(Bytes \X Bytes) /\ Arrays \subseteq Seq(Seq(Bytes \X Bytes))
  /\ Blobs \cup Stored \subseteq Seq(Bytes)

VARIABLES
  value,    \* [type, bytes] of the value, or NoValue
  reading,  \* the type that is being read, "none" when no read is in progress
  size,     \* dataSize of readRaw()
  result,   \* [ok, type, data] of the last read, or NoResult
  written   \* history: [type, data] written and not touched since, or NoValue

vars == <<value, reading, size, result, written>>

StringTypes == {"REG_SZ", "REG_EXPAND_SZ"}
Types == StringTypes \cup {"REG_MULTI_SZ", "REG_BINARY", "REG_DWORD"}
NoValue == [type |-> "none"]
NoResult == [type |-> "none"]
Numbers == [1 .. NumberSize -> Bytes]

TypeOK ==
  /\ value # NoValue => value.type \in Types /\ value.bytes \in Seq(Bytes)
  /\ reading \in Types \cup {"none"}
  /\ size \in Nat
  /\ reading # "none" => size > 0
  /\ result # NoResult => result.type \in Types /\ result.ok \in BOOLEAN
  /\ written # NoValue => value # NoValue /\ written.type = value.type

Init ==
  /\ value = NoValue /\ reading = "none" /\ size = 0
  /\ result = NoResult /\ written = NoValue

-----------------------------------------------------------------------------
(* An operator marked "Fault" is a plausible bug in the definition that      *)
(* follows it; no action of the specification uses one.                      *)

Null == <<0, 0>>
Terminated(s) == Append(s, Null)
(* Characters as the bytes they are stored as, two each.                     *)
AsBytes(c) == [k \in 1 .. 2 * Len(c) |-> c[(k + 1) \div 2][2 - (k % 2)]]
EncodeString(s) == AsBytes(Terminated(s))
EncodeStrings(ss) ==
  AsBytes(Terminated(FlattenSeq([i \in DOMAIN ss |-> Terminated(ss[i])])))

(* The characters of a buffer; an odd byte at the end is discarded.          *)
Chars(b) == [i \in 1 .. Len(b) \div 2 |-> <<b[2 * i - 1], b[2 * i]>>]

(* Fault: one null is expected at the end and taken off.                     *)
DecodeStringLessOne(b) ==
  IF Chars(b) # <<>> /\ Last(Chars(b)) = Null THEN Front(Chars(b)) ELSE Chars(b)
(* readString(): up to the last character that is not null.                  *)
DecodeString(b) ==
  LET c == Chars(b)
  IN SubSeq(c, 1, Max({i \in DOMAIN c : c[i] # Null} \cup {0}))

(* Fault: every null ends a string, be it empty.                             *)
DecodeStringsWithEmpty(b) ==
  LET c == Chars(b)
      nulls == InOrder({i \in DOMAIN c : c[i] = Null} \cup {0})
  IN [n \in 1 .. Len(nulls) - 1 |-> SubSeq(c, nulls[n] + 1, nulls[n + 1] - 1)]
(* readStringArray(): the runs of characters that are not null.              *)
DecodeStrings(b) == Runs(Chars(b), {Null})

(* What a read may return for a buffer. readUint32() and readUint64() do not *)
(* look at its size: beyond its end anything is read.                        *)
Decoded(type, b) ==
  IF type \in StringTypes THEN {DecodeString(b)}
  ELSE IF type = "REG_MULTI_SZ" THEN {DecodeStrings(b)}
  ELSE IF type = "REG_BINARY" THEN {b}
  ELSE {n \in Numbers : \A i \in DOMAIN n \cap DOMAIN b : n[i] = b[i]}

-----------------------------------------------------------------------------
(* writeValue() replaces data and type. *)
Write(type, bytes, data) ==
  /\ reading = "none"
  /\ value' = [type |-> type, bytes |-> bytes]
  /\ written' = [type |-> type, data |-> data]
  /\ result' = NoResult
  /\ UNCHANGED <<reading, size>>

WriteString(type, s) == Write(type, EncodeString(s), s)
WriteStrings(ss) == Write("REG_MULTI_SZ", EncodeStrings(ss), ss)
WriteBlob(b) == Write("REG_BINARY", b, b)
WriteNumber(n) == Write("REG_DWORD", n, n)

DeleteValue ==
  /\ reading = "none" /\ value # NoValue
  /\ value' = NoValue /\ written' = NoValue /\ result' = NoResult
  /\ UNCHANGED <<reading, size>>

Return(type, data) ==
  /\ reading' = "none"
  /\ result' = [ok |-> TRUE, type |-> type, data |-> data]

(* readRaw() asks for type and size. A value without data is not asked for.  *)
QueryEmpty(type) ==
  /\ reading = "none" /\ value # NoValue
  /\ value.type = type /\ value.bytes = <<>>
  /\ \E data \in Decoded(type, <<>>) : Return(type, data)
  /\ UNCHANGED <<value, size, written>>
(* Fault: an empty value is asked for like any other. *)
NotLookedAt == TRUE
HasData == value.bytes # <<>>
QuerySize(type) ==
  /\ reading = "none" /\ value # NoValue
  /\ value.type = type /\ HasData
  /\ reading' = type /\ size' = Len(value.bytes) /\ result' = NoResult
  /\ UNCHANGED <<value, written>>

(* The data must fit the buffer; its type is not looked at again.            *)
FitsBuffer == Len(value.bytes) <= size
(* The buffer keeps its size, and its zeros beyond the data.                 *)
Buffer ==
  [i \in 1 .. size |-> IF i \in DOMAIN value.bytes THEN value.bytes[i] ELSE 0]
ReadData ==
  /\ reading # "none" /\ value # NoValue /\ FitsBuffer
  /\ \E data \in Decoded(reading, Buffer) : Return(reading, data)
  /\ UNCHANGED <<value, size, written>>

(* The value is not there, has another type or outgrew the buffer, or the    *)
(* call fails otherwise.                                                     *)
ReadThrows(type) ==
  /\ reading \in {"none", type}
  /\ reading' = "none"
  /\ result' = [ok |-> FALSE, type |-> type]
  /\ UNCHANGED <<value, size, written>>

(* The other program. *)
OtherWrites(type, bytes) ==
  /\ value' = [type |-> type, bytes |-> bytes]
  /\ written' = NoValue
  /\ UNCHANGED <<reading, size, result>>
OtherDeletes ==
  /\ value # NoValue
  /\ value' = NoValue /\ written' = NoValue
  /\ UNCHANGED <<reading, size, result>>

Next ==
  \/ \E type \in StringTypes, s \in Strings : WriteString(type, s)
  \/ \E ss \in Arrays : WriteStrings(ss)
  \/ \E b \in Blobs : WriteBlob(b)
  \/ \E n \in Numbers : WriteNumber(n)
  \/ DeleteValue
  \/ \E type \in Types :
       \/ QueryEmpty(type) \/ QuerySize(type) \/ ReadThrows(type)
       \/ \E bytes \in Stored : OtherWrites(type, bytes)
  \/ ReadData
  \/ OtherDeletes

Spec == Init /\ [][Next]_vars

-----------------------------------------------------------------------------
NonNull(s) == \A i \in DOMAIN s : s[i] # Null

(* What the program reads is what it wrote, unless the other program touched *)
(* the value: strings, blobs and numbers exactly, arrays without their empty *)
(* strings, which REG_MULTI_SZ cannot hold.                                  *)
RoundTrip ==
  written # NoValue /\ result # NoResult /\ result.ok /\ result.type = written.type =>
    IF result.type = "REG_MULTI_SZ"
    THEN (\A i \in DOMAIN written.data : NonNull(written.data[i])) =>
           result.data = NonEmpty(written.data)
    ELSE IF result.type \in StringTypes
         THEN NonNull(written.data) => result.data = written.data
         ELSE result.data = written.data

(* A string or an array that is read between two writes of the other program *)
(* is what was stored when the data was asked for, although the size is an   *)
(* older one: it is never cut off, and what a smaller value leaves of the    *)
(* buffer does not show. (Half a character at the end does show then.)       *)
ReadIsExact ==
  [][reading # "none" /\ result' # NoResult /\ result'.ok
       /\ Len(value.bytes) % 2 = 0 =>
       /\ reading \in StringTypes => result'.data = DecodeString(value.bytes)
       /\ reading = "REG_MULTI_SZ" => result'.data = DecodeStrings(value.bytes)]_vars
=============================================================================
