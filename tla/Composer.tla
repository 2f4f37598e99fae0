------------------------------ MODULE Composer ------------------------------
(* BinaryComposer (libcommon/binarycomposer.{h,cpp}), the Buffers it gives   *)
(* away (buffer.h), and the rounding they rely on (math.h, memory.h). A byte *)
(* is the number of the part it was copied from, 0 if it was cleared.        *)
EXTENDS Naturals, FiniteSetsExt, SequencesExt

CONSTANTS
  Blocks,     \* what new uint8_t[] may return
  NoBlock,    \* nullptr
  Buffers,    \* variables of type Buffer
  PartLists,  \* sizes of the views that are composed
  Native,     \* sizeof(size_t), 8 in the code
  SizeValues  \* how many values a size_t has

ASSUME ComposerAssumption ==
  /\ NoBlock \notin Blocks
  /\ Native \in Nat \ {0, 1} /\ SizeValues \in Nat \ {0} /\ SizeValues % Native = 0

VARIABLES
  heap,      \* the blocks that are allocated, and their bytes
  composer,  \* m_offsets, m_buffer and m_bufferSize, or NoComposer
  buffers,   \* m_data and m_size of each Buffer that exists
  composed   \* history: the parts each block was composed of

composerVars == <<heap, composer, buffers, composed>>

NoComposer == [offsets |-> <<>>, buffer |-> NoBlock, size |-> 0, exists |-> FALSE]
Sizes == 0 .. SizeValues - 1
Owner == [data : Blocks \cup {NoBlock}, size : Sizes]

ComposerTypeOK ==
  /\ DOMAIN heap \subseteq Blocks /\ DOMAIN composed \subseteq DOMAIN heap
  /\ composer.buffer \in Blocks \cup {NoBlock} /\ composer.size \in Sizes
  /\ composer.offsets \in Seq(Sizes)
  /\ DOMAIN buffers \subseteq Buffers /\ \A b \in DOMAIN buffers : buffers[b] \in Owner

ComposerInit ==
  /\ heap = <<>> /\ composer = NoComposer /\ buffers = <<>> /\ composed = <<>>

-----------------------------------------------------------------------------
(* An operator marked "Fault" is a plausible bug in the definition that      *)
(* follows it; no action of the specification uses one.                      *)

(* Fault: rounded down. *)
RoundedDown(value, r) == value - (value % r)
(* r is a power of two: (value + r - 1) & ~(r - 1), in a size_t.             *)
RoundPowerTwo(value, r) ==
  LET sum == (value + (r - 1)) % SizeValues IN sum - (sum % r)
AlignNative(value) == RoundPowerTwo(value, Native)

(* m_bufferSize, before the first part and after each of them.               *)
Ends(parts) ==
  LET end[i \in 0 .. Len(parts)] ==
        IF i = 0 THEN 0 ELSE (end[i - 1] + AlignNative(parts[i])) % SizeValues
  IN end
End(parts, n) == Ends(parts)[n]
OffsetsOf(parts) == [i \in DOMAIN parts |-> End(parts, i - 1)]
(* make_unique clears the block; then the parts are copied in their order, a *)
(* later one over an earlier one where they meet.                            *)
Copied(parts) ==
  LET covers(i, at) == at \in OffsetsOf(parts)[i] + 1 .. OffsetsOf(parts)[i] + parts[i]
  IN [at \in 1 .. End(parts, Len(parts)) |-> Max({i \in DOMAIN parts : covers(i, at)} \cup {0})]

(* The parts are somewhere in memory: to align them, one after the other, is *)
(* not more than a size_t can count.                                         *)
ASSUME PartsFit ==
  \A parts \in PartLists :
    /\ parts \in Seq(Nat)
    /\ \A i \in DOMAIN parts : End(parts, i - 1) + parts[i] + Native <= SizeValues

Extended(f, x, y) == [z \in DOMAIN f \cup {x} |-> IF z = x THEN y ELSE f[z]]
Freed(blocks) == /\ heap' = Restrict(heap, DOMAIN heap \ blocks)
                 /\ composed' = Restrict(composed, DOMAIN composed \ blocks)
Allocated(block, bytes) == heap' = Extended(heap, block, bytes)
With(b, owner) == Extended(buffers, b, owner)
Without(b) == Restrict(buffers, DOMAIN buffers \ {b})

-----------------------------------------------------------------------------
Compose(parts, block) ==
  /\ ~composer.exists /\ block \notin DOMAIN heap
  /\ composer' = [offsets |-> OffsetsOf(parts), buffer |-> block,
                  size |-> End(parts, Len(parts)), exists |-> TRUE]
  /\ Allocated(block, Copied(parts)) /\ composed' = Extended(composed, block, parts)
  /\ UNCHANGED buffers

(* Fault: the composer keeps what it has given away.                         *)
StillThere == composer.buffer
(* m_buffer.release(); m_bufferSize stays.                                   *)
Released == NoBlock
(* acquire(), again and again if the caller likes: it gives nullptr then,    *)
(* with the size of what is gone.                                            *)
Acquire(b) ==
  /\ composer.exists /\ b \notin DOMAIN buffers
  /\ buffers' = With(b, [data |-> composer.buffer, size |-> composer.size])
  /\ composer' = [composer EXCEPT !.buffer = Released]
  /\ UNCHANGED <<heap, composed>>
DestroyComposer ==
  /\ composer.exists
  /\ composer' = NoComposer /\ Freed({composer.buffer})
  /\ UNCHANGED buffers

(* Buffer(s), and Buffer(), which holds no block.                            *)
NewBuffer(b, size, block) ==
  /\ b \notin DOMAIN buffers /\ block \notin DOMAIN heap
  /\ buffers' = With(b, [data |-> block, size |-> size])
  /\ Allocated(block, [at \in 1 .. size |-> 0])
  /\ UNCHANGED <<composer, composed>>
NewEmptyBuffer(b) ==
  /\ b \notin DOMAIN buffers
  /\ buffers' = With(b, [data |-> NoBlock, size |-> 0])
  /\ UNCHANGED <<heap, composer, composed>>

(* What is moved from loses its block and keeps its size.                    *)
MovedFrom(b) == [buffers[b] EXCEPT !.data = NoBlock]
MoveConstruct(b, rhs) ==
  /\ b \notin DOMAIN buffers /\ rhs \in DOMAIN buffers
  /\ buffers' = [With(b, buffers[rhs]) EXCEPT ![rhs] = MovedFrom(rhs)]
  /\ UNCHANGED <<heap, composer, composed>>
MoveAssign(b, rhs) ==
  /\ {b, rhs} \subseteq DOMAIN buffers /\ b # rhs
  /\ buffers' = [buffers EXCEPT ![b] = buffers[rhs], ![rhs] = MovedFrom(rhs)]
  /\ Freed({buffers[b].data})
  /\ UNCHANGED composer
DestroyBuffer(b) ==
  /\ b \in DOMAIN buffers
  /\ buffers' = Without(b) /\ Freed({buffers[b].data})
  /\ UNCHANGED composer

ComposerNext ==
  \/ \E block \in Blocks : \/ \E parts \in PartLists : Compose(parts, block)
                           \/ \E b \in Buffers : NewBuffer(b, 1, block)
  \/ \E b \in Buffers : Acquire(b) \/ NewEmptyBuffer(b) \/ DestroyBuffer(b)
  \/ \E b, rhs \in Buffers : MoveConstruct(b, rhs) \/ MoveAssign(b, rhs)
  \/ DestroyComposer

ComposerSpec == ComposerInit /\ [][ComposerNext]_composerVars

-----------------------------------------------------------------------------
(* Wherever the bytes of a composition went, each part is found whole where  *)
(* offsets() said it would be, at an aligned place, and all else is clear.   *)
PartsKept == \A block \in DOMAIN composed :
  LET parts == composed[block]
      offsets == IF composer.buffer = block THEN composer.offsets ELSE OffsetsOf(parts)
      place(i) == (offsets[i] + 1) .. (offsets[i] + parts[i])
  IN /\ \A i \in DOMAIN parts : offsets[i] % Native = 0 /\ place(i) \subseteq DOMAIN heap[block]
     /\ \A at \in DOMAIN heap[block], i \in DOMAIN parts :
          at \in place(i) <=> heap[block][at] = i

(* Every block has one owner, which frees it, knows how large it is, and is  *)
(* the only one to hold it, whatever was acquired, moved and destroyed.      *)
OneOwner ==
  LET owners(block) == {b \in DOMAIN buffers : buffers[b].data = block}
      owned(block) == Cardinality(owners(block)) + (IF composer.buffer = block THEN 1 ELSE 0)
  IN \A block \in Blocks :
       /\ owned(block) = IF block \in DOMAIN heap THEN 1 ELSE 0
       /\ \A b \in owners(block) : buffers[b].size = Len(heap[block])
       /\ composer.buffer = block => composer.size = Len(heap[block])
=============================================================================
