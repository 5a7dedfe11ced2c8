------------------------------ MODULE BitmapTree -----------------------------
(* src/include/BitmapTree.hpp, src/BitmapTree.cpp and the buffers of          *)
(* src/include/FixedBuffer.hpp that live on it: a bit for every place that is *)
(* free, and above them, layer by layer, a bit for every word that is not 0.  *)
(* The mutex covers each operation, so each is one step.                      *)
(*                                                                            *)
(* A layer is the set of the bits that are 1, numbered over all its words, in *)
(* every word from the most significant one on, as clz does.  The shift of an *)
(* int in set() is what the build makes of it: the processor takes the amount *)
(* modulo the width, and the sign bit is extended.                            *)
(* A definition introduced as "Faulty" is a wrong version of the definition   *)
(* after it that a property has to reject.                                    *)
EXTENDS Integers, Sequences, FiniteSetsExt

CONSTANTS
  Size,       \* places of the pool: C
  LongBits,   \* LONG_BITS (64)
  IntBits,    \* bits of an int (32)
  MaxAstray   \* bound: operations after a bit was set that was not meant

ASSUME TreeAssumption ==
  /\ {LongBits, IntBits} \subseteq Nat \ {0, 1} /\ IntBits <= LongBits
  /\ {Size, MaxAstray} \subseteq Nat

\* calculate_lwords
LWords(size) == (size + LongBits - 1) \div LongBits

\* The sizes of the layers, the root's first, as the constructor stacks them.
LayerSizes[size \in 0 .. Size] ==
  IF size > 1 THEN Append(LayerSizes[LWords(size)], size) ELSE <<>>

Sizes == LayerSizes[Size]
Deep == Len(Sizes)
Layers == 1 .. Deep
Places == 0 .. Size - 1

VARIABLES
  bits,      \* _layers
  holders,   \* FixedBuffers that have a place, per place; also beyond the last place
  nulls,     \* some FixedBuffer got no place although one was free
  \* -- history
  shifted,   \* some bit was set that was not meant
  astray,    \* operations since
  beyond     \* a word behind the last one of a layer was read

treeVars == <<bits, holders, nulls, shifted, astray, beyond>>

Slots == 0 .. LongBits * LWords(Size) - 1

\* BitmapLayer: all bits are 1, except behind the last place.
TreeInit ==
  /\ bits = [l \in Layers |-> 0 .. Sizes[l] - 1]
  /\ holders = [p \in Slots |-> 0]
  /\ nulls = FALSE
  /\ shifted = FALSE /\ astray = 0 /\ beyond = FALSE

Word(layer, w) == {b \in layer : b \div LongBits = w}

------------------------------------------------------------------------------
(* bitRequire *)

\* BitmapLayer::firstBitSet; the word behind the last one passes its check.
FirstBitSet(l, w) ==
  IF w < 0 \/ w >= LWords(Sizes[l]) \/ Word(bits[l], w) = {} THEN -1 ELSE Min(Word(bits[l], w))

\* bitsOffs: from the root down, each bit is the word of the next layer.
Offsets[l \in 0 .. Deep] == IF l = 0 THEN 0 ELSE FirstBitSet(l, Offsets[l - 1])

ReadsBeyond == \E l \in Layers : Offsets[l - 1] = LWords(Sizes[l])

\* BitmapLayer::reset leaves bits behind the size alone.
Reset(l) == IF Offsets[l] > Sizes[l] THEN bits[l] ELSE bits[l] \ {Offsets[l]}

\* reset's result: the word became 0.
Emptied(l) == Offsets[l] <= Sizes[l] /\ Word(Reset(l), Offsets[l - 1]) = {}

\* Faulty: only the leaf is reset.
ResetLeaf == bits' = [bits EXCEPT ![Deep] = Reset(Deep)]

\* Upwards, as long as words become 0
ResetUpward ==
  bits' = [l \in Layers |-> IF \A k \in l + 1 .. Deep : Emptied(k) THEN Reset(l) ELSE bits[l]]

Free(p) == p \in Places /\ holders[p] = 0

\* A pool of one place has no layers: it hands out place 0 always.
Require ==
  /\ ~ReadsBeyond
  /\ IF Offsets[Deep] >= 0
     THEN /\ IF Deep = 0 THEN UNCHANGED bits ELSE ResetUpward
          /\ holders' = [holders EXCEPT ![Offsets[Deep]] = @ + 1]
          /\ UNCHANGED nulls
     ELSE /\ nulls' = (nulls \/ \E p \in Places : Free(p))
          /\ UNCHANGED <<bits, holders>>
  /\ UNCHANGED <<shifted, beyond>>

\* Undefined: what is behind the words of a layer
RequireBeyond ==
  /\ ReadsBeyond
  /\ beyond' = TRUE
  /\ UNCHANGED <<bits, holders, nulls, shifted>>

------------------------------------------------------------------------------
(* bitTurnback *)

\* 1 << (LONG_BITS - 1 - (bitIdx & 0x3F)): the bits of the word that are 1.
\* The amount IntBits - 1 is the int's sign, and is extended upwards.
ShiftedOne(b) ==
  LET amount == (LongBits - 1 - b) % IntBits
  IN  IF amount = IntBits - 1 THEN 0 .. LongBits - IntBits ELSE {LongBits - 1 - amount}

SetBits(idx) == {LongBits * (idx \div LongBits) + b : b \in ShiftedOne(idx % LongBits)}

\* The index set() is called with on each layer: tmpIdx, shifted on the way up
Index(idx, l) ==
  LET tmpIdx[n \in 0 .. Deep] == IF n = 0 THEN idx ELSE tmpIdx[n - 1] \div LongBits
  IN  tmpIdx[Deep - l]

\* The layers set() is called on: upwards, as long as the word was 0.
Ignored(idx, l) == Index(idx, l) > Sizes[l]
WasZero(idx, l) == ~Ignored(idx, l) /\ Word(bits[l], Index(idx, l) \div LongBits) = {}
Called(idx) == {l \in Layers : \A k \in l + 1 .. Deep : WasZero(idx, k)}
Touched(idx) == {l \in Called(idx) : ~Ignored(idx, l)}

\* Faulty: set() tests the word when the bit is in it: the layers above are not
\* told that it is no longer 0.
TurnbackLeaf(idx) ==
  /\ bits' = [bits EXCEPT ![Deep] = @ \cup SetBits(Index(idx, Deep))]
  /\ shifted' = (shifted \/ SetBits(Index(idx, Deep)) # {Index(idx, Deep)})

Turnback(idx) ==
  /\ bits' = [l \in Layers |->
                IF l \in Touched(idx) THEN bits[l] \cup SetBits(Index(idx, l)) ELSE bits[l]]
  /\ shifted' = (shifted \/ \E l \in Touched(idx) : SetBits(Index(idx, l)) # {Index(idx, l)})

------------------------------------------------------------------------------
(* FixedBuffer *)

Bounded ==
  /\ astray < MaxAstray \/ ~shifted
  /\ astray' = IF shifted THEN astray + 1 ELSE astray

Construct == Bounded /\ ~beyond /\ (Require \/ RequireBeyond)

\* The place is the offset of the buffer's address, whoever has it too.
Destruct(p) ==
  /\ Bounded /\ ~beyond /\ holders[p] > 0
  /\ holders' = [holders EXCEPT ![p] = @ - 1]
  /\ Turnback(p)
  /\ UNCHANGED <<nulls, beyond>>

TreeNext == Construct \/ \E p \in Slots : Destruct(p)

TreeSpec == TreeInit /\ [][TreeNext]_treeVars

------------------------------------------------------------------------------
(* Properties *)

\* As long as set() has set the bits that were meant - the case for the places
\* in the upper half of a word other than its first, and for words alike on the
\* layers above - the leaves are exactly the free places, every place has one
\* holder at most, and each layer has the bits of the words below that are not 0.
TreeIsFreeSet ==
  ~shifted /\ Deep > 0 =>
    /\ \A p \in Slots : holders[p] <= 1
    /\ bits[Deep] = {p \in Places : Free(p)}
    /\ \A l \in 2 .. Deep : bits[l - 1] = {b \div LongBits : b \in bits[l]}

\* So long, too, a FixedBuffer is without a place only when there is none, and
\* the search stays inside the words of every layer.
NullWhenExhausted == ~shifted => ~nulls /\ ~beyond

\* A place is turned back where it was taken from (BitmapTree.hpp:42, :129).
TurnedBackIsFree == ~shifted

\* A place has one holder.
OneHolder == \A p \in Slots : holders[p] <= 1
==============================================================================
