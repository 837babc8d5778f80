----------------------------- MODULE NonceBitmap -----------------------------
(***************************************************************************)
(* The bitmap of shared/core/od_nonce_window.h as the code holds it: an    *)
(* array of words, shifted word by word with a carry between neighbours.   *)
(* A word is the set of its one bits.                                      *)
(*                                                                         *)
(* The words are the state.  The variable seen of NonceWindow is what they *)
(* say, read bit by bit: it is the refinement mapping, kept as a variable  *)
(* so that the properties of NonceWindow are checked as they stand.        *)
(***************************************************************************)
EXTENDS NonceWindow

CONSTANTS
  WordBits,    \* 64
  Words        \* OD_NONCE_BITMAP_WORDS

ASSUME WordAssumption ==
  /\ WordBits \in Nat \ {0} /\ Words \in Nat \ {0}
  /\ Width = WordBits * Words

VARIABLE bm

bitmapVars == <<bm, vars>>

WordBit == 0 .. WordBits - 1
WordIndex == 0 .. Words - 1
Zeroes == [i \in WordIndex |-> {}]

ShiftLeft(word, n) == {b \in WordBit : b - n \in word}
ShiftRight(word, n) == {b \in WordBit : b + n \in word}

od_nonce_bit_test(m, bit) == (bit % WordBits) \in m[bit \div WordBits]

od_nonce_bit_set(m, bit) ==
  [m EXCEPT ![bit \div WordBits] = @ \union {bit % WordBits}]

\* The bits that cross a word boundary are lost.
Mut_od_nonce_bitmap_shift_left(m, shift) ==
  IF shift >= Width THEN Zeroes
  ELSE LET ws == shift \div WordBits
           bs == shift % WordBits
       IN  [i \in WordIndex |-> IF i >= ws THEN ShiftLeft(m[i - ws], bs) ELSE {}]

\* The loop runs from the highest word down and reads only words it has not
\* yet written, so each new word is a function of the old array.  No carry
\* is taken when bit_shift is 0: the code avoids a shift by 64 there.
od_nonce_bitmap_shift_left(m, shift) ==
  IF shift >= Width THEN Zeroes
  ELSE LET ws == shift \div WordBits
           bs == shift % WordBits
       IN  [i \in WordIndex |->
              IF i < ws THEN {}
              ELSE ShiftLeft(m[i - ws], bs) \union
                   IF bs # 0 /\ i > ws
                   THEN ShiftRight(m[i - ws - 1], WordBits - bs)
                   ELSE {}]

\* The width test off by one: the counter just outside is waved through.
Mut_od_nonce_check(c) ==
  IF c = last THEN ~od_nonce_bit_test(bm, 0)
  ELSE c < last => (last - c < Width => ~od_nonce_bit_test(bm, last - c))

od_nonce_check(c) ==
  IF c = last THEN ~od_nonce_bit_test(bm, 0)
  ELSE c < last => /\ last - c < Width
                   /\ ~od_nonce_bit_test(bm, last - c)

od_nonce_commit(c) ==
  IF c = last THEN bm' = od_nonce_bit_set(bm, 0) /\ last' = last
  ELSE IF c < last
       THEN /\ bm' = IF last - c < Width THEN od_nonce_bit_set(bm, last - c) ELSE bm
            /\ last' = last
       ELSE /\ bm' = od_nonce_bit_set(od_nonce_bitmap_shift_left(bm, c - last), 0)
            /\ last' = c

BitmapInit ==
  /\ bm = Zeroes
  /\ Init

\* The refinement mapping: the window's bits, read off the words.
Reads(m) == {b \in Bits : od_nonce_bit_test(m, b)}

\* A frame whose counter passes the check and whose tag then verifies.
Open(c) ==
  /\ od_nonce_check(c)
  /\ od_nonce_commit(c)
  /\ consumed' = consumed \union {c}
  /\ seen' = Reads(bm')

reset_nonce_state ==
  /\ bm' = Zeroes
  /\ last' = 0
  /\ consumed' = {}
  /\ seen' = Reads(bm')

BitmapNext == (\E c \in Counter : Open(c)) \/ reset_nonce_state

BitmapSpec == BitmapInit /\ [][BitmapNext]_bitmapVars

-----------------------------------------------------------------------------
\* The words behave as one wide set of bits for every shift distance: within
\* a word, across words, by whole words, and beyond the width; and the code's
\* od_nonce_check() lets in what the window lets in.
ImplementsWindow == Spec
=============================================================================
