-------------------------- MODULE NonceWindowProofs --------------------------
(***************************************************************************)
(* Replay freedom of the inbound counter window, for every window width    *)
(* and every counter range, and of the words that implement it, for every  *)
(* word size and number of words.                                          *)
(***************************************************************************)
EXTENDS NonceBitmap, TLAPS

WInv == TypeOK /\ BitsExact

\* The bits tell the truth initially and after every committed counter.
LEMMA WindowInvariant == Spec => []WInv
<1>1. Init => WInv
  BY WidthAssumption, CounterAssumption
     DEF Init, WInv, TypeOK, BitsExact, Counter, Bits
<1>2. WInv /\ [Next]_vars => WInv'
  <2> SUFFICES ASSUME WInv, [Next]_vars PROVE WInv'
    OBVIOUS
  <2> USE WidthAssumption, CounterAssumption
  <2>1. CASE UNCHANGED vars
    BY <2>1 DEF vars, WInv, TypeOK, BitsExact
  <2>2. CASE Restart
    BY <2>2 DEF Restart, WInv, TypeOK, BitsExact, Counter, Bits
  <2>3. ASSUME NEW c \in Counter, Accept(c) PROVE WInv'
    <3>1. consumed' = consumed \union {c} /\ Commit(c)
      BY <2>3 DEF Accept
    <3>2. CASE c <= last
      <4>1. last' = last /\ seen' = seen \union ({last - c} \intersect Bits)
        BY <3>1, <3>2 DEF Commit
      <4>2. TypeOK'
        BY <3>1, <4>1 DEF WInv, TypeOK
      <4>3. \A b \in Bits : b \in seen' <=> last' - b \in consumed'
        BY <3>1, <3>2, <4>1 DEF WInv, TypeOK, BitsExact, Bits, Counter
      <4>4. (\A d \in consumed' : d <= last') /\ (last' # 0 => last' \in consumed')
        BY <3>1, <3>2, <4>1 DEF WInv, BitsExact
      <4> QED
        BY <4>2, <4>3, <4>4 DEF WInv, BitsExact
    <3>3. CASE ~(c <= last)
      <4>1. /\ last' = c
            /\ seen' = Aged(seen, c - last) \union {0}
        BY <3>1, <3>3 DEF Commit
      <4>2. TypeOK'
        BY <3>1, <4>1 DEF WInv, TypeOK, Aged, Bits
      <4>3. ASSUME NEW b \in Bits PROVE b \in seen' <=> last' - b \in consumed'
        <5>1. CASE b >= c - last
          <6>1. b - (c - last) \in Bits
            BY <3>3, <5>1 DEF Bits, Counter, WInv, TypeOK
          <6>2. b - (c - last) \in seen <=> c - b \in consumed
            BY <3>3, <6>1 DEF Bits, Counter, WInv, TypeOK, BitsExact
          <6> QED
            BY <3>1, <3>3, <4>1, <5>1, <6>2
               DEF Aged, Bits, Counter, WInv, TypeOK
        <5>2. CASE ~(b >= c - last)
          <6>1. b \in seen' <=> b = 0
            BY <4>1, <5>2 DEF Aged, Bits
          <6>2. c - b \notin consumed
            BY <5>2 DEF Bits, Counter, WInv, TypeOK, BitsExact
          <6> QED
            BY <3>1, <4>1, <6>1, <6>2 DEF Bits, Counter
        <5> QED
          BY <5>1, <5>2
      <4>4. (\A d \in consumed' : d <= last') /\ (last' # 0 => last' \in consumed')
        BY <3>1, <3>3, <4>1 DEF WInv, TypeOK, BitsExact, Counter
      <4> QED
        BY <4>2, <4>3, <4>4 DEF WInv, BitsExact
    <3> QED
      BY <3>2, <3>3
  <2> QED
    BY <2>1, <2>2, <2>3 DEF Next
<1> QED
  BY <1>1, <1>2, PTL DEF Spec

\* A consumed counter is never accepted again, for every width.
THEOREM ReplayFree == Spec => []NoReplay
<1>1. WInv => NoReplay
  BY WidthAssumption, CounterAssumption
     DEF WInv, TypeOK, BitsExact, NoReplay, Verdict, Bits, Counter
<1> QED
  BY <1>1, WindowInvariant, PTL

\* A counter inside the window that was not consumed stays acceptable.
THEOREM LateFrames == Spec => []LateFramesAccepted
<1>1. WInv => LateFramesAccepted
  <2> SUFFICES ASSUME WInv, NEW c \in Counter \ consumed, c + Width > last
               PROVE  Verdict(seen, last, c) = "NONCE_OK"
    BY DEF LateFramesAccepted
  <2>1. CASE c > last
    BY <2>1 DEF Verdict
  <2>2. CASE ~(c > last)
    <3>1. last - c \in Bits /\ last - (last - c) = c
      BY <2>2, WidthAssumption, CounterAssumption DEF WInv, TypeOK, Bits, Counter
    <3>2. last - c \notin seen
      BY <3>1 DEF WInv, BitsExact
    <3> QED
      BY <2>2, <3>1, <3>2, WidthAssumption DEF Verdict, Bits
  <2> QED
    BY <2>1, <2>2
<1> QED
  BY <1>1, WindowInvariant, PTL

\* The newest counter never moves backward while the key is the same.
THEOREM MonotoneLast == Spec => LastMonotone
<1>1. WInv /\ [Next]_vars => [consumed \subseteq consumed' => last' >= last]_vars
  <2> SUFFICES ASSUME WInv, [Next]_vars, consumed \subseteq consumed'
               PROVE  last' >= last
    BY DEF WInv, TypeOK, Counter
  <2> USE WidthAssumption, CounterAssumption
  <2>1. CASE UNCHANGED vars
    BY <2>1 DEF vars, WInv, TypeOK, Counter
  <2>2. CASE Restart
    <3>1. consumed = {}
      BY <2>2 DEF Restart
    <3>2. last = 0
      BY <3>1 DEF WInv, BitsExact
    <3> QED
      BY <2>2, <3>2 DEF Restart
  <2>3. ASSUME NEW c \in Counter, Accept(c) PROVE last' >= last
    BY <2>3 DEF Accept, Commit, WInv, TypeOK, Counter
  <2> QED
    BY <2>1, <2>2, <2>3 DEF Next
<1> QED
  BY <1>1, WindowInvariant, PTL DEF Spec, LastMonotone

-----------------------------------------------------------------------------
(* The words.                                                              *)

\* Where od_nonce_bit_test() and od_nonce_bit_set() find a bit.
WordOf(b) == b \div WordBits
BitOf(b) == b % WordBits

WordsOK(m) == m \in [WordIndex -> SUBSET WordBit]

\* A larger factor makes a multiple larger by the divisor at least.
LEMMA Multiples ==
  ASSUME NEW w \in Nat, NEW p \in Int, NEW q \in Int, p < q
  PROVE  w * p + w <= w * q
OBVIOUS

\* A quotient and a remainder below the divisor are those of one number.
LEMMA DivUnique ==
  ASSUME NEW w \in Nat \ {0}, NEW q \in Int, NEW r \in 0 .. w - 1
  PROVE  (w * q + r) \div w = q /\ (w * q + r) % w = r
OBVIOUS

\* A bit that is r places into word q is found there.
LEMMA PlaceUnique ==
  ASSUME NEW q \in Int, NEW r \in WordBit
  PROVE  WordOf(WordBits * q + r) = q /\ BitOf(WordBits * q + r) = r
BY DivUnique, WordAssumption DEF WordOf, BitOf, WordBit

\* Every bit of the window has a place in the array of words.
LEMMA Placed ==
  ASSUME NEW b \in Bits
  PROVE  WordOf(b) \in WordIndex /\ BitOf(b) \in WordBit /\ b = WordBits * WordOf(b) + BitOf(b)
<1>1. b \in Nat /\ WordBits \in Nat \ {0} /\ Words \in Nat /\ b < WordBits * Words
  BY WidthAssumption, WordAssumption DEF Bits
<1>2. WordOf(b) \in Int /\ BitOf(b) \in 0 .. WordBits - 1 /\ b = WordBits * WordOf(b) + BitOf(b)
  BY <1>1 DEF WordOf, BitOf
<1>3. WordOf(b) >= 0
  <2>1. WordOf(b) < 0 => WordBits * WordOf(b) + WordBits <= WordBits * 0
    BY <1>1, <1>2, Multiples
  <2> QED
    BY <1>1, <1>2, <2>1
<1>4. WordOf(b) < Words
  <2>1. Words < WordOf(b) => WordBits * Words + WordBits <= WordBits * WordOf(b)
    BY <1>1, <1>2, Multiples
  <2> QED
    BY <1>1, <1>2, <2>1
<1> QED
  BY <1>1, <1>2, <1>3, <1>4 DEF WordIndex, WordBit

\* The array that reset_nonce_state() leaves has no bit set.
LEMMA ZeroesRead == WordsOK(Zeroes) /\ Reads(Zeroes) = {}
  BY Placed DEF Zeroes, WordsOK, Reads, od_nonce_bit_test, WordOf

\* od_nonce_bit_set() sets the bit it is given and no other.
LEMMA BitSet ==
  ASSUME NEW m, WordsOK(m), NEW b \in Bits
  PROVE  /\ WordsOK(od_nonce_bit_set(m, b))
         /\ Reads(od_nonce_bit_set(m, b)) = Reads(m) \union {b}
<1> DEFINE n == [m EXCEPT ![WordOf(b)] = @ \union {BitOf(b)}]
<1>1. od_nonce_bit_set(m, b) = n
  BY DEF od_nonce_bit_set, WordOf, BitOf
<1>2. WordOf(b) \in WordIndex /\ BitOf(b) \in WordBit
  BY Placed
<1>3. WordsOK(n)
  BY <1>2 DEF WordsOK
<1>4. ASSUME NEW x \in Bits
      PROVE  BitOf(x) \in n[WordOf(x)] <=> (BitOf(x) \in m[WordOf(x)] \/ x = b)
  <2>1. WordOf(x) \in WordIndex /\ (x = b <=> (WordOf(x) = WordOf(b) /\ BitOf(x) = BitOf(b)))
    BY Placed, Zenon
  <2> QED
    BY <1>2, <2>1 DEF WordsOK
<1> QED
  BY <1>1, <1>3, <1>4 DEF Reads, od_nonce_bit_test, WordOf, BitOf

\* od_nonce_bitmap_shift_left() moves every bit by the distance given, within a
\* word, across words and past the end.
LEMMA ShiftedWords ==
  ASSUME NEW m, WordsOK(m), NEW n \in Nat
  PROVE  /\ WordsOK(od_nonce_bitmap_shift_left(m, n))
         /\ Reads(od_nonce_bitmap_shift_left(m, n)) = Aged(Reads(m), n)
<1> DEFINE s == od_nonce_bitmap_shift_left(m, n)
<1>1. CASE n >= Width
  <2>1. s = Zeroes
    BY <1>1 DEF od_nonce_bitmap_shift_left
  <2>2. Aged(Reads(m), n) = {}
    BY <1>1, WidthAssumption DEF Aged, Bits
  <2> QED
    BY <2>1, <2>2, ZeroesRead
<1>2. CASE n < Width
  <2>1. n \in Bits
    BY <1>2, WidthAssumption DEF Bits
  <2>2. PICK ws \in WordIndex, bs \in WordBit :
          ws = WordOf(n) /\ bs = BitOf(n) /\ n = WordBits * ws + bs
    BY <2>1, Placed, Zenon
  <2>3. WordBits \in Nat \ {0} /\ Words \in Nat \ {0}
    BY WordAssumption
  <2>4. s = [i \in WordIndex |->
              IF i < ws THEN {}
              ELSE ShiftLeft(m[i - ws], bs) \union
                   IF bs # 0 /\ i > ws THEN ShiftRight(m[i - ws - 1], WordBits - bs) ELSE {}]
    <3>1. ~(n >= Width)
      BY <1>2, WidthAssumption
    <3> QED
      BY <2>2, <3>1, Zenon DEF od_nonce_bitmap_shift_left, WordOf, BitOf
  <2>5. WordsOK(s)
    BY <2>4 DEF WordsOK, ShiftLeft, ShiftRight
  <2> HIDE DEF s
  <2>6. ASSUME NEW b \in Bits
        PROVE  BitOf(b) \in s[WordOf(b)] <=> (b >= n /\ b - n \in Reads(m))
    <3>1. PICK i \in WordIndex, r \in WordBit :
            i = WordOf(b) /\ r = BitOf(b) /\ b = WordBits * i + r
      BY Placed, Zenon
    <3>2. i - ws \in Int /\ i \in Nat /\ ws \in Nat /\ r \in 0 .. WordBits - 1 /\ bs \in 0 .. WordBits - 1
      BY <2>3 DEF WordIndex, WordBit
    <3>3. b - n = WordBits * (i - ws) + (r - bs)
      BY <2>2, <2>3, <3>1, <3>2
    <3>4. (b >= n /\ b - n \in Reads(m)) <=>
            (b >= n /\ BitOf(b - n) \in m[WordOf(b - n)])
      BY <2>1, WidthAssumption DEF Reads, od_nonce_bit_test, WordOf, BitOf, Bits
    <3>5. s[i] = IF i < ws THEN {}
                 ELSE ShiftLeft(m[i - ws], bs) \union
                      IF bs # 0 /\ i > ws THEN ShiftRight(m[i - ws - 1], WordBits - bs) ELSE {}
      BY <2>4
    <3>6. CASE r >= bs
      <4>1. WordOf(b - n) = i - ws /\ BitOf(b - n) = r - bs
        <5>1. r - bs \in WordBit
          BY <2>3, <3>2, <3>6 DEF WordBit
        <5> QED
          BY <3>2, <3>3, <5>1, PlaceUnique
      <4>2. b >= n <=> i >= ws
        <5>1. b >= n <=> WordBits * (i - ws) + (r - bs) >= 0
          BY <3>3, <2>1 DEF Bits
        <5>2. i - ws < 0 => WordBits * (i - ws) + WordBits <= WordBits * 0
          BY <2>3, <3>2, Multiples
        <5>3. i - ws >= 0 => WordBits * (i - ws) >= 0
          BY <2>3, <3>2
        <5> QED
          BY <2>3, <3>2, <3>6, <5>1, <5>2, <5>3
      <4>3. r \in s[i] <=> (i >= ws /\ r - bs \in m[i - ws])
        <5>1. bs # 0 /\ i > ws => m[i - ws - 1] \subseteq WordBit
          BY <2>3, <3>2 DEF WordsOK, WordIndex
        <5> QED
          BY <2>3, <3>2, <3>5, <3>6, <5>1 DEF ShiftLeft, ShiftRight, WordBit
      <4> QED
        BY <3>1, <3>4, <4>1, <4>2, <4>3
    <3>7. CASE r < bs
      <4>1. /\ b - n = WordBits * (i - ws - 1) + (r + WordBits - bs)
            /\ r + WordBits - bs \in WordBit /\ i - ws - 1 \in Int
        BY <2>3, <3>2, <3>3, <3>7 DEF WordBit
      <4>2. WordOf(b - n) = i - ws - 1 /\ BitOf(b - n) = r + WordBits - bs
        BY <4>1, PlaceUnique
      <4>3. b >= n <=> i > ws
        <5>1. b >= n <=> WordBits * (i - ws) + (r - bs) >= 0
          BY <3>3, <2>1 DEF Bits
        <5>2. i - ws <= 0 => WordBits * (i - ws) <= 0
          BY <2>3, <3>2
        <5>3. 0 < i - ws => WordBits * 0 + WordBits <= WordBits * (i - ws)
          BY <2>3, <3>2, Multiples
        <5> QED
          BY <2>3, <3>2, <3>7, <5>1, <5>2, <5>3
      <4>4. r \in s[i] <=> (i > ws /\ r + WordBits - bs \in m[i - ws - 1])
        <5>1. i >= ws => m[i - ws] \subseteq WordBit
          BY <2>3, <3>2 DEF WordsOK, WordIndex
        <5> QED
          BY <2>3, <3>2, <3>5, <3>7, <5>1 DEF ShiftLeft, ShiftRight, WordBit
      <4> QED
        BY <3>1, <3>4, <4>2, <4>3, <4>4
    <3> QED
      BY <3>2, <3>6, <3>7
  <2>7. Reads(s) = Aged(Reads(m), n)
    BY <2>6 DEF Reads, Aged, od_nonce_bit_test, WordOf, BitOf
  <2> QED
    BY <2>5, <2>7 DEF s
<1> QED
  BY <1>1, <1>2, WidthAssumption

\* The mapping and the words' type.
BInv == WordsOK(bm) /\ seen = Reads(bm) /\ last \in Counter

\* Every step of the words is a step of the window.
LEMMA BitmapStep ==
  ASSUME BInv, [BitmapNext]_bitmapVars
  PROVE  BInv' /\ [Next]_vars
<1> USE WidthAssumption, CounterAssumption
<1>1. CASE UNCHANGED bitmapVars
  BY <1>1 DEF bitmapVars, vars, BInv
<1>2. CASE reset_nonce_state
  <2>1. WordsOK(bm') /\ Reads(bm') = {}
    BY <1>2, ZeroesRead DEF reset_nonce_state
  <2> QED
    BY <1>2, <2>1 DEF reset_nonce_state, BInv, Next, Restart, Counter
<1>3. ASSUME NEW c \in Counter, Open(c) PROVE BInv' /\ [Next]_vars
  <2>1. od_nonce_check(c) /\ od_nonce_commit(c) /\ consumed' = consumed \union {c} /\ seen' = Reads(bm')
    BY <1>3 DEF Open
  <2>2. 0 \in Bits /\ last \in Nat /\ c \in Nat
    BY DEF Bits, BInv, Counter
  <2>3. CASE c > last
    <3>1. bm' = od_nonce_bit_set(od_nonce_bitmap_shift_left(bm, c - last), 0) /\ last' = c
      BY <2>1, <2>2, <2>3 DEF od_nonce_commit
    <3>2. /\ WordsOK(od_nonce_bitmap_shift_left(bm, c - last))
          /\ Reads(od_nonce_bitmap_shift_left(bm, c - last)) = Aged(seen, c - last)
      BY <2>2, <2>3, ShiftedWords DEF BInv
    <3>3. WordsOK(bm') /\ Reads(bm') = Aged(seen, c - last) \union {0}
      BY <2>2, <3>1, <3>2, BitSet
    <3>4. Accept(c)
      BY <2>1, <2>2, <2>3, <3>1, <3>3 DEF Accept, Verdict, Commit
    <3> QED
      BY <2>1, <3>1, <3>3, <3>4 DEF BInv, Next
  <2>4. CASE c <= last
    <3>1. last - c \in Nat /\ last - c < Width /\ last - c \in Bits
      BY <2>1, <2>2, <2>4 DEF od_nonce_check, Bits
    <3>2. last - c \notin seen
      BY <2>1, <2>2, <2>4, <3>1 DEF od_nonce_check, BInv, Reads
    <3>3. bm' = od_nonce_bit_set(bm, last - c) /\ last' = last
      BY <2>1, <2>2, <2>4, <3>1 DEF od_nonce_commit
    <3>4. WordsOK(bm') /\ Reads(bm') = seen \union {last - c}
      BY <3>1, <3>3, BitSet DEF BInv
    <3>5. Accept(c)
      BY <2>1, <2>2, <2>4, <3>1, <3>2, <3>3, <3>4 DEF Accept, Verdict, Commit
    <3> QED
      BY <2>1, <3>3, <3>4, <3>5 DEF BInv, Next
  <2> QED
    BY <2>2, <2>3, <2>4
<1> QED
  BY <1>1, <1>2, <1>3 DEF BitmapNext

\* The array of words implements the window, for every word size, number of
\* words and counter range: what od_nonce_check() lets through the window lets
\* through, and od_nonce_commit() and reset_nonce_state() leave what it says.
THEOREM WordsImplementWindow == BitmapSpec => ImplementsWindow
<1>1. BitmapInit => Init /\ BInv
  BY CounterAssumption, ZeroesRead DEF BitmapInit, Init, BInv, Counter
<1>2. BInv /\ [BitmapNext]_bitmapVars => BInv' /\ [Next]_vars
  BY BitmapStep
<1> QED
  BY <1>1, <1>2, PTL DEF BitmapSpec, ImplementsWindow, Spec

\* The code's bitmap never admits a consumed counter again.
THEOREM WordsReplayFree == BitmapSpec => []NoReplay
  BY WordsImplementWindow, ReplayFree, PTL DEF ImplementsWindow
=============================================================================
