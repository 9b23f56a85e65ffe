--------------------------- MODULE RxReorderProofs ---------------------------
(***************************************************************************)
(* The reorder table of RxReorder for every sequence space, every window   *)
(* below half of it and any number of frames, agreements and host sleeps.  *)
(***************************************************************************)
EXTENDS RxReorder, WellFoundedInduction, TLAPS

-----------------------------------------------------------------------------
(* Least and greatest members of a set of numbers.                         *)

(* A set of natural numbers that is not empty has a least member. *)
LEMMA LeastMember ==
    ASSUME NEW T \in SUBSET Nat, T # {}
    PROVE  \E m \in T : \A k \in T : m <= k
<1> DEFINE R == {p \in Nat \X Nat : p[1] < p[2]}
<1>1. OpToRel(<, Nat) = R
  BY DEF OpToRel
<1>2. IsWellFoundedOn(R, Nat)
  BY <1>1, NatLessThanWellFounded
<1>3. PICK x \in T : \A y \in T : ~(<<y, x>> \in R)
  BY <1>2, WFMin
<1>4. \A i, j \in Nat : i < j => <<i, j>> \in R
  OBVIOUS
<1> HIDE DEF R
<1>5. \A y \in T : ~(y < x)
  BY <1>3, <1>4
<1> QED
  BY <1>5

(* A set of numbers up to n that is not empty has a greatest member. *)
LEMMA GreatestMember ==
    ASSUME NEW n \in Nat, NEW T \in SUBSET (0 .. n), T # {}
    PROVE  \E m \in T : \A k \in T : k <= m
<1> DEFINE U == {k \in 0 .. n : n - k \in T}
<1>1. U \in SUBSET Nat
  OBVIOUS
<1>2. U # {}
  <2>1. PICK k \in T : TRUE
    OBVIOUS
  <2>2. n - k \in 0 .. n /\ n - (n - k) = k
    OBVIOUS
  <2> QED
    BY <2>1, <2>2
<1> HIDE DEF U
<1>3. PICK u \in U : \A v \in U : u <= v
  BY <1>1, <1>2, LeastMember
<1>4. u \in 0 .. n /\ n - u \in T
  BY DEF U
<1>5. \A k \in T : n - k \in U
  BY DEF U
<1> QED
  BY <1>3, <1>4, <1>5

-----------------------------------------------------------------------------
(* The arithmetic of sequence numbers.                                     *)

(* Two numbers that the code, seeing 12 bits, cannot tell apart. *)
SameSeq(a, b) == ((a - b) % SeqSpace) = 0

(* Division with remainder. *)
LEMMA DivMod ==
    \A d \in Nat \ {0}, a \in Int :
        /\ a % d \in 0 .. d - 1
        /\ a \div d \in Int
        /\ a = (d * (a \div d)) + (a % d)
  OBVIOUS

(* The remainder is the only one. *)
LEMMA ModUnique ==
    \A d \in Nat \ {0}, a, q \in Int :
        \A r \in 0 .. d - 1 : a = (d * q) + r => (a % d) = r
  BY Z3

(* A number below the modulus is its own remainder. *)
LEMMA ModSmall ==
    ASSUME NEW d \in Nat \ {0}, NEW a \in 0 .. d - 1
    PROVE  (a % d) = a
  BY ModUnique

(* SeqSpace is a modulus, and twice HalfSpace. *)
LEMMA Space ==
    /\ SeqSpace \in Nat \ {0} /\ HalfSpace \in Nat /\ WinSize \in Nat
    /\ SeqSpace = 2 * HalfSpace /\ 2 <= WinSize /\ WinSize < HalfSpace
  BY WindowAssumption

(* Multiples of the sequence space add up. *)
LEMMA MultiplesAdd ==
    ASSUME NEW a \in Int, NEW b \in Int, (a % SeqSpace) = 0, (b % SeqSpace) = 0
    PROVE  ((a + b) % SeqSpace) = 0 /\ ((a - b) % SeqSpace) = 0
<1> DEFINE p == a \div SeqSpace
           q == b \div SeqSpace
<1>a. /\ p \in Int /\ a = (SeqSpace * p) + (a % SeqSpace)
      /\ q \in Int /\ b = (SeqSpace * q) + (b % SeqSpace)
  BY Space, DivMod
<1> HIDE DEF p, q
<1>1. p \in Int /\ q \in Int /\ a = SeqSpace * p /\ b = SeqSpace * q
  BY <1>a, Space
<1>2. a + b = (SeqSpace * (p + q)) + 0 /\ a - b = (SeqSpace * (p - q)) + 0
  BY <1>1, Space
<1>3. p + q \in Int /\ p - q \in Int /\ a + b \in Int /\ a - b \in Int
      /\ 0 \in 0 .. SeqSpace - 1
  BY <1>1, Space
<1> QED
  BY <1>2, <1>3, Space, ModUnique

(* What is less than two laps away and looks alike is at most one lap away. *)
LEMMA Laps ==
    ASSUME NEW a \in Int, (a % SeqSpace) = 0, -(2 * SeqSpace) < a, a < 2 * SeqSpace
    PROVE  a \in {-SeqSpace, 0, SeqSpace}
<1> DEFINE p == a \div SeqSpace
<1>a. p \in Int /\ a = (SeqSpace * p) + (a % SeqSpace)
  BY Space, DivMod
<1> HIDE DEF p
<1>1. p \in Int /\ a = SeqSpace * p
  BY <1>a, Space
<1>2. p > -2 /\ p < 2
  BY <1>1, Space
<1> QED
  BY <1>1, <1>2, Space

(* The number in the header stands for the frame. *)
LEMMA SeqOfFrame ==
    ASSUME NEW n \in Int
    PROVE  Seq12(n) \in 0 .. SeqSpace - 1 /\ SameSeq(n, Seq12(n))
<1> DEFINE q == n \div SeqSpace
           r == n % SeqSpace
<1>1. q \in Int /\ r \in 0 .. SeqSpace - 1 /\ n = (SeqSpace * q) + r
  BY Space, DivMod
<1>2. r = Seq12(n)
  BY DEF Seq12
<1> HIDE DEF q, r
<1>3. n - r = (SeqSpace * q) + 0 /\ n - r \in Int /\ 0 \in 0 .. SeqSpace - 1
  BY <1>1, Space
<1>4. ((n - r) % SeqSpace) = 0
  BY <1>1, <1>3, Space, ModUnique
<1> QED
  BY <1>1, <1>2, <1>4 DEF SameSeq

(* Looking alike is an equivalence and respects sums. *)
LEMMA SameShift ==
    ASSUME NEW a \in Int, NEW b \in Int, NEW c \in Int, SameSeq(a, b)
    PROVE  SameSeq(a + c, b + c)
<1>1. (a + c) - (b + c) = a - b
  OBVIOUS
<1> QED
  BY <1>1 DEF SameSeq

(* Two frames with one number between them have the same number. *)
LEMMA SameTrans ==
    ASSUME NEW a \in Int, NEW b \in Int, NEW c \in Int, SameSeq(a, b), SameSeq(b, c)
    PROVE  SameSeq(a, c)
<1>1. (a - b) + (b - c) = a - c /\ a - b \in Int /\ b - c \in Int
  OBVIOUS
<1>2. (((a - b) + (b - c)) % SeqSpace) = 0
  BY <1>1, MultiplesAdd DEF SameSeq
<1> QED
  BY <1>1, <1>2 DEF SameSeq

(* Standing for the same number has no direction. *)
LEMMA SameSym ==
    ASSUME NEW a \in Int, NEW b \in Int, SameSeq(a, b)
    PROVE  SameSeq(b, a)
<1>1. (0 % SeqSpace) = 0
  BY Space, ModSmall
<1>2. 0 - (a - b) = b - a /\ a - b \in Int
  OBVIOUS
<1>3. ((0 - (a - b)) % SeqSpace) = 0
  BY <1>1, <1>2, MultiplesAdd DEF SameSeq
<1> QED
  BY <1>2, <1>3 DEF SameSeq

(* Plus is addition as the code sees it. *)
LEMMA PlusSame ==
    ASSUME NEW a \in Int, NEW s \in Int, NEW k \in Int, SameSeq(a, s)
    PROVE  Plus(s, k) \in 0 .. SeqSpace - 1 /\ SameSeq(a + k, Plus(s, k))
<1>1. s + k \in Int /\ Plus(s, k) = Seq12(s + k)
  BY DEF Plus, Seq12
<1>2. Plus(s, k) \in 0 .. SeqSpace - 1 /\ SameSeq(s + k, Plus(s, k))
  BY <1>1, SeqOfFrame
<1>3. SameSeq(a + k, s + k)
  BY SameShift
<1> QED
  BY <1>1, <1>2, <1>3, SameTrans, Space

(* The distance of two frames and that of their numbers differ by a lap or *)
(* not at all.                                                             *)
LEMMA Distance ==
    ASSUME NEW a \in Int, NEW n \in Int, NEW s \in 0 .. SeqSpace,
           NEW q \in 0 .. SeqSpace - 1, SameSeq(a, s), SameSeq(n, q),
           -SeqSpace < n - a, n - a < SeqSpace
    PROVE  (n - a) - (q - s) \in {-SeqSpace, 0, SeqSpace}
<1>1. ((n - q) - (a - s) \in Int) /\ ((((n - q) - (a - s)) % SeqSpace) = 0)
  <2>1. n - q \in Int /\ a - s \in Int
    BY Space
  <2> QED
    BY <2>1, MultiplesAdd DEF SameSeq
<1>2. (n - q) - (a - s) = (n - a) - (q - s)
  BY Space
<1>3. -(2 * SeqSpace) < (n - a) - (q - s) /\ (n - a) - (q - s) < 2 * SeqSpace
  BY Space
<1> QED
  BY <1>1, <1>2, <1>3, Laps

(* A number has one representative in every stretch of SeqSpace frames. *)
LEMMA NearExact ==
    ASSUME NEW q \in Int, NEW m \in Int, NEW x \in m - HalfSpace .. m + HalfSpace - 1,
           SameSeq(x, q)
    PROVE  Near(q, m) = x
<1>1. ASSUME NEW y \in m - HalfSpace .. m + HalfSpace - 1, ((y - q) % SeqSpace) = 0
      PROVE  y = x
  <2>0. x \in Int /\ y \in Int /\ x - q \in Int /\ y - q \in Int
    BY Space
  <2>1. (((x - q) - (y - q)) % SeqSpace) = 0
    BY <1>1, <2>0, MultiplesAdd DEF SameSeq
  <2>2. (x - q) - (y - q) = x - y /\ -SeqSpace < x - y /\ x - y < SeqSpace
    BY Space
  <2>3. x - y \in {-SeqSpace, 0, SeqSpace}
    <3>1. x - y \in Int /\ ((x - y) % SeqSpace) = 0
      BY <2>0, <2>1, <2>2
    <3>2. -(2 * SeqSpace) < x - y /\ x - y < 2 * SeqSpace
      BY <2>0, <2>2, Space
    <3> QED
      BY <3>1, <3>2, Laps
  <2> QED
    BY <2>2, <2>3, Space
<1>2. ((x - q) % SeqSpace) = 0
  BY DEF SameSeq
<1> QED
  BY <1>1, <1>2 DEF Near

(* Near is close to the frame it was asked for, with the right number. *)
LEMMA NearInRange ==
    ASSUME NEW q \in Int, NEW m \in Int
    PROVE  Near(q, m) \in m - HalfSpace .. m + HalfSpace - 1 /\ SameSeq(Near(q, m), q)
<1> DEFINE lo == m - HalfSpace
           x == lo + Seq12(q - lo)
<1>1. lo \in Int /\ q - lo \in Int
  BY Space
<1>2. Seq12(q - lo) \in 0 .. SeqSpace - 1 /\ SameSeq(q - lo, Seq12(q - lo))
  BY <1>1, SeqOfFrame
<1>3. x \in m - HalfSpace .. m + HalfSpace - 1
  BY <1>2, Space
<1>a. Seq12(q - lo) \in Int
  BY <1>2, Space
<1>4. SameSeq((q - lo) + lo, Seq12(q - lo) + lo)
  BY <1>1, <1>2, <1>a, SameShift
<1>5. (q - lo) + lo = q /\ Seq12(q - lo) + lo = x
  BY <1>1, <1>2
<1>6. SameSeq(x, q)
  BY <1>3, <1>4, <1>5, SameSym, Space
<1> HIDE DEF x
<1> QED
  BY <1>3, <1>6, NearExact

-----------------------------------------------------------------------------
(* The window tests of the code, branch by branch, decide what they would  *)
(* decide on frames numbered without wrap.  start_win may be SeqSpace: the  *)
(* check phase stores last_seq + 1 without reducing it.                    *)

(* What the mask in Plus comes to. *)
LEMMA PlusWraps ==
    ASSUME NEW s \in 0 .. SeqSpace, NEW k \in 0 .. SeqSpace - 1
    PROVE  Plus(s, k) = IF s + k < SeqSpace THEN s + k ELSE s + k - SeqSpace
<1>1. CASE s + k < SeqSpace
  <2>1. s + k \in 0 .. SeqSpace - 1
    BY <1>1, Space
  <2> QED
    BY <1>1, <2>1, Space, ModSmall DEF Plus
<1>2. CASE s + k >= SeqSpace
  <2>1. s + k - SeqSpace \in 0 .. SeqSpace - 1 /\ s + k \in Int
        /\ s + k = (SeqSpace * 1) + (s + k - SeqSpace)
    BY <1>2, Space
  <2>2. ((s + k) % SeqSpace) = s + k - SeqSpace
    BY <2>1, Space, ModUnique
  <2> QED
    BY <1>2, <2>1, <2>2, Space DEF Plus
<1> QED
  BY <1>1, <1>2, Space

(* Frame n has number q, the window starts at frame a with number s. *)
LEMMA OldExact ==
    ASSUME NEW a \in Int, NEW n \in Int, NEW s \in 0 .. SeqSpace,
           NEW q \in 0 .. SeqSpace - 1, SameSeq(a, s), SameSeq(n, q),
           -WinSize <= n - a, n - a < HalfSpace
    PROVE  IsOld(s, q) <=> n < a
<1>1. (n - a) - (q - s) \in {-SeqSpace, 0, SeqSpace}
  BY Distance, Space
<1>2. s + HalfSpace > SeqSpace - 1 => Plus(s, HalfSpace) = s + HalfSpace - SeqSpace
  BY PlusWraps, Space
<1> QED
  BY <1>1, <1>2, Space DEF IsOld

(* The test of the window's end. *)
LEMMA BeyondExact ==
    ASSUME NEW a \in Int, NEW n \in Int, NEW s \in 0 .. SeqSpace,
           NEW q \in 0 .. SeqSpace - 1, SameSeq(a, s), SameSeq(n, q),
           WinSize - SeqSpace <= n - a, n - a < SeqSpace
    PROVE  IsBeyond(s, q) <=> ~(a <= n /\ n < a + WinSize)
<1>1. (n - a) - (q - s) \in {-SeqSpace, 0, SeqSpace}
  BY Distance, Space
<1>2. Plus(s, WinSize - 1) = IF s + (WinSize - 1) < SeqSpace THEN s + (WinSize - 1)
                             ELSE s + (WinSize - 1) - SeqSpace
  BY PlusWraps, Space
<1> QED
  BY <1>1, <1>2, Space DEF IsBeyond

(* The slot of a frame in the window is its distance from the start. *)
LEMMA SlotExact ==
    ASSUME NEW a \in Int, NEW n \in Int, NEW s \in 0 .. SeqSpace,
           NEW q \in 0 .. SeqSpace - 1, SameSeq(a, s), SameSeq(n, q),
           a <= n, n < a + WinSize
    PROVE  SlotOf(s, q) = n - a
<1>1. (n - a) - (q - s) \in {-SeqSpace, 0, SeqSpace}
  BY Distance, Space
<1> QED
  BY <1>1, Space DEF SlotOf

(* The slide puts the frame at the window's end. *)
LEMMA SlidExact ==
    ASSUME NEW n \in Int, NEW q \in 0 .. SeqSpace - 1, SameSeq(n, q)
    PROVE  /\ SlidStart(q) \in 0 .. SeqSpace - 1
           /\ SameSeq(n - WinSize + 1, SlidStart(q))
<1>1. SlidStart(q) \in 0 .. SeqSpace - 1
  BY Space DEF SlidStart
<1>a. 1 - WinSize \in Int /\ q \in Int
  BY Space
<1>2. SameSeq(n + (1 - WinSize), q + (1 - WinSize))
  BY <1>a, SameShift
<1>3. n + (1 - WinSize) = n - WinSize + 1 /\ q + (1 - WinSize) \in Int
      /\ n - WinSize + 1 \in Int
  BY Space
<1>4. CASE q - WinSize + 1 >= 0
  <2>1. SlidStart(q) = q + (1 - WinSize)
    BY <1>4, Space DEF SlidStart
  <2> QED
    BY <1>1, <1>2, <1>3, <2>1
<1>5. CASE q - WinSize + 1 < 0
  <2>1. SlidStart(q) = (q + (1 - WinSize)) + SeqSpace
    BY <1>5, Space DEF SlidStart
  <2>2. SameSeq(q + (1 - WinSize), (q + (1 - WinSize)) + SeqSpace)
    <3>1. (q + (1 - WinSize)) - ((q + (1 - WinSize)) + SeqSpace) = (SeqSpace * (-1)) + 0
          /\ 0 \in 0 .. SeqSpace - 1
      BY Space
    <3>2. (((SeqSpace * (-1)) + 0) % SeqSpace) = 0
      BY <3>1, Space, ModUnique
    <3> QED
      BY <3>1, <3>2 DEF SameSeq
  <2> QED
    BY <1>1, <1>2, <1>3, <2>1, <2>2, SameTrans, Space
<1> QED
  BY <1>1, <1>4, <1>5, Space

-----------------------------------------------------------------------------
(* Tables and what the operators of RxWindow make of them.                 *)

Tables ==
    [start_win : 0 .. SeqSpace, rx_reorder_ptr : [SlotIndex -> Int],
     bitmap : SUBSET Nat, check_start_win : BOOLEAN, pkt_count : Nat,
     last_seq : (0 .. SeqSpace - 1) \cup {DEFAULT_SEQ_NUM},
     force_no_drop : BOOLEAN, flush_data : BOOLEAN, amsdu : BOOLEAN,
     timer_is_set : BOOLEAN, armed : BOOLEAN]

(* Table t is that of a window that starts at frame a. *)
Fits(t, a) ==
    /\ t \in Tables /\ a \in Int
    /\ SameSeq(a, t.start_win)
    /\ \A i \in SlotIndex : t.rx_reorder_ptr[i] \in {Empty, FwDropped, a + i}

(* What t holds lies below frame m. *)
Below(t, a, m) == \A i \in SlotIndex : t.rx_reorder_ptr[i] # Empty => a + i < m

(* The bitmap shows the slots in use. *)
Marked(t) == t.bitmap = Occupied(t.rx_reorder_ptr)

IsEmpty(t) == \A i \in SlotIndex : t.rx_reorder_ptr[i] = Empty

(* Slots, bitmap and start apart, u is t. *)
Keeps(u, t) ==
    /\ u.check_start_win = t.check_start_win /\ u.pkt_count = t.pkt_count
    /\ u.last_seq = t.last_seq /\ u.force_no_drop = t.force_no_drop
    /\ u.flush_data = t.flush_data /\ u.amsdu = t.amsdu
    /\ u.timer_is_set = t.timer_is_set /\ u.armed = t.armed

(* Moving the window by k slots. *)
LEMMA MovedTyped ==
    ASSUME NEW t \in Tables, NEW k \in Nat, NEW s \in 0 .. SeqSpace
    PROVE  /\ Moved(t, k, s) \in Tables /\ Keeps(Moved(t, k, s), t)
           /\ Moved(t, k, s).start_win = s
           /\ Moved(t, k, s).rx_reorder_ptr = Rotate(t.rx_reorder_ptr, k)
           /\ Moved(t, k, s).bitmap = ShiftBits(t.bitmap, k)
<1>1. Rotate(t.rx_reorder_ptr, k) \in [SlotIndex -> Int]
  BY Space DEF Tables, Rotate, SlotIndex, Empty
<1>2. ShiftBits(t.bitmap, k) \in SUBSET Nat
  BY DEF Tables, ShiftBits
<1> QED
  BY <1>1, <1>2 DEF Moved, Tables, Keeps

(* The slots move with the window. *)
LEMMA MovedFits ==
    ASSUME NEW t, NEW a, Fits(t, a), NEW k \in Nat, NEW s \in 0 .. SeqSpace,
           NEW b \in Int, SameSeq(b, s),
           b = a + k \/ \A i \in SlotIndex : i >= k => t.rx_reorder_ptr[i] = Empty
    PROVE  /\ Fits(Moved(t, k, s), b)
           /\ \A m \in Int : Below(t, a, m) => Below(Moved(t, k, s), b, m)
<1> DEFINE u == Moved(t, k, s)
<1>1. u \in Tables /\ u.start_win = s
      /\ u.rx_reorder_ptr = Rotate(t.rx_reorder_ptr, k)
  BY MovedTyped DEF Fits
<1>2. ASSUME NEW i \in SlotIndex
      PROVE  \/ u.rx_reorder_ptr[i] = Empty
             \/ /\ i + k \in SlotIndex
                /\ u.rx_reorder_ptr[i] = t.rx_reorder_ptr[i + k]
                /\ b = a + k
  BY <1>1, Space DEF Rotate, SlotIndex
<1> HIDE DEF u
<1>3. ASSUME NEW i \in SlotIndex
      PROVE  u.rx_reorder_ptr[i] \in {Empty, FwDropped, b + i}
  <2>1. CASE /\ i + k \in SlotIndex
             /\ u.rx_reorder_ptr[i] = t.rx_reorder_ptr[i + k]
             /\ b = a + k
    <3>1. t.rx_reorder_ptr[i + k] \in {Empty, FwDropped, a + (i + k)}
      BY <2>1 DEF Fits
    <3>2. a + (i + k) = b + i
      BY <2>1, Space DEF Fits, SlotIndex
    <3> QED
      BY <2>1, <3>1, <3>2
  <2> QED
    BY <1>2, <2>1
<1>4. ASSUME NEW m \in Int, Below(t, a, m), NEW i \in SlotIndex,
             u.rx_reorder_ptr[i] # Empty
      PROVE  b + i < m
  <2>1. i + k \in SlotIndex /\ t.rx_reorder_ptr[i + k] # Empty /\ b = a + k
    BY <1>2, <1>4
  <2>2. a + (i + k) < m
    BY <1>4, <2>1 DEF Below
  <2> QED
    BY <2>1, <2>2, Space DEF Fits, SlotIndex
<1>5. Fits(u, b)
  BY <1>1, <1>3 DEF Fits
<1> QED
  BY <1>4, <1>5 DEF u, Below

(* The bitmap moves with the slots, if it has a bit for each. *)
LEMMA MovedMarked ==
    ASSUME WinSize <= BitmapBits, NEW t \in Tables, Marked(t), NEW k \in Nat,
           NEW s \in 0 .. SeqSpace
    PROVE  Marked(Moved(t, k, s))
<1> DEFINE slot == t.rx_reorder_ptr
<1>1. /\ Moved(t, k, s).rx_reorder_ptr = Rotate(slot, k)
      /\ Moved(t, k, s).bitmap = ShiftBits(t.bitmap, k)
  BY MovedTyped
<1>2. Occupied(Rotate(slot, k)) = {i \in SlotIndex : i + k < WinSize /\ slot[i + k] # Empty}
  BY Space DEF Occupied, Rotate, SlotIndex
<1>3. CASE k < BitmapBits
  <2>1. ShiftBits(t.bitmap, k) = {j - k : j \in {x \in Occupied(slot) : x >= k}}
    BY <1>3 DEF ShiftBits, Marked
  <2>2. ASSUME NEW i \in SlotIndex, i + k < WinSize, slot[i + k] # Empty
        PROVE  i \in ShiftBits(t.bitmap, k)
    <3>1. i + k \in {x \in Occupied(slot) : x >= k} /\ i = (i + k) - k
      BY <2>2, Space DEF Occupied, SlotIndex
    <3> QED
      BY <2>1, <3>1
  <2>3. ASSUME NEW x \in Occupied(slot), x >= k
        PROVE  x - k \in SlotIndex /\ (x - k) + k < WinSize /\ slot[(x - k) + k] # Empty
    <3>1. x \in SlotIndex /\ slot[x] # Empty
      BY DEF Occupied
    <3>2. (x - k) + k = x
      BY <3>1, Space DEF SlotIndex
    <3> QED
      BY <2>3, <3>1, <3>2, Space DEF SlotIndex
  <2> QED
    BY <1>1, <1>2, <2>1, <2>2, <2>3 DEF Marked
<1>4. CASE k >= BitmapBits
  BY <1>1, <1>2, <1>4, WindowAssumption DEF ShiftBits, Marked, SlotIndex
<1> QED
  BY <1>3, <1>4, WindowAssumption

(* The window is moved up to frame b: the code's distance is the exact one *)
(* or the whole window.                                                    *)
LEMMA DispatchTyped ==
    ASSUME NEW t \in Tables, NEW s \in 0 .. SeqSpace - 1
    PROVE  /\ NoPktToSend(t, s) \in 1 .. WinSize
           /\ DispatchUntilStartWin(t, s).tbl = Moved(t, NoPktToSend(t, s), s)
           /\ DispatchUntilStartWin(t, s).tbl \in Tables
           /\ Keeps(DispatchUntilStartWin(t, s).tbl, t)
           /\ DispatchUntilStartWin(t, s).tbl.start_win = s
<1>1. t.start_win \in 0 .. SeqSpace
  BY DEF Tables
<1>2. NoPktToSend(t, s) \in 1 .. WinSize
  BY <1>1, Space DEF NoPktToSend
<1>3. DispatchUntilStartWin(t, s).tbl = Moved(t, NoPktToSend(t, s), s)
  BY DEF DispatchUntilStartWin, Result
<1>4. NoPktToSend(t, s) \in Nat /\ s \in 0 .. SeqSpace
  BY <1>2, Space
<1> QED
  BY <1>2, <1>3, <1>4, MovedTyped

(* wlan_11n_dispatch_pkt_until_start_win leaves the frames in their slots. *)
LEMMA DispatchFits ==
    ASSUME NEW t, NEW a, Fits(t, a), NEW s \in 0 .. SeqSpace - 1, NEW b \in Int,
           SameSeq(b, s), a < b, b - a < SeqSpace
    PROVE  LET u == DispatchUntilStartWin(t, s).tbl IN
           /\ Fits(u, b)
           /\ \A m \in Int : Below(t, a, m) => Below(u, b, m)
           /\ \A i \in SlotIndex : u.rx_reorder_ptr[i] # Empty =>
                i + (b - a) \in SlotIndex /\ t.rx_reorder_ptr[i + (b - a)] # Empty
<1> DEFINE k == NoPktToSend(t, s)
           u == DispatchUntilStartWin(t, s).tbl
<1>1. k \in 1 .. WinSize /\ u = Moved(t, k, s)
  BY DispatchTyped DEF Fits
<1>2. k = b - a \/ k = WinSize
  <2>1. t.start_win \in 0 .. SeqSpace /\ SameSeq(a, t.start_win) /\ a \in Int
    BY DEF Fits, Tables
  <2>2. (b - a) - (s - t.start_win) \in {-SeqSpace, 0, SeqSpace}
    BY <2>1, Distance, Space
  <2>3. s > t.start_win => s - t.start_win = b - a
    <3> DEFINE w == t.start_win
    <3>1. w \in Int /\ s \in Int /\ 0 <= w /\ s < SeqSpace /\ a \in Int
      BY <2>1, Space
    <3>2. (b - a) - (s - w) \in {-SeqSpace, 0, SeqSpace}
      BY <2>2
    <3> HIDE DEF w
    <3>3. s > w => s - w = b - a
      BY <3>1, <3>2, Space
    <3> QED
      BY <3>3 DEF w
  <2> QED
    BY <2>1, <2>3, Space DEF NoPktToSend
<1> HIDE DEF k
<1>3. k \in Nat /\ s \in 0 .. SeqSpace /\ a \in Int
  BY <1>1, Space DEF Fits
<1>4. b = a + k \/ \A i \in SlotIndex : i >= k => t.rx_reorder_ptr[i] = Empty
  BY <1>1, <1>2, <1>3, Space DEF SlotIndex
<1>5. Fits(u, b) /\ \A m \in Int : Below(t, a, m) => Below(u, b, m)
  BY <1>1, <1>3, <1>4, MovedFits
<1>6. u.rx_reorder_ptr = Rotate(t.rx_reorder_ptr, k)
  BY <1>1, <1>3, MovedTyped DEF Fits
<1>7. ASSUME NEW i \in SlotIndex, u.rx_reorder_ptr[i] # Empty
      PROVE  i + (b - a) \in SlotIndex /\ t.rx_reorder_ptr[i + (b - a)] # Empty
  <2>1. i + k < WinSize /\ t.rx_reorder_ptr[i + k] # Empty
    BY <1>6, <1>7 DEF Rotate
  <2>2. k = b - a
    BY <1>1, <1>2, <1>3, <2>1, Space DEF SlotIndex
  <2> QED
    BY <1>3, <2>1, <2>2, Space DEF SlotIndex
<1> QED
  BY <1>5, <1>7

(* Nothing stays when all that is held lies below b, nor when nothing was. *)
LEMMA DispatchEmpties ==
    ASSUME NEW t, NEW a, Fits(t, a), NEW s \in 0 .. SeqSpace - 1, NEW b \in Int,
           SameSeq(b, s), IsEmpty(t) \/ (a < b /\ b - a < SeqSpace /\ Below(t, a, b))
    PROVE  LET u == DispatchUntilStartWin(t, s).tbl IN Fits(u, b) /\ IsEmpty(u)
<1> DEFINE u == DispatchUntilStartWin(t, s).tbl
           k == NoPktToSend(t, s)
<1>1. CASE IsEmpty(t)
  <2>1. k \in Nat /\ u = Moved(t, k, s) /\ s \in 0 .. SeqSpace
    BY DispatchTyped, Space DEF Fits
  <2>2. Fits(u, b)
    BY <1>1, <2>1, MovedFits DEF IsEmpty
  <2>3. u.rx_reorder_ptr = Rotate(t.rx_reorder_ptr, k)
    BY <2>1, MovedTyped DEF Fits
  <2>4. IsEmpty(u)
    <3> HIDE DEF k, u
    <3> QED
      BY <1>1, <2>1, <2>3, Space DEF IsEmpty, Rotate, SlotIndex
  <2> QED
    BY <2>2, <2>4
<1>2. CASE a < b /\ b - a < SeqSpace /\ Below(t, a, b)
  <2>1. Fits(u, b) /\ \A i \in SlotIndex : u.rx_reorder_ptr[i] # Empty =>
                i + (b - a) \in SlotIndex /\ t.rx_reorder_ptr[i + (b - a)] # Empty
    BY <1>2, DispatchFits
  <2>2. \A i \in SlotIndex : i + (b - a) \in SlotIndex
                               => t.rx_reorder_ptr[i + (b - a)] = Empty
    BY <1>2, Space DEF Below, Fits, SlotIndex
  <2> QED
    BY <2>1, <2>2 DEF IsEmpty
<1> QED
  BY <1>1, <1>2

(* The flush of the whole window. *)
LEMMA WindowDispatched ==
    ASSUME NEW t \in Tables
    PROVE  LET u == DispatchWindow(t).tbl IN
           /\ u \in Tables /\ IsEmpty(u) /\ Keeps(u, t)
           /\ u.start_win = Plus(t.start_win, WinSize)
           /\ u.bitmap = ShiftBits(t.bitmap, WinSize)
<1> DEFINE s == Plus(t.start_win, WinSize)
           k == NoPktToSend(t, s)
           u == DispatchUntilStartWin(t, s).tbl
<1>1. t.start_win \in 0 .. SeqSpace /\ WinSize \in 0 .. SeqSpace - 1
  BY Space DEF Tables
<1>2. s = IF t.start_win + WinSize < SeqSpace THEN t.start_win + WinSize
          ELSE t.start_win + WinSize - SeqSpace
  BY <1>1, PlusWraps
<1>3. s \in 0 .. SeqSpace - 1 /\ s \in 0 .. SeqSpace
  BY <1>1, <1>2, Space
<1>4. k = WinSize
  BY <1>1, <1>2, Space DEF NoPktToSend
<1>5. u = Moved(t, WinSize, s) /\ u \in Tables /\ Keeps(u, t) /\ u.start_win = s
  BY <1>3, <1>4, DispatchTyped
<1>6. /\ u.rx_reorder_ptr = Rotate(t.rx_reorder_ptr, WinSize)
      /\ u.bitmap = ShiftBits(t.bitmap, WinSize)
  <2> HIDE DEF s, u
  <2> QED
    BY <1>3, <1>5, MovedTyped, Space
<1>7. IsEmpty(u)
  <2> HIDE DEF u
  <2> QED
    BY <1>6, Space DEF IsEmpty, Rotate, SlotIndex
<1> QED
  BY <1>5, <1>6, <1>7 DEF DispatchWindow

(* The scan finds the first hole. *)
LEMMA RunFound ==
    ASSUME NEW slot \in [SlotIndex -> Int]
    PROVE  /\ RunLength(slot) \in 0 .. WinSize
           /\ \A i \in 0 .. RunLength(slot) - 1 : slot[i] # Empty
           /\ RunLength(slot) < WinSize => slot[RunLength(slot)] = Empty
<1> DEFINE P(n) == /\ \A i \in 0 .. n - 1 : slot[i] # Empty
                   /\ n < WinSize => slot[n] = Empty
           T == {n \in 0 .. WinSize : n < WinSize => slot[n] = Empty}
<1>1. T \in SUBSET Nat /\ T # {}
  <2>1. WinSize \in T
    BY Space
  <2> QED
    BY <2>1
<1>2. PICK n \in T : \A k \in T : n <= k
  <2> HIDE DEF T
  <2> QED
    BY <1>1, LeastMember
<1>3. n \in 0 .. WinSize /\ P(n)
  BY <1>2, Space
<1> QED
  BY <1>3 DEF RunLength

(* wlan_11n_scan_and_dispatch: the start moves over frames held only. *)
LEMMA ScanFits ==
    ASSUME NEW t, NEW a, Fits(t, a)
    PROVE  LET u == ScanAndDispatch(t).tbl
               r == RunLength(t.rx_reorder_ptr) IN
           /\ r \in 0 .. WinSize
           /\ \A i \in 0 .. r - 1 : i \in SlotIndex /\ t.rx_reorder_ptr[i] # Empty
           /\ r < WinSize => t.rx_reorder_ptr[r] = Empty
           /\ u = Moved(t, r, Plus(t.start_win, r))
           /\ Plus(t.start_win, r) \in 0 .. SeqSpace
           /\ Fits(u, a + r) /\ Keeps(u, t)
           /\ \A m \in Int : Below(t, a, m) => Below(u, a + r, m)
<1> DEFINE r == RunLength(t.rx_reorder_ptr)
           s == Plus(t.start_win, r)
           u == ScanAndDispatch(t).tbl
<1>1. /\ t.rx_reorder_ptr \in [SlotIndex -> Int] /\ t \in Tables /\ a \in Int
      /\ t.start_win \in Int /\ SameSeq(a, t.start_win)
  BY Space DEF Fits, Tables
<1>2. /\ r \in 0 .. WinSize /\ \A i \in 0 .. r - 1 : t.rx_reorder_ptr[i] # Empty
      /\ r < WinSize => t.rx_reorder_ptr[r] = Empty
  BY <1>1, RunFound
<1>3. u = Moved(t, r, s)
  BY DEF ScanAndDispatch, Result
<1> HIDE DEF r
<1>4. s \in 0 .. SeqSpace - 1 /\ SameSeq(a + r, s)
  BY <1>1, <1>2, PlusSame, Space
<1> HIDE DEF s
<1>5. s \in 0 .. SeqSpace /\ r \in Nat /\ a + r \in Int
  BY <1>1, <1>2, <1>4, Space
<1>6. Fits(u, a + r) /\ \A m \in Int : Below(t, a, m) => Below(u, a + r, m)
  BY <1>3, <1>4, <1>5, MovedFits
<1>7. Keeps(u, t)
  BY <1>1, <1>3, <1>5, MovedTyped
<1>8. \A i \in 0 .. r - 1 : i \in SlotIndex /\ t.rx_reorder_ptr[i] # Empty
  BY <1>2, Space DEF SlotIndex
<1> QED
  BY <1>2, <1>3, <1>5, <1>6, <1>7, <1>8 DEF r, s

(* A flush that was asked for leaves nothing and moves the window past the *)
(* last frame held.                                                        *)
LEMMA FlushFits ==
    ASSUME NEW t, NEW a, Fits(t, a), NEW m \in Int, Below(t, a, m), a <= m
    PROVE  LET u == FlushIfAsked(t).tbl IN
           /\ u \in Tables
           /\ u.flush_data = FALSE
           /\ Keeps(u, [t EXCEPT !.flush_data = FALSE])
           /\ ~t.flush_data => u = t
           /\ t.flush_data => IsEmpty(u)
           /\ WinSize <= BitmapBits /\ Marked(t) => Marked(u)
           /\ \E b \in a .. a + WinSize : b <= m /\ Fits(u, b) /\ Below(u, b, m)
<1> DEFINE u == FlushIfAsked(t).tbl
           v == [t EXCEPT !.flush_data = FALSE]
           used == Occupied(t.rx_reorder_ptr)
<1>1. /\ v \in Tables /\ v.flush_data = FALSE /\ v.rx_reorder_ptr = t.rx_reorder_ptr
      /\ v.start_win = t.start_win /\ v.bitmap = t.bitmap
      /\ a \in Int /\ t \in Tables /\ t.flush_data \in BOOLEAN
  BY DEF Fits, Tables
<1>2. Fits(v, a) /\ Below(v, a, m)
  BY <1>1 DEF Fits, Below
<1>3. CASE ~t.flush_data
  <2>1. u = t /\ v = t
    BY <1>1, <1>3 DEF FlushIfAsked, Result, Tables
  <2>2. a \in a .. a + WinSize
    BY <1>1, Space
  <2> QED
    BY <1>1, <1>3, <2>1, <2>2 DEF Keeps
<1>4. CASE t.flush_data /\ used = {}
  <2>1. u = v
    BY <1>1, <1>4 DEF FlushIfAsked, StartFlushData, Result
  <2>2. a \in a .. a + WinSize
    BY <1>1, Space
  <2>3. IsEmpty(v)
    BY <1>1, <1>4 DEF IsEmpty, Occupied
  <2>4. Marked(t) => Marked(v)
    BY <1>1 DEF Marked
  <2> QED
    BY <1>1, <1>2, <1>4, <2>1, <2>2, <2>3, <2>4 DEF Keeps
<1>5. CASE t.flush_data /\ used # {}
  <2> DEFINE last == CHOOSE i \in used : \A j \in used : j <= i
             s == Plus(t.start_win, last + 1)
             b == a + (last + 1)
  <2>1. used \in SUBSET (0 .. (WinSize - 1)) /\ WinSize - 1 \in Nat
    BY Space DEF Occupied, SlotIndex
  <2>2. last \in used /\ \A j \in used : j <= last
    <3>1. \E i \in used : \A j \in used : j <= i
      BY <1>5, <2>1, GreatestMember
    <3> QED
      BY <3>1
  <2>3. u = DispatchUntilStartWin(v, s).tbl
    BY <1>1, <1>5 DEF FlushIfAsked, StartFlushData, Result
  <2> HIDE DEF last
  <2>4. last \in SlotIndex /\ last + 1 \in Int /\ 1 <= last + 1 /\ last + 1 <= WinSize
        /\ t.rx_reorder_ptr[last] # Empty
    BY <2>2, Space DEF Occupied, SlotIndex
  <2>5. s \in 0 .. SeqSpace - 1 /\ SameSeq(b, s)
    BY <1>1, <2>4, PlusSame, Space DEF Fits, Tables
  <2>6. b \in Int /\ a < b /\ b - a < SeqSpace /\ b \in a .. a + WinSize
    BY <1>1, <2>4, Space
  <2>7. Below(v, a, b)
    <3>1. ASSUME NEW i \in SlotIndex, t.rx_reorder_ptr[i] # Empty PROVE i <= last
      BY <2>2, <3>1 DEF Occupied
    <3> QED
      BY <1>1, <2>4, <3>1, Space DEF Below, SlotIndex
  <2>8. b <= m
    <3>1. a + last < m
      BY <2>4 DEF Below
    <3> QED
      BY <1>1, <2>4, <3>1, Space DEF SlotIndex
  <2> HIDE DEF s, b
  <2>9. Fits(u, b) /\ IsEmpty(u)
    BY <1>2, <2>3, <2>5, <2>6, <2>7, DispatchEmpties
  <2>10. u \in Tables /\ Keeps(u, v)
    BY <1>1, <2>3, <2>5, DispatchTyped
  <2>11. ASSUME WinSize <= BitmapBits, Marked(t) PROVE Marked(u)
    <3>1. /\ NoPktToSend(v, s) \in Nat /\ u = Moved(v, NoPktToSend(v, s), s)
          /\ s \in 0 .. SeqSpace
      BY <1>1, <2>3, <2>5, DispatchTyped, Space
    <3>2. Marked(v)
      BY <1>1, <2>11 DEF Marked
    <3> QED
      BY <1>1, <2>11, <3>1, <3>2, MovedMarked
  <2>12. Below(u, b, m)
    BY <2>9 DEF Below, IsEmpty
  <2>13. u.flush_data = FALSE
    BY <1>1, <2>10 DEF Keeps
  <2> HIDE DEF u, v
  <2> QED
    BY <1>5, <2>6, <2>8, <2>9, <2>10, <2>11, <2>12, <2>13 DEF u, v
<1> QED
  BY <1>3, <1>4, <1>5, <1>1

(* A frame is filed in the slot of its number. *)
LEMMA StoreFits ==
    ASSUME NEW t, NEW a, Fits(t, a), NEW n \in Nat, NEW q \in 0 .. SeqSpace - 1,
           SameSeq(n, q), a <= n, n < a + WinSize, NEW payload \in {n, FwDropped}
    PROVE  LET u == Store(t, q, payload) IN
           /\ Fits(u, a) /\ Keeps(u, t)
           /\ \A m \in Int : Below(t, a, m) /\ n < m => Below(u, a, m)
           /\ WinSize <= BitmapBits /\ Marked(t) => Marked(u)
<1> DEFINE k == SlotOf(t.start_win, q)
           u == Store(t, q, payload)
<1>1. /\ t \in Tables /\ t.start_win \in 0 .. SeqSpace /\ a \in Int /\ n \in Int
      /\ SameSeq(a, t.start_win)
  BY DEF Fits, Tables
<1>2. k = n - a
  BY <1>1, SlotExact
<1>3. u = [t EXCEPT !.rx_reorder_ptr[k] = payload, !.bitmap = SetBit(@, k)]
  BY DEF Store
<1> HIDE DEF k
<1>4. k \in SlotIndex /\ k \in Nat /\ a + k = n
  BY <1>1, <1>2, Space DEF SlotIndex
<1>5. payload \in Int /\ payload # Empty /\ payload \in {FwDropped, a + k}
  BY <1>4 DEF FwDropped, Empty
<1>6. SetBit(t.bitmap, k) \in SUBSET Nat
  BY <1>1, <1>4, WindowAssumption, DivMod DEF SetBit, Tables
<1>7. /\ u \in Tables /\ Keeps(u, t) /\ u.start_win = t.start_win
      /\ u.rx_reorder_ptr = [t.rx_reorder_ptr EXCEPT ![k] = payload]
      /\ u.bitmap = SetBit(t.bitmap, k)
  <2> DEFINE slot == [t.rx_reorder_ptr EXCEPT ![k] = payload]
             bits == SetBit(t.bitmap, k)
  <2>1. slot \in [SlotIndex -> Int] /\ bits \in SUBSET Nat
    BY <1>1, <1>5, <1>6 DEF Tables
  <2>2. u = [t EXCEPT !.rx_reorder_ptr = slot, !.bitmap = bits]
    BY <1>1, <1>3 DEF Tables
  <2> HIDE DEF slot, bits, u
  <2>3. /\ u \in Tables /\ Keeps(u, t) /\ u.start_win = t.start_win
        /\ u.rx_reorder_ptr = slot /\ u.bitmap = bits
    BY <1>1, <2>1, <2>2 DEF Tables, Keeps
  <2> QED
    BY <2>3 DEF slot, bits
<1> HIDE DEF u
<1>8. \A i \in SlotIndex :
        u.rx_reorder_ptr[i] = IF i = k THEN payload ELSE t.rx_reorder_ptr[i]
  BY <1>1, <1>4, <1>7 DEF Tables
<1>9. Fits(u, a)
  BY <1>1, <1>5, <1>7, <1>8 DEF Fits
<1>10. \A m \in Int : Below(t, a, m) /\ n < m => Below(u, a, m)
  BY <1>4, <1>8 DEF Below
<1>11. ASSUME WinSize <= BitmapBits, Marked(t) PROVE Marked(u)
  <2>1. k \in 0 .. BitmapBits - 1 /\ BitmapBits \in Nat \ {0}
    BY <1>4, <1>11, WindowAssumption DEF SlotIndex
  <2>2. (k % BitmapBits) = k
    BY <2>1, ModSmall
  <2>3. u.bitmap = Occupied(t.rx_reorder_ptr) \cup {k}
    BY <1>7, <1>11, <2>2 DEF Marked, SetBit
  <2> QED
    BY <1>4, <1>5, <1>8, <2>3 DEF Marked, Occupied
<1> QED
  BY <1>7, <1>9, <1>10, <1>11 DEF u

(* The flag of host sleep is dropped on the way. *)
Awake(t) == [t EXCEPT !.force_no_drop = FALSE]

(* Clearing force_no_drop moves nothing. *)
LEMMA AwakeFits ==
    ASSUME NEW t, NEW a, Fits(t, a)
    PROVE  /\ Fits(Awake(t), a) /\ Awake(t).force_no_drop = FALSE
           /\ Awake(t).start_win = t.start_win /\ Awake(t).bitmap = t.bitmap
           /\ Awake(t).rx_reorder_ptr = t.rx_reorder_ptr
           /\ \A m \in Int : Below(t, a, m) => Below(Awake(t), a, m)
           /\ Marked(t) => Marked(Awake(t))
           /\ IsEmpty(t) => IsEmpty(Awake(t))
<1>1. t \in Tables
  BY DEF Fits
<1>2. /\ Awake(t) \in Tables /\ Awake(t).force_no_drop = FALSE
      /\ Awake(t).start_win = t.start_win /\ Awake(t).bitmap = t.bitmap
      /\ Awake(t).rx_reorder_ptr = t.rx_reorder_ptr
  BY <1>1 DEF Awake, Tables
<1> QED
  BY <1>2 DEF Fits, Below, Marked, IsEmpty

(* Two calls that keep these fields keep them together. *)
LEMMA KeepsTrans ==
    ASSUME NEW t, NEW u, NEW v, Keeps(u, t), Keeps(v, u)
    PROVE  Keeps(v, t)
  BY DEF Keeps

(* The scan at the end of a call, in the terms of the window. *)
LEMMA ScanEnds ==
    ASSUME NEW t, NEW a, Fits(t, a), NEW m \in Int, Below(t, a, m), a <= m
    PROVE  LET u == ScanAndDispatch(t).tbl IN
           /\ Keeps(u, t)
           /\ WinSize <= BitmapBits /\ Marked(t) => Marked(u)
           /\ \E b \in a .. m :
                /\ Fits(u, b) /\ Below(u, b, m)
                /\ \A x \in a .. b - 1 :
                     x - a \in SlotIndex /\ t.rx_reorder_ptr[x - a] # Empty
<1> DEFINE u == ScanAndDispatch(t).tbl
           r == RunLength(t.rx_reorder_ptr)
           s == Plus(t.start_win, r)
<1>1. /\ r \in 0 .. WinSize
      /\ \A i \in 0 .. r - 1 : i \in SlotIndex /\ t.rx_reorder_ptr[i] # Empty
      /\ u = Moved(t, r, s) /\ s \in 0 .. SeqSpace
      /\ Fits(u, a + r) /\ Keeps(u, t) /\ Below(u, a + r, m)
  BY ScanFits
<1> HIDE DEF r, s, u
<1>2. a \in Int /\ t \in Tables /\ r \in Nat
  BY <1>1, Space DEF Fits
<1>3. a + r \in a .. m
  <2>1. CASE r = 0
    BY <1>2, <2>1
  <2>2. CASE r > 0
    <3>1. r - 1 \in 0 .. r - 1
      BY <1>2, <2>2
    <3>2. a + (r - 1) < m
      BY <1>1, <3>1 DEF Below
    <3> QED
      BY <1>2, <2>2, <3>2
  <2> QED
    BY <1>2, <2>1, <2>2
<1>4. \A x \in a .. (a + r) - 1 : x - a \in 0 .. r - 1
  BY <1>2
<1>5. WinSize <= BitmapBits /\ Marked(t) => Marked(u)
  BY <1>1, <1>2, MovedMarked
<1> QED
  BY <1>1, <1>3, <1>4, <1>5 DEF u

(* A frame goes through the old test, the slide, its slot and the scan. *)
LEMMA PlaceFrame ==
    ASSUME NEW t, NEW a, Fits(t, a), NEW n \in Nat, NEW m \in Int, n < m, a <= m,
           Below(t, a, m), -WinSize <= n - a, n - a < HalfSpace,
           NEW payload \in {n, FwDropped}, t.force_no_drop => a = n
    PROVE  LET p == Place(t, Seq12(n), FALSE, payload) IN
           /\ Keeps(p.tbl, Awake(t))
           /\ WinSize <= BitmapBits /\ Marked(t) => Marked(p.tbl)
           /\ \E b \in a .. m : Fits(p.tbl, b) /\ Below(p.tbl, b, m)
           /\ p.ok <=> /\ n >= a
                       /\ n - a \in SlotIndex => t.rx_reorder_ptr[n - a] = Empty
<1> DEFINE q == Seq12(n)
           s == t.start_win
           u == Awake(t)
           slid == IF IsBeyond(s, q)
                   THEN DispatchUntilStartWin(u, SlidStart(q))
                   ELSE Result(u, <<>>, <<>>, TRUE)
           k == SlotOf(slid.tbl.start_win, q)
           w == Store(slid.tbl, q, payload)
           scan == ScanAndDispatch(w)
           p == Place(t, q, FALSE, payload)
<1>1. /\ t \in Tables /\ s \in 0 .. SeqSpace /\ a \in Int /\ SameSeq(a, s)
      /\ t.force_no_drop \in BOOLEAN /\ n \in Int
  BY DEF Fits, Tables
<1>2. q \in 0 .. SeqSpace - 1 /\ SameSeq(n, q)
  BY <1>1, SeqOfFrame
<1>3. /\ Fits(u, a) /\ Below(u, a, m) /\ u.start_win = s /\ u \in Tables
      /\ u.rx_reorder_ptr = t.rx_reorder_ptr /\ u.bitmap = t.bitmap
      /\ Marked(t) => Marked(u)
  BY AwakeFits DEF Fits
<1>4. IsOld(s, q) <=> n < a
  BY <1>1, <1>2, OldExact
<1>5. p = CASE ~t.force_no_drop /\ IsOld(s, q) -> Result(u, <<>>, <<>>, FALSE)
            [] (t.force_no_drop \/ ~IsOld(s, q)) /\ ~FALSE
               /\ slid.tbl.rx_reorder_ptr[k] # Empty ->
                 Result(slid.tbl, slid.out, <<>>, FALSE)
            [] OTHER -> Result(scan.tbl, slid.out \o scan.out, <<>>, TRUE)
  BY DEF Place, Awake
<1>6. CASE n < a
  <2>1. ~t.force_no_drop /\ IsOld(s, q)
    BY <1>1, <1>4, <1>6
  <2> HIDE DEF u, slid, k, w, scan, s, q, p
  <2>2. p = Result(u, <<>>, <<>>, FALSE)
    BY <1>5, <2>1
  <2>3. p.tbl = u /\ p.ok = FALSE
    BY <2>2 DEF Result
  <2>4. a \in a .. m /\ ~(n >= a)
    BY <1>1, <1>6
  <2> QED
    BY <1>3, <2>3, <2>4 DEF Keeps, u, q, p
<1>7. CASE n >= a
  <2>1. ~IsOld(s, q)
    BY <1>1, <1>4, <1>7
  <2>2. IsBeyond(s, q) <=> ~(a <= n /\ n < a + WinSize)
    <3>1. WinSize - SeqSpace <= n - a /\ n - a < SeqSpace
      BY <1>1, <1>7, Space
    <3> QED
      BY <1>1, <1>2, <3>1, BeyondExact
  <2> DEFINE c == IF n < a + WinSize THEN a ELSE n - WinSize + 1
  <2>3. /\ Fits(slid.tbl, c) /\ Below(slid.tbl, c, m) /\ Keeps(slid.tbl, u)
        /\ WinSize <= BitmapBits /\ Marked(t) => Marked(slid.tbl)
        /\ slid.tbl.rx_reorder_ptr[n - c] # Empty
             <=> n - a \in SlotIndex /\ t.rx_reorder_ptr[n - a] # Empty
    <3>1. CASE n < a + WinSize
      <4>1. slid.tbl = u
        BY <1>7, <2>2, <3>1 DEF Result
      <4>2. n - a \in SlotIndex /\ c = a
        BY <1>1, <1>7, <3>1, Space DEF SlotIndex
      <4> HIDE DEF slid, u
      <4> QED
        BY <1>3, <4>1, <4>2 DEF Keeps
    <3>2. CASE ~(n < a + WinSize)
      <4> DEFINE s2 == SlidStart(q)
      <4>1. slid.tbl = DispatchUntilStartWin(u, s2).tbl
        BY <2>2, <3>2
      <4>2. s2 \in 0 .. SeqSpace - 1 /\ SameSeq(c, s2)
        BY <1>1, <1>2, <3>2, SlidExact
      <4>3. c \in Int /\ a < c /\ c - a < SeqSpace /\ n - c = WinSize - 1
            /\ n - c \in SlotIndex /\ n - a \notin SlotIndex
            /\ (n - c) + (c - a) \notin SlotIndex
        BY <1>1, <3>2, Space DEF SlotIndex
      <4> HIDE DEF s2, slid, u, c
      <4>4. /\ Fits(slid.tbl, c) /\ Below(slid.tbl, c, m)
            /\ slid.tbl.rx_reorder_ptr[n - c] = Empty
        BY <1>3, <4>1, <4>2, <4>3, DispatchFits
      <4>5. Keeps(slid.tbl, u) /\ NoPktToSend(u, s2) \in Nat
            /\ slid.tbl = Moved(u, NoPktToSend(u, s2), s2) /\ s2 \in 0 .. SeqSpace
        BY <1>3, <4>1, <4>2, DispatchTyped, Space
      <4>6. WinSize <= BitmapBits /\ Marked(t) => Marked(slid.tbl)
        BY <1>3, <4>5, MovedMarked
      <4> QED
        BY <4>3, <4>4, <4>5, <4>6
    <3> QED
      BY <3>1, <3>2
  <2>4. c \in Int /\ a <= c /\ c <= n /\ n < c + WinSize /\ c <= m
    BY <1>1, <1>7, Space
  <2> HIDE DEF c
  <2>5. k = n - c
    <3>1. slid.tbl.start_win \in 0 .. SeqSpace /\ SameSeq(c, slid.tbl.start_win)
      BY <2>3 DEF Fits, Tables
    <3> HIDE DEF slid
    <3> QED
      BY <1>1, <1>2, <2>4, <3>1, SlotExact DEF k
  <2> HIDE DEF slid, k
  <2>6. CASE slid.tbl.rx_reorder_ptr[k] # Empty
    <3> HIDE DEF u, s, q, scan, p
    <3>1. p.tbl = slid.tbl /\ p.ok = FALSE
      BY <1>5, <2>1, <2>6 DEF Result
    <3>2. c \in a .. m
      BY <1>1, <2>4
    <3> QED
      BY <2>3, <2>5, <2>6, <3>1, <3>2 DEF q, u, p
  <2>7. CASE slid.tbl.rx_reorder_ptr[k] = Empty
    <3>1. p.tbl = scan.tbl /\ p.ok = TRUE
      <4> HIDE DEF u, s, q, scan, p
      <4> QED
        BY <1>5, <2>1, <2>7 DEF Result
    <3>2. /\ Fits(w, c) /\ Keeps(w, slid.tbl) /\ Below(w, c, m)
          /\ WinSize <= BitmapBits /\ Marked(slid.tbl) => Marked(w)
      <4> HIDE DEF q
      <4> QED
        BY <1>2, <2>3, <2>4, StoreFits
    <3> HIDE DEF w, u
    <3>3. /\ Keeps(scan.tbl, w)
          /\ WinSize <= BitmapBits /\ Marked(w) => Marked(scan.tbl)
          /\ \E b \in c .. m : Fits(scan.tbl, b) /\ Below(scan.tbl, b, m)
      BY <2>4, <3>2, ScanEnds
    <3> HIDE DEF scan
    <3>4. \A b \in c .. m : b \in a .. m
      BY <1>1, <2>4
    <3>5. Keeps(scan.tbl, u)
      BY <2>3, <3>2, <3>3, KeepsTrans
    <3> HIDE DEF q, p
    <3> QED
      BY <1>7, <2>3, <2>5, <2>7, <3>1, <3>2, <3>3, <3>4, <3>5 DEF u, q, p
  <2> QED
    BY <2>6, <2>7
<1>8. n < a \/ n >= a
  BY <1>1
<1> QED
  BY <1>6, <1>7, <1>8

(* A block ack request moves the window to the frame it names and then     *)
(* over the frames held from there, and over no other.                     *)
LEMMA PlaceBar ==
    ASSUME NEW t, NEW a, Fits(t, a), NEW n \in Nat, NEW m \in Int, n + WinSize <= m,
           Below(t, a, m), NEW payload,
           IF t.force_no_drop
           THEN IsEmpty(t) /\ a \in n - HalfSpace .. n + HalfSpace - 1
           ELSE a <= m /\ -WinSize <= n - a /\ n - a < HalfSpace
    PROVE  LET p == Place(t, Seq12(n), TRUE, payload) IN
           /\ Keeps(p.tbl, Awake(t))
           /\ WinSize <= BitmapBits /\ Marked(t) => Marked(p.tbl)
           /\ \E b \in Int :
                /\ b <= m /\ Fits(p.tbl, b) /\ Below(p.tbl, b, m)
                /\ t.force_no_drop => n <= b
                /\ ~t.force_no_drop =>
                     /\ a <= b
                     /\ b > a => \A x \in n .. b - 1 :
                          x - a \in SlotIndex /\ t.rx_reorder_ptr[x - a] # Empty
<1> DEFINE q == Seq12(n)
           q2 == BarSeq(q)
           n2 == n + (WinSize - 1)
           s == t.start_win
           u == Awake(t)
           slid == IF IsBeyond(s, q2)
                   THEN DispatchUntilStartWin(u, SlidStart(q2))
                   ELSE Result(u, <<>>, <<>>, TRUE)
           k == SlotOf(slid.tbl.start_win, q2)
           scan == ScanAndDispatch(slid.tbl)
           p == Place(t, q, TRUE, payload)
<1>1. /\ t \in Tables /\ s \in 0 .. SeqSpace /\ a \in Int /\ SameSeq(a, s)
      /\ t.force_no_drop \in BOOLEAN /\ n \in Int
  BY DEF Fits, Tables
<1>2. q \in 0 .. SeqSpace - 1 /\ SameSeq(n, q)
  BY <1>1, SeqOfFrame
<1>3. q2 \in 0 .. SeqSpace - 1 /\ SameSeq(n2, q2) /\ n2 \in Int
  <2> HIDE DEF q
  <2>1. q \in Int /\ WinSize - 1 \in Int
    BY <1>2, Space
  <2> QED
    BY <1>1, <1>2, <2>1, PlusSame DEF BarSeq
<1>4. /\ Fits(u, a) /\ Below(u, a, m) /\ u.start_win = s /\ u \in Tables
      /\ u.rx_reorder_ptr = t.rx_reorder_ptr /\ u.bitmap = t.bitmap
      /\ Marked(t) => Marked(u)
      /\ IsEmpty(t) => IsEmpty(u)
  BY AwakeFits DEF Fits
<1>5. p = CASE ~t.force_no_drop /\ IsOld(s, q) -> Result(u, <<>>, <<>>, FALSE)
            [] (t.force_no_drop \/ ~IsOld(s, q)) /\ ~TRUE
               /\ slid.tbl.rx_reorder_ptr[k] # Empty ->
                 Result(slid.tbl, slid.out, <<>>, FALSE)
            [] OTHER -> Result(scan.tbl, slid.out \o scan.out, <<>>, TRUE)
  BY DEF Place, Awake
<1> HIDE DEF p
<1>6. ~t.force_no_drop => (IsOld(s, q) <=> n < a)
  <2> HIDE DEF q, s
  <2> QED
    BY <1>1, <1>2, OldExact
<1>7. CASE ~t.force_no_drop /\ n < a
  <2> HIDE DEF u, slid, k, scan, s, q
  <2>1. p.tbl = u
    BY <1>5, <1>6, <1>7 DEF Result
  <2>2. a <= m /\ ~(a > a)
    BY <1>1, <1>7
  <2>3. Keeps(p.tbl, u)
    BY <2>1 DEF Keeps
  <2>4. a \in Int /\ Fits(p.tbl, a) /\ Below(p.tbl, a, m)
    BY <1>1, <1>4, <2>1
  <2>5. WinSize <= BitmapBits /\ Marked(t) => Marked(p.tbl)
    BY <1>4, <2>1
  <2>6. /\ t.force_no_drop => n <= a
        /\ ~t.force_no_drop =>
             /\ a <= a
             /\ a > a => \A x \in n .. a - 1 :
                  x - a \in SlotIndex /\ t.rx_reorder_ptr[x - a] # Empty
    BY <1>1, <1>7, <2>2
  <2> QED
    BY <2>2, <2>3, <2>4, <2>5, <2>6 DEF u, q, p
<1>8. CASE t.force_no_drop \/ n >= a
  <2>1. p.tbl = scan.tbl
    <3> HIDE DEF u, slid, k, scan, s, q
    <3> QED
      BY <1>1, <1>5, <1>6, <1>8 DEF Result
  <2>2. IsBeyond(s, q2) <=> ~(a <= n2 /\ n <= a)
    <3>1. WinSize - SeqSpace <= n2 - a /\ n2 - a < SeqSpace
      BY <1>1, <1>8, Space
    <3>2. IsBeyond(s, q2) <=> ~(a <= n2 /\ n2 < a + WinSize)
      <4> HIDE DEF q2, s, n2
      <4> QED
        BY <1>1, <1>3, <3>1, BeyondExact
    <3>3. n2 < a + WinSize <=> n <= a
      BY <1>1, Space
    <3> QED
      BY <3>2, <3>3
  <2> DEFINE c == IF a <= n2 /\ n <= a THEN a ELSE n
  <2>3. /\ Fits(slid.tbl, c) /\ Below(slid.tbl, c, m) /\ Keeps(slid.tbl, u)
        /\ WinSize <= BitmapBits /\ Marked(t) => Marked(slid.tbl)
        /\ \A i \in SlotIndex : slid.tbl.rx_reorder_ptr[i] # Empty =>
             i + (c - a) \in SlotIndex /\ t.rx_reorder_ptr[i + (c - a)] # Empty
    <3>1. CASE a <= n2 /\ n <= a
      <4>1. slid.tbl = u
        BY <2>2, <3>1 DEF Result
      <4>2. c = a /\ \A i \in SlotIndex : i + (c - a) = i
        BY <1>1, <3>1, Space DEF SlotIndex
      <4> HIDE DEF slid, u, c
      <4> QED
        BY <1>4, <4>1, <4>2 DEF Keeps
    <3>2. CASE ~(a <= n2 /\ n <= a)
      <4> DEFINE s2 == SlidStart(q2)
      <4>1. slid.tbl = DispatchUntilStartWin(u, s2).tbl
        BY <2>2, <3>2
      <4>2. s2 \in 0 .. SeqSpace - 1 /\ SameSeq(c, s2)
        <5>1. n2 - WinSize + 1 = n
          BY <1>1, Space
        <5> HIDE DEF q2, n2
        <5>2. s2 \in 0 .. SeqSpace - 1 /\ SameSeq(n, s2)
          BY <1>3, <5>1, SlidExact
        <5> QED
          BY <3>2, <5>2
      <4>3. c = n /\ c \in Int
        BY <1>1, <3>2
      <4> HIDE DEF c
      <4>4. ~t.force_no_drop => a < c /\ c - a < SeqSpace
        BY <1>1, <1>8, <3>2, <4>3, Space
      <4> HIDE DEF s2, slid, u
      <4>5. /\ Fits(slid.tbl, c) /\ Below(slid.tbl, c, m)
            /\ \A i \in SlotIndex : slid.tbl.rx_reorder_ptr[i] # Empty =>
                 i + (c - a) \in SlotIndex /\ t.rx_reorder_ptr[i + (c - a)] # Empty
        <5>1. CASE ~t.force_no_drop
          BY <1>4, <4>1, <4>2, <4>3, <4>4, <5>1, DispatchFits
        <5>2. CASE t.force_no_drop
          <6>1. Fits(slid.tbl, c) /\ IsEmpty(slid.tbl)
            BY <1>4, <4>1, <4>2, <4>3, <5>2, DispatchEmpties
          <6> QED
            BY <6>1 DEF IsEmpty, Below
        <5> QED
          BY <5>1, <5>2
      <4>6. Keeps(slid.tbl, u) /\ NoPktToSend(u, s2) \in Nat
            /\ slid.tbl = Moved(u, NoPktToSend(u, s2), s2) /\ s2 \in 0 .. SeqSpace
        BY <1>4, <4>1, <4>2, DispatchTyped, Space
      <4>7. WinSize <= BitmapBits /\ Marked(t) => Marked(slid.tbl)
        BY <1>4, <4>6, MovedMarked
      <4> QED
        BY <4>5, <4>6, <4>7
    <3> QED
      BY <3>1, <3>2
  <2>4. /\ c \in Int /\ c <= m /\ n <= c
        /\ ~t.force_no_drop => a <= c /\ c = n
    BY <1>1, <1>8, Space
  <2> HIDE DEF c, slid, u
  <2>5. /\ Keeps(scan.tbl, slid.tbl)
        /\ WinSize <= BitmapBits /\ Marked(slid.tbl) => Marked(scan.tbl)
        /\ \E b \in c .. m :
             /\ Fits(scan.tbl, b) /\ Below(scan.tbl, b, m)
             /\ \A x \in c .. b - 1 :
                  x - c \in SlotIndex /\ slid.tbl.rx_reorder_ptr[x - c] # Empty
    BY <2>3, <2>4, ScanEnds
  <2> HIDE DEF scan
  <2>6. PICK b \in c .. m :
             /\ Fits(scan.tbl, b) /\ Below(scan.tbl, b, m)
             /\ \A x \in c .. b - 1 :
                  x - c \in SlotIndex /\ slid.tbl.rx_reorder_ptr[x - c] # Empty
    BY <2>5
  <2>7. ASSUME ~t.force_no_drop, NEW x \in n .. b - 1
        PROVE  x - a \in SlotIndex /\ t.rx_reorder_ptr[x - a] # Empty
    <3>1. x - c \in SlotIndex /\ slid.tbl.rx_reorder_ptr[x - c] # Empty
      BY <2>4, <2>6, <2>7
    <3>2. (x - c) + (c - a) = x - a
      BY <1>1, <2>4
    <3> QED
      BY <2>3, <3>1, <3>2
  <2>8. b \in Int /\ b <= m /\ n <= b /\ (~t.force_no_drop => a <= b)
    BY <1>1, <2>4
  <2>9. Keeps(p.tbl, u)
    BY <2>1, <2>3, <2>5, KeepsTrans
  <2>10. WinSize <= BitmapBits /\ Marked(t) => Marked(p.tbl)
    BY <2>1, <2>3, <2>5
  <2> QED
    BY <2>1, <2>6, <2>7, <2>8, <2>9, <2>10 DEF p, u, q
<1>9. (~t.force_no_drop /\ n < a) \/ t.force_no_drop \/ n >= a
  BY <1>1
<1> QED
  BY <1>7, <1>8, <1>9

-----------------------------------------------------------------------------
(* The invariant of a table, and the whole call.                           *)

(* A table whose window starts at frame a, while the peer may send frames  *)
(* lo .. lo + WinSize - 1.                                                 *)
(*  - What is held, and so the window's start, is below the peer's end.    *)
(*  - The peer's end is within half the sequence space of the start, so    *)
(*    that old and new can be told apart, except after host sleep.         *)
(*  - Until the start has been checked nothing is held, the peer is not    *)
(*    far behind the start it announced, and last_seq is a frame of that   *)
(*    neighbourhood: the window may start after it.                        *)
Sound(t, a, lo) ==
    /\ Fits(t, a)
    /\ Below(t, a, lo + WinSize)
    /\ ~t.force_no_drop => lo + WinSize <= a + HalfSpace
    /\ ~(t.check_start_win /\ t.force_no_drop) => a <= lo + WinSize
    /\ t.check_start_win => IsEmpty(t) /\ t.start_win < SeqSpace
    /\ t.check_start_win /\ ~t.force_no_drop =>
         /\ a <= lo + 1
         /\ t.last_seq # DEFAULT_SEQ_NUM =>
              \E l \in a - 2 .. lo + WinSize - 1 : SameSeq(l, t.last_seq)

(* The timer's two flags agree, and what is held has the timer or a flush. *)
Clocked(t) ==
    /\ t.timer_is_set = t.armed
    /\ ~IsEmpty(t) => t.armed \/ t.flush_data

(* Nothing is held: a flush only clears its flag. *)
LEMMA FlushOfEmpty ==
    ASSUME NEW t \in Tables, IsEmpty(t)
    PROVE  FlushIfAsked(t).tbl = [t EXCEPT !.flush_data = FALSE]
<1>1. CASE ~t.flush_data
  BY <1>1 DEF FlushIfAsked, Result, Tables
<1>2. CASE t.flush_data
  <2> DEFINE v == [t EXCEPT !.flush_data = FALSE]
  <2>1. v.rx_reorder_ptr = t.rx_reorder_ptr
    BY DEF Tables
  <2>2. Occupied(v.rx_reorder_ptr) = {}
    BY <2>1 DEF Occupied, IsEmpty
  <2> HIDE DEF v
  <2>3. StartFlushData(v).tbl = v
    BY <2>2 DEF StartFlushData, Result
  <2> QED
    BY <1>2, <2>3 DEF FlushIfAsked, v
<1> QED
  BY <1>1, <1>2

(* The table without the request for a flush. *)
Unasked(t) == [t EXCEPT !.flush_data = FALSE]

(* A flush moved the window of t, which started at a, to where u shows it. *)
SoundFrom(u, t, a, lo) ==
    \E b \in a .. a + WinSize : Sound(u, b, lo) /\ (t.check_start_win => b = a)

(* A flush of the table, if asked for, leaves a sound table. *)
LEMMA FlushSound ==
    ASSUME NEW t, NEW a, NEW lo \in Nat, Sound(t, a, lo)
    PROVE  LET u == FlushIfAsked(t).tbl IN
           /\ Keeps(u, Unasked(t))
           /\ u.flush_data = FALSE /\ (~t.flush_data => u = t)
           /\ SoundFrom(u, t, a, lo)
           /\ WinSize <= BitmapBits /\ Marked(t) => Marked(u)
           /\ Clocked(t) => Clocked(u)
<1> DEFINE u == FlushIfAsked(t).tbl
           v == Unasked(t)
<1>1. t \in Tables /\ a \in Int /\ Fits(t, a)
  BY DEF Sound, Fits
<1>2. /\ v \in Tables /\ v.flush_data = FALSE /\ v.rx_reorder_ptr = t.rx_reorder_ptr
      /\ v.start_win = t.start_win /\ v.bitmap = t.bitmap
      /\ v.check_start_win = t.check_start_win /\ v.force_no_drop = t.force_no_drop
      /\ v.last_seq = t.last_seq /\ v.armed = t.armed
      /\ v.timer_is_set = t.timer_is_set
  BY <1>1 DEF Tables, Unasked
<1> HIDE DEF v, u
<1>3. CASE t.check_start_win
  <2>1. IsEmpty(t)
    BY <1>3 DEF Sound
  <2>2. u = v
    BY <1>1, <2>1, FlushOfEmpty DEF u, v, Unasked
  <2>3. Sound(v, a, lo)
    BY <1>1, <1>2 DEF Sound, Fits, Below, IsEmpty
  <2>4. a \in a .. a + WinSize
    BY <1>1, Space
  <2>5. ~t.flush_data => v = t
    BY <1>1 DEF v, Unasked, Tables
  <2>6. Marked(t) => Marked(v)
    BY <1>2 DEF Marked
  <2>7. Clocked(t) => Clocked(v)
    BY <1>2, <2>1 DEF Clocked, IsEmpty
  <2>8. Keeps(v, v)
    BY DEF Keeps
  <2> QED
    BY <1>2, <2>2, <2>3, <2>4, <2>5, <2>6, <2>7, <2>8 DEF u, v, SoundFrom
<1>4. CASE ~t.check_start_win
  <2>1. lo + WinSize \in Int /\ Below(t, a, lo + WinSize) /\ a <= lo + WinSize
    BY <1>4, Space DEF Sound
  <2>2. /\ u \in Tables /\ u.flush_data = FALSE /\ Keeps(u, v)
        /\ ~t.flush_data => u = t
        /\ t.flush_data => IsEmpty(u)
        /\ WinSize <= BitmapBits /\ Marked(t) => Marked(u)
        /\ \E b \in a .. a + WinSize :
             b <= lo + WinSize /\ Fits(u, b) /\ Below(u, b, lo + WinSize)
    BY <1>1, <2>1, FlushFits DEF u, v, Unasked
  <2>3. PICK b \in a .. a + WinSize :
             b <= lo + WinSize /\ Fits(u, b) /\ Below(u, b, lo + WinSize)
    BY <2>2
  <2>4. ~u.force_no_drop => lo + WinSize <= b + HalfSpace
    <3>1. ~u.force_no_drop => lo + WinSize <= a + HalfSpace
      BY <1>2, <2>2 DEF Sound, Keeps
    <3> QED
      BY <1>1, <3>1, Space
  <2>5. Sound(u, b, lo)
    BY <1>2, <1>4, <2>2, <2>3, <2>4 DEF Sound, Keeps
  <2>6. Clocked(t) => Clocked(u)
    BY <1>2, <2>2 DEF Clocked, Keeps
  <2> QED
    BY <1>4, <2>2, <2>5, <2>6 DEF u, v, SoundFrom
<1> QED
  BY <1>3, <1>4

(* A frame is passed on while the start is being checked. *)
LEMMA ForwardSound ==
    ASSUME NEW t, NEW a, NEW lo \in Nat, Sound(t, a, lo), t.check_start_win,
           NEW n \in lo .. lo + WinSize - 1, NEW payload
    PROVE  LET u == Forward(t, Seq12(n), payload).tbl IN
           /\ \A x \in Int : /\ SameSeq(x, t.start_win)
                             /\ ~t.force_no_drop => x = a
                             => Sound(u, x, lo)
           /\ u.start_win = t.start_win
           /\ Marked(t) => Marked(u)
           /\ Clocked(t) => Clocked(u)
           /\ u.flush_data = t.flush_data
<1> DEFINE q == Seq12(n)
           u == Forward(t, q, payload).tbl
<1>1. t \in Tables /\ a \in Int /\ Fits(t, a) /\ IsEmpty(t) /\ t.start_win < SeqSpace
  BY DEF Sound, Fits
<1>2. q \in 0 .. SeqSpace - 1 /\ SameSeq(n, q) /\ n \in Int
  BY Space, SeqOfFrame
<1> HIDE DEF q
<1>3. /\ u \in Tables /\ u.rx_reorder_ptr = t.rx_reorder_ptr
      /\ u.start_win = t.start_win /\ u.bitmap = t.bitmap
      /\ u.check_start_win = t.check_start_win /\ u.force_no_drop = t.force_no_drop
      /\ u.last_seq \in {t.last_seq, q} /\ u.armed = t.armed
      /\ u.timer_is_set = t.timer_is_set /\ u.flush_data = t.flush_data
  <2> DEFINE v == [t EXCEPT !.pkt_count = @ + 1]
  <2>1. u = v \/ u = [v EXCEPT !.last_seq = q]
    BY DEF Forward, Result
  <2>2. /\ v \in Tables /\ v.rx_reorder_ptr = t.rx_reorder_ptr
        /\ v.start_win = t.start_win /\ v.bitmap = t.bitmap
        /\ v.check_start_win = t.check_start_win /\ v.last_seq = t.last_seq
        /\ v.force_no_drop = t.force_no_drop /\ v.armed = t.armed
        /\ v.timer_is_set = t.timer_is_set /\ v.flush_data = t.flush_data
    <3>1. t \in Tables
      BY <1>1
    <3>2. v \in Tables
      BY <3>1 DEF Tables
    <3> QED
      BY <3>1, <3>2 DEF Tables
  <2> HIDE DEF v, u
  <2>3. CASE u = v
    BY <2>2, <2>3
  <2>4. CASE u = [v EXCEPT !.last_seq = q]
    <3>1. u \in Tables
      BY <1>2, <2>2, <2>4 DEF Tables
    <3> QED
      BY <1>2, <2>2, <2>4, <3>1 DEF Tables
  <2> QED
    BY <2>1, <2>3, <2>4
<1> HIDE DEF u
<1>4. ASSUME NEW x \in Int, SameSeq(x, t.start_win), ~t.force_no_drop => x = a
      PROVE  Sound(u, x, lo)
  <2>1. Fits(u, x) /\ IsEmpty(u) /\ Below(u, x, lo + WinSize)
    BY <1>1, <1>3, <1>4 DEF Fits, IsEmpty, Below
  <2>2. ASSUME ~t.force_no_drop, u.last_seq # DEFAULT_SEQ_NUM
        PROVE  \E l \in x - 2 .. lo + WinSize - 1 : SameSeq(l, u.last_seq)
    <3>1. CASE u.last_seq = t.last_seq
      BY <1>4, <2>2, <3>1 DEF Sound
    <3>2. CASE u.last_seq = q
      <4>1. a <= lo + 1
        BY <2>2 DEF Sound
      <4>2. n \in x - 2 .. lo + WinSize - 1
        BY <1>1, <1>2, <1>4, <2>2, <4>1, Space
      <4> QED
        BY <1>2, <3>2, <4>2
    <3> QED
      BY <1>3, <3>1, <3>2
  <2> QED
    BY <1>1, <1>3, <1>4, <2>1, <2>2 DEF Sound
<1>5. (Marked(t) => Marked(u)) /\ (Clocked(t) => Clocked(u))
  BY <1>1, <1>3 DEF Marked, Clocked, IsEmpty
<1> QED
  BY <1>3, <1>4, <1>5 DEF u, q

(* The check of the start ends: the window starts where it was announced,  *)
(* or after the last frame that was passed on.  Both are near the frame    *)
(* that ended it.                                                          *)
LEMMA EndCheckTyped ==
    ASSUME NEW t \in Tables, NEW q
    PROVE  LET e == EndCheck(t, q) IN
           /\ e \in Tables /\ e.check_start_win = FALSE
           /\ e.rx_reorder_ptr = t.rx_reorder_ptr /\ e.bitmap = t.bitmap
           /\ e.force_no_drop = t.force_no_drop /\ e.flush_data = t.flush_data
           /\ e.armed = t.armed /\ e.timer_is_set = t.timer_is_set
           /\ \/ e.start_win = t.start_win
              \/ /\ t.check_start_win /\ t.last_seq # DEFAULT_SEQ_NUM
                 /\ LastSeqInWindow(t) \/ (q < t.start_win /\ q > t.last_seq)
                 /\ t.last_seq \in 0 .. SeqSpace - 1
                 /\ e.start_win = t.last_seq + 1
<1> DEFINE e == EndCheck(t, q)
           u == [t EXCEPT !.check_start_win = FALSE]
           v == [u EXCEPT !.pkt_count = @ + 1]
           w == [v EXCEPT !.start_win = t.last_seq + 1]
           moves == /\ t.last_seq # DEFAULT_SEQ_NUM
                    /\ LastSeqInWindow(t) \/ (q < t.start_win /\ q > t.last_seq)
<1>1. u \in Tables /\ v \in Tables
  <2>1. u \in Tables
    BY DEF Tables
  <2> HIDE DEF u
  <2> QED
    BY <2>1 DEF Tables
<1>2. moves => t.last_seq \in 0 .. SeqSpace - 1 /\ t.last_seq + 1 \in 0 .. SeqSpace
  BY Space DEF Tables
<1>3. moves => w \in Tables
  BY <1>1, <1>2 DEF Tables
<1>4. \/ e = t /\ ~t.check_start_win
      \/ e = u
      \/ e = v
      \/ e = w /\ moves /\ t.check_start_win
  BY DEF EndCheck, Tables
<1>5. CASE e = t /\ ~t.check_start_win
  BY <1>5 DEF Tables
<1>6. CASE e = u
  BY <1>6 DEF Tables
<1>7. CASE e = v
  BY <1>1, <1>7 DEF Tables
<1>8. CASE e = w /\ moves /\ t.check_start_win
  BY <1>1, <1>2, <1>3, <1>8 DEF Tables
<1> QED
  BY <1>4, <1>5, <1>6, <1>7, <1>8

(* The table is sound for the start the check ends with. *)
LEMMA EndCheckSound ==
    ASSUME NEW t, NEW a, NEW lo \in Nat, Sound(t, a, lo), ~t.force_no_drop,
           NEW n \in lo .. lo + WinSize - 1
    PROVE  LET e == EndCheck(t, Seq12(n)) IN
           \E c \in Int :
             /\ Fits(e, c) /\ Below(e, c, lo + WinSize)
             /\ a - 1 <= c /\ c <= lo + WinSize
             /\ lo + WinSize <= c + HalfSpace
             /\ -WinSize <= n - c /\ n - c < HalfSpace
             /\ ~t.check_start_win => c = a
<1> DEFINE q == Seq12(n)
           e == EndCheck(t, q)
           s == t.start_win
<1>1. /\ t \in Tables /\ a \in Int /\ Fits(t, a) /\ SameSeq(a, s) /\ s \in 0 .. SeqSpace
      /\ Below(t, a, lo + WinSize) /\ a <= lo + WinSize
      /\ lo + WinSize <= a + HalfSpace
  BY DEF Sound, Fits, Tables
<1>2. q \in 0 .. SeqSpace - 1 /\ SameSeq(n, q) /\ n \in Int
  BY Space, SeqOfFrame
<1> HIDE DEF q
<1>3. /\ e \in Tables /\ e.rx_reorder_ptr = t.rx_reorder_ptr
      /\ \/ e.start_win = s
         \/ /\ t.check_start_win /\ t.last_seq # DEFAULT_SEQ_NUM
            /\ LastSeqInWindow(t) \/ (q < s /\ q > t.last_seq)
            /\ t.last_seq \in 0 .. SeqSpace - 1
            /\ e.start_win = t.last_seq + 1
  BY <1>1, EndCheckTyped
<1> HIDE DEF e, s
<1>4. CASE e.start_win = s
  <2>1. Fits(e, a) /\ Below(e, a, lo + WinSize)
    BY <1>1, <1>3, <1>4 DEF Fits, Below
  <2>2. a - 1 <= a /\ -WinSize <= n - a /\ n - a < HalfSpace
    BY <1>1, <1>2, Space
  <2> QED
    BY <1>1, <2>1, <2>2 DEF e, q
<1>5. CASE /\ t.check_start_win /\ t.last_seq # DEFAULT_SEQ_NUM
           /\ LastSeqInWindow(t) \/ (q < s /\ q > t.last_seq)
           /\ t.last_seq \in 0 .. SeqSpace - 1
           /\ e.start_win = t.last_seq + 1
  <2>1. PICK l \in a - 2 .. lo + WinSize - 1 : SameSeq(l, t.last_seq)
    BY <1>5 DEF Sound
  <2>2. IsEmpty(t) /\ a <= lo + 1 /\ s < SeqSpace
    BY <1>5 DEF Sound, s
  <2> DEFINE z == t.last_seq
  <2>3. l \in Int /\ (l - a) - (z - s) \in {-SeqSpace, 0, SeqSpace}
    <3>1. l \in Int /\ -SeqSpace < l - a /\ l - a < SeqSpace
      BY <1>1, Space
    <3> QED
      BY <1>1, <1>5, <2>1, <3>1, Distance
  <2>4. (n - a) - (q - s) \in {-SeqSpace, 0, SeqSpace}
    <3>1. -SeqSpace < n - a /\ n - a < SeqSpace
      BY <1>1, <1>2, <2>2, Space
    <3> QED
      BY <1>1, <1>2, <3>1, Distance
  <2>5. SameSeq(l + 1, z + 1) /\ l + 1 \in Int
    BY <1>5, <2>1, <2>3, SameShift, Space
  <2>6. z \in 0 .. SeqSpace - 1
    BY <1>5
  <2>7. (a <= l /\ l <= a + WinSize - 2) \/ (l < n /\ (l >= a \/ n = a - 1))
    <3>1. CASE LastSeqInWindow(t)
      <4>1. Plus(s, WinSize - 1) = IF s + (WinSize - 1) < SeqSpace
                                   THEN s + (WinSize - 1)
                                   ELSE s + (WinSize - 1) - SeqSpace
        BY <1>1, PlusWraps, Space
      <4>2. LET end == Plus(s, WinSize - 1) IN
            \/ end > s /\ z >= s /\ z < end
            \/ end < s /\ (z >= s \/ z < end)
        BY <3>1 DEF LastSeqInWindow, s
      <4> HIDE DEF z
      <4> QED
        BY <1>1, <2>1, <2>2, <2>3, <2>6, <4>1, <4>2, Space
    <3>2. CASE q < s /\ q > z
      <4> HIDE DEF z
      <4> QED
        BY <1>1, <1>2, <2>1, <2>2, <2>3, <2>4, <2>6, <3>2, Space
    <3> QED
      BY <1>5, <3>1, <3>2
  <2>8. Fits(e, l + 1) /\ Below(e, l + 1, lo + WinSize)
    BY <1>3, <1>5, <2>2, <2>5 DEF Fits, Below, IsEmpty
  <2>9. /\ a - 1 <= l + 1 /\ l + 1 <= lo + WinSize
        /\ lo + WinSize <= (l + 1) + HalfSpace
        /\ -WinSize <= n - (l + 1) /\ n - (l + 1) < HalfSpace
    BY <1>1, <1>2, <2>1, <2>2, <2>7, Space
  <2> QED
    BY <1>5, <2>5, <2>8, <2>9 DEF e, q
<1> QED
  BY <1>3, <1>4, <1>5

(* The branch after host sleep: nothing is held, the window starts at the  *)
(* frame, or after its old end when a block ack request comes first.       *)
LEMMA ResyncTyped ==
    ASSUME NEW t \in Tables, NEW q \in 0 .. SeqSpace - 1, NEW isBar \in BOOLEAN,
           t.force_no_drop
    PROVE  LET u == Resync(t, q, isBar).tbl IN
           /\ u \in Tables /\ IsEmpty(u) /\ u.force_no_drop = TRUE
           /\ u.check_start_win = t.check_start_win /\ u.flush_data = t.flush_data
           /\ u.timer_is_set = TRUE /\ u.armed = TRUE
           /\ ~isBar => u.start_win = q
           /\ Marked(t) => Marked(u)
<1> DEFINE d == DispatchWindow(t).tbl
           v == IF isBar THEN d ELSE [d EXCEPT !.start_win = q]
           u == Resync(t, q, isBar).tbl
<1>1. d \in Tables /\ IsEmpty(d) /\ Keeps(d, t) /\ d.bitmap = ShiftBits(t.bitmap, WinSize)
  BY WindowDispatched
<1>2. u = TimerRestart(v)
  <2>1. Resync(t, q, isBar) = [DispatchWindow(t) EXCEPT !.tbl = TimerRestart(v)]
    BY DEF Resync
  <2>2. DispatchWindow(t) = [tbl |-> d, out |-> DispatchWindow(t).out,
                             direct |-> DispatchWindow(t).direct,
                             ok |-> DispatchWindow(t).ok]
    BY DEF DispatchWindow, DispatchUntilStartWin, Result
  <2> HIDE DEF d, v
  <2> QED
    BY <2>1, <2>2
<1> HIDE DEF d, u
<1>3. /\ v \in Tables /\ v.rx_reorder_ptr = d.rx_reorder_ptr /\ v.bitmap = d.bitmap
      /\ v.force_no_drop = TRUE /\ v.check_start_win = t.check_start_win
      /\ v.flush_data = t.flush_data /\ (~isBar => v.start_win = q)
  <2>1. q \in 0 .. SeqSpace /\ t.force_no_drop = TRUE
    BY Space DEF Tables
  <2>2. CASE isBar
    BY <1>1, <2>1, <2>2 DEF Keeps
  <2>3. CASE ~isBar
    <3>1. v = [d EXCEPT !.start_win = q]
      BY <2>3
    <3> HIDE DEF v
    <3>2. v \in Tables
      BY <1>1, <2>1, <3>1 DEF Tables
    <3> QED
      BY <1>1, <2>1, <3>1, <3>2 DEF Keeps, Tables
  <2> QED
    BY <2>2, <2>3
<1> HIDE DEF v
<1>4. /\ u \in Tables /\ u.rx_reorder_ptr = v.rx_reorder_ptr /\ u.bitmap = v.bitmap
      /\ u.force_no_drop = v.force_no_drop /\ u.check_start_win = v.check_start_win
      /\ u.flush_data = v.flush_data /\ u.start_win = v.start_win
      /\ u.timer_is_set = TRUE /\ u.armed = TRUE
  BY <1>2, <1>3 DEF TimerRestart, Tables
<1>5. IsEmpty(u)
  BY <1>1, <1>3, <1>4 DEF IsEmpty
<1>6. ASSUME Marked(t) PROVE Marked(u)
  <2>1. ShiftBits(t.bitmap, WinSize) = {}
    BY <1>6, Space DEF ShiftBits, Marked, Occupied, SlotIndex
  <2>2. Occupied(u.rx_reorder_ptr) = {}
    BY <1>5 DEF Occupied, IsEmpty
  <2> QED
    BY <1>1, <1>3, <1>4, <2>1, <2>2 DEF Marked
<1> QED
  BY <1>3, <1>4, <1>5, <1>6 DEF u

(* The end of the call sees to the timer. *)
LEMMA DoneClocks ==
    ASSUME NEW t \in Tables, NEW w
    PROVE  LET u == Done(t, w) IN
           /\ u \in Tables /\ u.start_win = t.start_win
           /\ u.rx_reorder_ptr = t.rx_reorder_ptr /\ u.bitmap = t.bitmap
           /\ u.check_start_win = t.check_start_win /\ u.last_seq = t.last_seq
           /\ u.force_no_drop = t.force_no_drop /\ u.flush_data = t.flush_data
           /\ Marked(t) /\ t.timer_is_set = t.armed => Clocked(u)
<1> DEFINE u == Done(t, w)
<1>1. t.timer_is_set \in BOOLEAN /\ t.armed \in BOOLEAN
  BY DEF Tables
<1>2. \/ u = t /\ (t.bitmap # {} => t.timer_is_set)
      \/ u = StopTimer(t) /\ t.bitmap = {}
      \/ u = TimerRestart(t)
  BY DEF Done
<1>3. /\ u \in Tables /\ u.start_win = t.start_win
      /\ u.rx_reorder_ptr = t.rx_reorder_ptr /\ u.bitmap = t.bitmap
      /\ u.check_start_win = t.check_start_win /\ u.last_seq = t.last_seq
      /\ u.force_no_drop = t.force_no_drop /\ u.flush_data = t.flush_data
      /\ t.timer_is_set = t.armed => u.timer_is_set = u.armed
      /\ t.timer_is_set = t.armed /\ t.bitmap # {} => u.armed
  <2> HIDE DEF u
  <2>1. CASE u = t /\ (t.bitmap # {} => t.timer_is_set)
    BY <2>1
  <2>2. CASE u = StopTimer(t) /\ t.bitmap = {}
    BY <2>2 DEF StopTimer, Tables
  <2>3. CASE u = TimerRestart(t)
    BY <2>3 DEF TimerRestart, Tables
  <2> QED
    BY <1>2, <2>1, <2>2, <2>3
<1> HIDE DEF u
<1>4. ASSUME Marked(t), t.timer_is_set = t.armed PROVE Clocked(u)
  <2>1. ~IsEmpty(u) => t.bitmap # {}
    BY <1>3, <1>4 DEF IsEmpty, Marked, Occupied
  <2> QED
    BY <1>3, <1>4, <2>1 DEF Clocked
<1> QED
  BY <1>3, <1>4 DEF u

(* The start a table shows determines the frame, near any frame. *)
LEMMA NearStart ==
    ASSUME NEW t, NEW b, Fits(t, b), NEW m \in Int,
           b \in m - HalfSpace .. m + HalfSpace - 1
    PROVE  Near(t.start_win, m) = b
  BY NearExact, Space DEF Fits, Tables

(* From the end of the check to the end of the call. *)
Rest(t, q, isBar, payload) ==
    LET r == Resync(EndCheck(t, q), q, isBar).tbl
    IN  Done(Place(r, q, isBar, payload).tbl, r.start_win)

(* The rest of the call leaves a sound table, no more than a slot back. *)
LEMMA RestSound ==
    ASSUME NEW t, NEW a, NEW lo \in Nat, Sound(t, a, lo), NEW isBar \in BOOLEAN,
           NEW n \in lo .. lo + WinSize - 1, isBar => n = lo,
           NEW payload \in {n, FwDropped}
    PROVE  LET u == Rest(t, Seq12(n), isBar, payload) IN
           /\ u.flush_data = t.flush_data
           /\ WinSize <= BitmapBits /\ Marked(t) =>
                Marked(u) /\ (Clocked(t) => Clocked(u))
           /\ \E b \in Int :
                /\ Sound(u, b, lo) /\ b <= lo + WinSize
                /\ IF t.force_no_drop THEN n <= b ELSE a - 1 <= b
<1> DEFINE q == Seq12(n)
           e == EndCheck(t, q)
           r == Resync(e, q, isBar).tbl
           p == Place(r, q, isBar, payload).tbl
           u == Done(p, r.start_win)
           m == lo + WinSize
<1>1. /\ t \in Tables /\ a \in Int /\ n \in Nat /\ n \in Int /\ m \in Int /\ n < m
      /\ n >= lo /\ (isBar => n + WinSize <= m) /\ t.force_no_drop \in BOOLEAN
  BY Space DEF Sound, Fits, Tables
<1>2. q \in 0 .. SeqSpace - 1 /\ SameSeq(n, q)
  BY <1>1, SeqOfFrame
<1>3. /\ e \in Tables /\ e.check_start_win = FALSE
      /\ e.rx_reorder_ptr = t.rx_reorder_ptr /\ e.bitmap = t.bitmap
      /\ e.force_no_drop = t.force_no_drop /\ e.flush_data = t.flush_data
      /\ e.armed = t.armed /\ e.timer_is_set = t.timer_is_set
  BY <1>1, EndCheckTyped
<1>4. Marked(t) => Marked(e)
  BY <1>3 DEF Marked
<1>5. /\ r \in Tables /\ r.check_start_win = FALSE /\ r.flush_data = t.flush_data
      /\ r.force_no_drop = t.force_no_drop
      /\ Marked(t) => Marked(r)
      /\ t.timer_is_set = t.armed => r.timer_is_set = r.armed
      /\ \E c \in Int :
           /\ Fits(r, c) /\ Below(r, c, m)
           /\ IF t.force_no_drop
              THEN /\ IsEmpty(r) /\ (~isBar => c = n)
                   /\ c \in n - HalfSpace .. n + HalfSpace - 1
              ELSE /\ a - 1 <= c /\ c <= m /\ m <= c + HalfSpace
                   /\ -WinSize <= n - c /\ n - c < HalfSpace
  <2>1. CASE ~t.force_no_drop
    <3> HIDE DEF q
    <3>1. r = e
      BY <1>3, <2>1 DEF Resync, Result
    <3>2. \E c \in Int :
            /\ Fits(e, c) /\ Below(e, c, m)
            /\ a - 1 <= c /\ c <= m /\ m <= c + HalfSpace
            /\ -WinSize <= n - c /\ n - c < HalfSpace
      BY <2>1, EndCheckSound DEF q
    <3> HIDE DEF e, r, m
    <3> QED
      BY <1>3, <1>4, <2>1, <3>1, <3>2
  <2>2. CASE t.force_no_drop
    <3> HIDE DEF e, q
    <3>1. e.force_no_drop
      BY <1>3, <2>2
    <3>2. /\ r \in Tables /\ IsEmpty(r) /\ r.force_no_drop = TRUE
          /\ r.check_start_win = e.check_start_win /\ r.flush_data = e.flush_data
          /\ r.timer_is_set = TRUE /\ r.armed = TRUE
          /\ ~isBar => r.start_win = q
          /\ Marked(e) => Marked(r)
      BY <1>2, <1>3, <3>1, ResyncTyped
    <3> HIDE DEF r, m
    <3> DEFINE c == IF isBar THEN Near(r.start_win, n) ELSE n
    <3>3. r.start_win \in Int
      BY <3>2, Space DEF Tables
    <3>4. c \in n - HalfSpace .. n + HalfSpace - 1 /\ SameSeq(c, r.start_win)
      <4>1. CASE isBar
        BY <1>1, <3>3, <4>1, NearInRange
      <4>2. CASE ~isBar
        BY <1>1, <1>2, <3>2, <4>2, Space
      <4> QED
        BY <4>1, <4>2
    <3>5. c \in Int /\ (~isBar => c = n)
      BY <1>1, <3>4, Space
    <3> HIDE DEF c
    <3>6. Fits(r, c) /\ Below(r, c, m)
      BY <3>2, <3>4, <3>5 DEF Fits, Below, IsEmpty
    <3> QED
      BY <1>1, <1>3, <1>4, <2>2, <3>2, <3>4, <3>5, <3>6
  <2> QED
    BY <2>1, <2>2
<1> HIDE DEF e, r
<1>6. PICK c \in Int :
           /\ Fits(r, c) /\ Below(r, c, m)
           /\ IF t.force_no_drop
              THEN /\ IsEmpty(r) /\ (~isBar => c = n)
                   /\ c \in n - HalfSpace .. n + HalfSpace - 1
              ELSE /\ a - 1 <= c /\ c <= m /\ m <= c + HalfSpace
                   /\ -WinSize <= n - c /\ n - c < HalfSpace
  BY <1>5
<1>7. /\ Keeps(p, Awake(r))
      /\ WinSize <= BitmapBits /\ Marked(r) => Marked(p)
      /\ \E b \in Int :
           /\ b <= m /\ Fits(p, b) /\ Below(p, b, m)
           /\ IF t.force_no_drop THEN n <= b ELSE c <= b
  <2>1. CASE isBar
    <3>1. isBar = TRUE
      BY <2>1
    <3>2. p = Place(r, Seq12(n), TRUE, payload).tbl
      BY <3>1
    <3> HIDE DEF p, q, m
    <3>3. IF r.force_no_drop
          THEN IsEmpty(r) /\ c \in n - HalfSpace .. n + HalfSpace - 1
          ELSE c <= m /\ -WinSize <= n - c /\ n - c < HalfSpace
      BY <1>5, <1>6
    <3>4. n + WinSize <= m
      BY <1>1, <2>1
    <3>5. /\ Keeps(p, Awake(r))
          /\ WinSize <= BitmapBits /\ Marked(r) => Marked(p)
          /\ \E b \in Int :
               /\ b <= m /\ Fits(p, b) /\ Below(p, b, m)
               /\ r.force_no_drop => n <= b
               /\ ~r.force_no_drop => c <= b
      BY <1>1, <1>6, <3>2, <3>3, <3>4, PlaceBar
    <3> QED
      BY <1>5, <3>5
  <2>2. CASE ~isBar
    <3>1. isBar = FALSE
      BY <2>2
    <3>2. p = Place(r, Seq12(n), FALSE, payload).tbl
      BY <3>1
    <3>3. /\ c <= m /\ -WinSize <= n - c /\ n - c < HalfSpace
          /\ r.force_no_drop => c = n
      BY <1>1, <1>5, <1>6, <2>2, Space
    <3> HIDE DEF p, q, m
    <3>4. /\ Keeps(p, Awake(r))
          /\ WinSize <= BitmapBits /\ Marked(r) => Marked(p)
          /\ \E b \in c .. m : Fits(p, b) /\ Below(p, b, m)
      <4>1. Fits(r, c) /\ Below(r, c, m) /\ n \in Nat /\ n < m /\ m \in Int
        BY <1>1, <1>6
      <4> QED
        BY <3>2, <3>3, <4>1, PlaceFrame
    <3>5. \A b \in c .. m : b \in Int /\ b <= m /\ c <= b
                              /\ (t.force_no_drop => n <= b)
      BY <1>1, <1>5, <3>3
    <3> QED
      BY <3>4, <3>5
  <2> QED
    BY <2>1, <2>2
<1> HIDE DEF p
<1>8. /\ Awake(r).check_start_win = FALSE /\ Awake(r).force_no_drop = FALSE
      /\ Awake(r).flush_data = t.flush_data
      /\ Awake(r).timer_is_set = r.timer_is_set /\ Awake(r).armed = r.armed
  BY <1>5 DEF Awake, Tables
<1>9. PICK b \in Int :
           /\ b <= m /\ Fits(p, b) /\ Below(p, b, m)
           /\ IF t.force_no_drop THEN n <= b ELSE c <= b
  BY <1>7
<1>10. p \in Tables
  BY <1>9 DEF Fits
<1>11. /\ u \in Tables /\ u.start_win = p.start_win
       /\ u.rx_reorder_ptr = p.rx_reorder_ptr /\ u.bitmap = p.bitmap
       /\ u.check_start_win = p.check_start_win
       /\ u.force_no_drop = p.force_no_drop /\ u.flush_data = p.flush_data
       /\ Marked(p) /\ p.timer_is_set = p.armed => Clocked(u)
  BY <1>10, DoneClocks
<1> HIDE DEF u
<1>12. /\ u.check_start_win = FALSE /\ u.force_no_drop = FALSE
       /\ u.flush_data = t.flush_data
  BY <1>7, <1>8, <1>11 DEF Keeps
<1>13. m <= b + HalfSpace
  BY <1>1, <1>6, <1>9, Space
<1>14. Sound(u, b, lo)
  <2>1. Fits(u, b) /\ Below(u, b, m)
    BY <1>9, <1>11 DEF Fits, Below
  <2> QED
    BY <1>9, <1>12, <1>13, <2>1 DEF Sound
<1>15. ASSUME WinSize <= BitmapBits, Marked(t)
       PROVE  Marked(u) /\ (Clocked(t) => Clocked(u))
  <2>1. Marked(p)
    BY <1>5, <1>7, <1>15
  <2>2. Marked(u)
    BY <1>11, <2>1 DEF Marked
  <2>3. t.timer_is_set = t.armed => p.timer_is_set = p.armed
    BY <1>5, <1>7, <1>8 DEF Keeps
  <2> QED
    BY <1>11, <2>1, <2>2, <2>3 DEF Clocked
<1>16. IF t.force_no_drop THEN n <= b ELSE a - 1 <= b
  BY <1>1, <1>6, <1>9
<1>17. u = Rest(t, q, isBar, payload)
  BY DEF u, p, r, e, Rest
<1> QED
  BY <1>9, <1>12, <1>14, <1>15, <1>16, <1>17

(* The three ways a call can go. *)
LEMMA ReorderCases ==
    ASSUME NEW t \in Tables, NEW q, NEW kind, NEW payload
    PROVE  LET f == FlushIfAsked(t).tbl
               r == ReorderPkt(t, q, kind, payload)
               asIs == IF kind = "bar" \/ payload = FwDropped THEN <<>> ELSE <<payload>>
           IN  IF kind = "amsdu" /\ ~f.amsdu THEN r.tbl = f
               ELSE IF StillChecking(f, q) THEN r.tbl = Forward(f, q, asIs).tbl
               ELSE r.tbl = Rest(f, q, kind = "bar", payload)
<1> DEFINE f == FlushIfAsked(t)
           asIs == IF kind = "bar" \/ payload = FwDropped THEN <<>> ELSE <<payload>>
           fwd == Forward(f.tbl, q, asIs)
           e == Resync(EndCheck(f.tbl, q), q, kind = "bar")
           p == Place(e.tbl, q, kind = "bar", payload)
           r == ReorderPkt(t, q, kind, payload)
<1>1. r = CASE kind = "amsdu" /\ ~f.tbl.amsdu -> [f EXCEPT !.direct = asIs]
            [] ~(kind = "amsdu" /\ ~f.tbl.amsdu) /\ StillChecking(f.tbl, q) ->
                 [fwd EXCEPT !.out = f.out]
            [] OTHER -> Result(Done(p.tbl, e.tbl.start_win),
                               f.out \o e.out \o p.out, <<>>, p.ok)
  BY DEF ReorderPkt
<1>2. f = [tbl |-> f.tbl, out |-> f.out, direct |-> f.direct, ok |-> f.ok]
  BY DEF FlushIfAsked, StartFlushData, DispatchUntilStartWin, Result
<1>3. fwd = [tbl |-> fwd.tbl, out |-> fwd.out, direct |-> fwd.direct, ok |-> fwd.ok]
  BY DEF Forward, Result
<1>4. Done(p.tbl, e.tbl.start_win) = Rest(f.tbl, q, kind = "bar", payload)
  BY DEF Rest
<1> HIDE DEF f, fwd, e, p, r, asIs
<1>5. [f EXCEPT !.direct = asIs].tbl = f.tbl /\ [fwd EXCEPT !.out = f.out].tbl = fwd.tbl
  BY <1>2, <1>3
<1>6. CASE kind = "amsdu" /\ ~f.tbl.amsdu
  BY <1>1, <1>5, <1>6 DEF f, r
<1>7. CASE ~(kind = "amsdu" /\ ~f.tbl.amsdu) /\ StillChecking(f.tbl, q)
  <2>1. r.tbl = fwd.tbl
    BY <1>1, <1>5, <1>7
  <2> QED
    BY <1>7, <2>1 DEF f, r, fwd, asIs
<1>8. CASE ~(kind = "amsdu" /\ ~f.tbl.amsdu) /\ ~StillChecking(f.tbl, q)
  <2>1. r.tbl = Rest(f.tbl, q, kind = "bar", payload)
    BY <1>1, <1>4, <1>8 DEF Result
  <2> QED
    BY <1>8, <2>1 DEF f, r
<1> QED
  BY <1>6, <1>7, <1>8

(* What mlan_11n_rxreorder_pkt makes of a sound table is a sound table, at *)
(* the start that Account computes.                                        *)
LEMMA ReorderSound ==
    ASSUME NEW t, NEW a, NEW lo \in Nat, Sound(t, a, lo),
           NEW kind \in {"data", "amsdu", "bar"},
           NEW n \in lo .. lo + WinSize - 1, kind = "bar" => n = lo,
           NEW payload \in {n, FwDropped}
    PROVE  LET u == ReorderPkt(t, Seq12(n), kind, payload).tbl
               fresh == t.force_no_drop /\ ~(kind = "amsdu" /\ ~t.amsdu)
           IN  /\ Sound(u, Near(u.start_win, IF fresh THEN n ELSE a + WinSize), lo)
               /\ u.flush_data = FALSE
               /\ WinSize <= BitmapBits /\ Marked(t) =>
                    Marked(u) /\ (Clocked(t) => Clocked(u))
<1> DEFINE q == Seq12(n)
           v == Unasked(t)
           f == FlushIfAsked(t).tbl
           u == ReorderPkt(t, q, kind, payload).tbl
           fresh == t.force_no_drop /\ ~(kind = "amsdu" /\ ~t.amsdu)
           asIs == IF kind = "bar" \/ payload = FwDropped THEN <<>> ELSE <<payload>>
<1>1. /\ t \in Tables /\ a \in Int /\ n \in Int /\ a + WinSize \in Int
      /\ t.force_no_drop \in BOOLEAN /\ n >= lo /\ n < lo + WinSize
  BY Space DEF Sound, Fits, Tables
<1>2. /\ v.force_no_drop = t.force_no_drop /\ v.amsdu = t.amsdu
      /\ v.check_start_win = t.check_start_win
  BY <1>1 DEF Tables, Unasked
<1>3. /\ Keeps(f, v) /\ f.flush_data = FALSE
      /\ SoundFrom(f, t, a, lo)
      /\ WinSize <= BitmapBits /\ Marked(t) => Marked(f)
      /\ Clocked(t) => Clocked(f)
  BY FlushSound
<1>4. PICK b \in a .. a + WinSize : Sound(f, b, lo) /\ (t.check_start_win => b = a)
  BY <1>3 DEF SoundFrom
<1>5. IF kind = "amsdu" /\ ~f.amsdu THEN u = f
      ELSE IF StillChecking(f, q) THEN u = Forward(f, q, asIs).tbl
      ELSE u = Rest(f, q, kind = "bar", payload)
  BY <1>1, ReorderCases
<1> HIDE DEF f, u, v
<1>6. f.force_no_drop = t.force_no_drop /\ f.amsdu = t.amsdu
      /\ f.check_start_win = t.check_start_win /\ b \in Int
  BY <1>1, <1>2, <1>3, Space DEF Keeps
<1>7. CASE kind = "amsdu" /\ ~f.amsdu
  <2>1. u = f /\ ~fresh
    BY <1>5, <1>6, <1>7
  <2>2. Near(f.start_win, a + WinSize) = b
    <3>1. b \in (a + WinSize) - HalfSpace .. (a + WinSize) + HalfSpace - 1
      BY <1>1, <1>6, Space
    <3>2. Fits(f, b)
      BY <1>4 DEF Sound
    <3> QED
      BY <1>1, <3>1, <3>2, NearStart
  <2> QED
    BY <1>3, <1>4, <2>1, <2>2 DEF u, q
<1>8. CASE ~(kind = "amsdu" /\ ~f.amsdu) /\ StillChecking(f, q)
  <2>1. u = Forward(f, q, asIs).tbl
    BY <1>5, <1>8
  <2>2. f.check_start_win /\ fresh = t.force_no_drop
    BY <1>1, <1>6, <1>8 DEF StillChecking
  <2>3. /\ \A x \in Int : /\ SameSeq(x, f.start_win)
                          /\ ~f.force_no_drop => x = b
                          => Sound(u, x, lo)
        /\ u.start_win = f.start_win
        /\ Marked(f) => Marked(u)
        /\ Clocked(f) => Clocked(u)
        /\ u.flush_data = f.flush_data
    BY <1>4, <2>1, <2>2, ForwardSound
  <2> DEFINE m == IF fresh THEN n ELSE a + WinSize
             x == Near(f.start_win, m)
  <2>4. m \in Int /\ f.start_win \in Int /\ Fits(f, b)
    BY <1>1, <1>4, Space DEF Sound, Fits, Tables
  <2>5. x \in m - HalfSpace .. m + HalfSpace - 1 /\ SameSeq(x, f.start_win)
    <3> HIDE DEF m
    <3> QED
      BY <2>4, NearInRange
  <2>6. ~f.force_no_drop => x = b
    <3>1. ASSUME ~f.force_no_drop PROVE Near(f.start_win, a + WinSize) = b
      <4>1. b \in (a + WinSize) - HalfSpace .. (a + WinSize) + HalfSpace - 1
        BY <1>1, <1>6, Space
      <4> QED
        BY <1>1, <2>4, <4>1, NearStart
    <3> QED
      BY <1>6, <2>2, <3>1
  <2>7. x \in Int
    <3> HIDE DEF x, m
    <3> QED
      BY <2>4, <2>5, Space
  <2>8. Sound(u, x, lo)
    <3> HIDE DEF x
    <3> QED
      BY <2>3, <2>5, <2>6, <2>7
  <2> QED
    BY <1>3, <2>3, <2>8 DEF u, q
<1>9. CASE ~(kind = "amsdu" /\ ~f.amsdu) /\ ~StillChecking(f, q)
  <2>1. u = Rest(f, q, kind = "bar", payload) /\ fresh = t.force_no_drop
    BY <1>1, <1>5, <1>6, <1>9
  <2>2. /\ u.flush_data = f.flush_data
        /\ WinSize <= BitmapBits /\ Marked(f) =>
             Marked(u) /\ (Clocked(f) => Clocked(u))
        /\ \E c \in Int :
             /\ Sound(u, c, lo) /\ c <= lo + WinSize
             /\ IF f.force_no_drop THEN n <= c ELSE b - 1 <= c
    <3> DEFINE isBar == (kind = "bar")
    <3>1. isBar \in BOOLEAN /\ (isBar => n = lo) /\ u = Rest(f, q, isBar, payload)
      BY <2>1
    <3> HIDE DEF isBar
    <3> QED
      BY <1>4, <3>1, RestSound
  <2>3. PICK c \in Int :
             /\ Sound(u, c, lo) /\ c <= lo + WinSize
             /\ IF f.force_no_drop THEN n <= c ELSE b - 1 <= c
    BY <2>2
  <2>4. Fits(u, c)
    BY <2>3 DEF Sound
  <2>5. CASE t.force_no_drop
    <3>1. c \in n - HalfSpace .. n + HalfSpace - 1
      BY <1>1, <1>6, <2>3, <2>5, Space
    <3>2. Near(u.start_win, n) = c
      BY <1>1, <2>4, <3>1, NearStart
    <3> QED
      BY <1>3, <2>1, <2>2, <2>3, <2>5, <3>2 DEF u, q
  <2>6. CASE ~t.force_no_drop
    <3>1. lo + WinSize <= a + HalfSpace
      BY <2>6 DEF Sound
    <3>2. c \in (a + WinSize) - HalfSpace .. (a + WinSize) + HalfSpace - 1
      BY <1>1, <1>6, <2>3, <2>6, <3>1, Space
    <3>3. Near(u.start_win, a + WinSize) = c
      BY <1>1, <2>4, <3>2, NearStart
    <3> QED
      BY <1>3, <2>1, <2>2, <2>3, <2>6, <3>3 DEF u, q
  <2> QED
    BY <2>5, <2>6
<1> QED
  BY <1>7, <1>8, <1>9

-----------------------------------------------------------------------------
(* The invariant of the specification.                                     *)

(* Without an agreement the table is the empty one; with one it is sound   *)
(* for the start astart stands for and for where the peer is.              *)
TableInv ==
    /\ base \in Nat /\ tbl \in Tables /\ astart \in Int
    /\ ba = "none" => tbl = NewTable(0, DEFAULT_SEQ_NUM)
    /\ ba # "none" => Sound(tbl, astart, base)

(* The bitmap shows the slots, the timer follows the bitmap, and a flush   *)
(* the table waits for has been asked of the adapter.                      *)
TimerInv ==
    /\ Marked(tbl) /\ Clocked(tbl)
    /\ tbl.flush_data => flush_data

(* A new entry: nothing held, no timer, no flush. *)
LEMMA NewTableTyped ==
    ASSUME NEW s \in 0 .. SeqSpace - 1,
           NEW last \in (0 .. SeqSpace - 1) \cup {DEFAULT_SEQ_NUM}
    PROVE  LET t == NewTable(s, last) IN
           /\ t \in Tables /\ IsEmpty(t) /\ Marked(t) /\ Clocked(t)
           /\ t.start_win = s /\ t.last_seq = last /\ ~t.force_no_drop
           /\ ~t.flush_data
<1> DEFINE t == NewTable(s, last)
<1>1. s \in 0 .. SeqSpace
  BY Space
<1>2. t \in Tables
  BY <1>1 DEF Tables, NewTable, NoSlots, Empty
<1>3. IsEmpty(t) /\ Marked(t)
  BY DEF NewTable, NoSlots, IsEmpty, Marked, Occupied
<1>4. Clocked(t) /\ t.start_win = s /\ t.last_seq = last /\ ~t.force_no_drop
      /\ ~t.flush_data
  BY <1>3 DEF Clocked, NewTable
<1> QED
  BY <1>2, <1>3, <1>4

(* The table without an agreement. *)
LEMMA ClosedTable ==
    LET t == NewTable(0, DEFAULT_SEQ_NUM) IN
    /\ t \in Tables /\ IsEmpty(t) /\ Marked(t) /\ Clocked(t) /\ ~t.flush_data
<1>1. 0 \in 0 .. SeqSpace - 1
  BY Space
<1>2. DEFAULT_SEQ_NUM \in (0 .. SeqSpace - 1) \cup {DEFAULT_SEQ_NUM}
  OBVIOUS
<1> QED
  BY <1>1, <1>2, NewTableTyped

(* The peer's window moves on. *)
LEMMA SoundLater ==
    ASSUME NEW t, NEW a, NEW lo \in Nat, Sound(t, a, lo), NEW hi \in Nat, lo <= hi,
           ~t.force_no_drop => hi + WinSize <= a + HalfSpace
    PROVE  Sound(t, a, hi)
<1>1. a \in Int /\ WinSize \in Int
  BY Space DEF Sound, Fits
<1>2. Below(t, a, hi + WinSize)
  BY <1>1 DEF Sound, Below, SlotIndex
<1>3. \A l \in a - 2 .. lo + WinSize - 1 : l \in a - 2 .. hi + WinSize - 1
  BY <1>1
<1>4. a <= lo + WinSize => a <= hi + WinSize
  BY <1>1
<1>5. a <= lo + 1 => a <= hi + 1
  BY <1>1
<1> QED
  BY <1>2, <1>3, <1>4, <1>5 DEF Sound

(* Soundness is a matter of these fields. *)
LEMMA SoundSame ==
    ASSUME NEW t, NEW a, NEW lo, Sound(t, a, lo), NEW u \in Tables,
           u.start_win = t.start_win, u.rx_reorder_ptr = t.rx_reorder_ptr,
           u.check_start_win = t.check_start_win, u.last_seq = t.last_seq,
           u.force_no_drop = t.force_no_drop
    PROVE  Sound(u, a, lo)
  BY DEF Sound, Fits, Below, IsEmpty

(* The invariant at the start. *)
LEMMA InitSound == Init => TableInv /\ TimerInv
<1> SUFFICES ASSUME Init PROVE TableInv /\ TimerInv
  OBVIOUS
<1>1. base \in Nat /\ astart \in Int
  BY ReorderAssumption DEF Init
<1> QED
  BY <1>1, ClosedTable DEF Init, TableInv, TimerInv

(* One call of mlan_11n_rxreorder_pkt, whoever makes it. *)
LEMMA CallKept ==
    ASSUME TableInv, ba # "none", NEW kind \in {"data", "amsdu", "bar"},
           NEW n \in base .. base + WinSize - 1, kind = "bar" => n = base,
           NEW payload \in {n, FwDropped},
           Account(ReorderPkt(tbl, Seq12(n), kind, payload), n, SetsAnew(kind)),
           UNCHANGED <<ba, flush_data, base>>
    PROVE  /\ TableInv'
           /\ WinSize <= BitmapBits /\ TimerInv => TimerInv'
<1> DEFINE u == ReorderPkt(tbl, Seq12(n), kind, payload).tbl
           fresh == tbl.force_no_drop /\ ~(kind = "amsdu" /\ ~tbl.amsdu)
           x == Near(u.start_win, IF fresh THEN n ELSE astart + WinSize)
<1>1. tbl' = u /\ astart' = x
  BY DEF Account, SetsAnew
<1>2. base \in Nat /\ Sound(tbl, astart, base)
  BY DEF TableInv
<1>3. /\ Sound(u, x, base) /\ u.flush_data = FALSE
      /\ WinSize <= BitmapBits /\ Marked(tbl) =>
           Marked(u) /\ (Clocked(tbl) => Clocked(u))
  BY <1>2, ReorderSound
<1> HIDE DEF u, x
<1>4. TableInv'
  BY <1>1, <1>2, <1>3 DEF TableInv, Sound, Fits
<1> QED
  BY <1>1, <1>3, <1>4 DEF TimerInv

(* The flush before the next packet. *)
LEMMA FlushKept ==
    ASSUME TableInv, FlushWork
    PROVE  TableInv' /\ (WinSize <= BitmapBits /\ TimerInv => TimerInv')
<1>1. CASE ba = "none"
  BY <1>1, ClosedTable DEF FlushWork, TableInv, TimerInv
<1>2. CASE ba # "none"
  <2> DEFINE u == FlushIfAsked(tbl).tbl
  <2>1. base \in Nat /\ Sound(tbl, astart, base)
    BY <1>2 DEF TableInv
  <2>2. /\ u.flush_data = FALSE /\ SoundFrom(u, tbl, astart, base)
        /\ WinSize <= BitmapBits /\ Marked(tbl) => Marked(u)
        /\ Clocked(tbl) => Clocked(u)
    BY <2>1, FlushSound
  <2>3. tbl' = u /\ astart' = Near(u.start_win, astart + WinSize)
    BY <1>2 DEF FlushWork, Account
  <2> HIDE DEF u
  <2>4. PICK b \in astart .. astart + WinSize : Sound(u, b, base)
    BY <2>2 DEF SoundFrom
  <2>5. Fits(u, b) /\ astart \in Int
    BY <2>1, <2>4 DEF Sound, Fits
  <2>6. astart' = b
    <3>1. b \in (astart + WinSize) - HalfSpace .. (astart + WinSize) + HalfSpace - 1
      BY <2>5, Space
    <3>2. astart + WinSize \in Int
      BY <2>5, Space
    <3> QED
      BY <2>3, <2>5, <3>1, <3>2, NearStart
  <2>7. ba' = ba /\ base' = base
    BY DEF FlushWork
  <2>8. TableInv'
    BY <1>2, <2>1, <2>3, <2>4, <2>5, <2>6, <2>7 DEF TableInv, Fits
  <2> QED
    BY <2>2, <2>3, <2>8 DEF TimerInv
<1> QED
  BY <1>1, <1>2

(* A new agreement, with or without an old one. *)
LEMMA AddBaKept ==
    ASSUME TableInv, NEW ssn \in {base, base + 1}, NEW last \in RecentSeq,
           AddBa(ssn, last)
    PROVE  TableInv' /\ TimerInv'
<1>1. base \in Nat /\ ssn \in Int /\ base' = base /\ ba' # "none"
  BY DEF TableInv, AddBa
<1>2. Seq12(ssn) \in 0 .. SeqSpace - 1 /\ SameSeq(ssn, Seq12(ssn))
  BY <1>1, SeqOfFrame
<1>3. \/ last = DEFAULT_SEQ_NUM
      \/ \E l \in base - 1 .. base : last = Seq12(l)
  BY DEF RecentSeq
<1>4. last \in (0 .. SeqSpace - 1) \cup {DEFAULT_SEQ_NUM}
  BY <1>1, <1>3, SeqOfFrame
<1> DEFINE t == NewTable(Seq12(ssn), last)
<1>5. /\ t \in Tables /\ IsEmpty(t) /\ Marked(t) /\ Clocked(t)
      /\ t.start_win = Seq12(ssn) /\ t.last_seq = last /\ ~t.force_no_drop
      /\ ~t.flush_data
  <2> DEFINE s == Seq12(ssn)
  <2>1. s \in 0 .. SeqSpace - 1
    BY <1>2
  <2> HIDE DEF s
  <2>2. LET v == NewTable(s, last) IN
           /\ v \in Tables /\ IsEmpty(v) /\ Marked(v) /\ Clocked(v)
           /\ v.start_win = s /\ v.last_seq = last /\ ~v.force_no_drop
           /\ ~v.flush_data
    BY <1>4, <2>1, NewTableTyped
  <2> QED
    BY <2>2 DEF s
<1>6. tbl' = t /\ astart' = ssn
  BY DEF AddBa
<1> HIDE DEF t
<1>7. Fits(t, ssn) /\ Below(t, ssn, base + WinSize)
  BY <1>1, <1>2, <1>5 DEF Fits, Below, IsEmpty
<1>8. base + WinSize <= ssn + HalfSpace /\ ssn <= base + WinSize /\ ssn <= base + 1
      /\ t.start_win < SeqSpace
  BY <1>1, <1>2, <1>5, Space
<1>9. ASSUME t.last_seq # DEFAULT_SEQ_NUM
      PROVE  \E l \in ssn - 2 .. base + WinSize - 1 : SameSeq(l, t.last_seq)
  <2>1. PICK l \in base - 1 .. base : last = Seq12(l)
    BY <1>3, <1>5, <1>9
  <2>2. l \in ssn - 2 .. base + WinSize - 1 /\ l \in Int
    BY <1>1, Space
  <2>3. SameSeq(l, Seq12(l))
    BY <2>2, SeqOfFrame
  <2> QED
    BY <1>5, <2>1, <2>2, <2>3
<1>10. Sound(t, ssn, base)
  BY <1>5, <1>7, <1>8, <1>9 DEF Sound
<1> QED
  BY <1>1, <1>5, <1>6, <1>10 DEF TableInv, TimerInv

(* Every step keeps both parts of the invariant. *)
LEMMA StepKept ==
    ASSUME TableInv, [Next]_vars
    PROVE  TableInv' /\ (WinSize <= BitmapBits /\ TimerInv => TimerInv')
<1>0. base \in Nat /\ tbl \in Tables /\ astart \in Int
  BY DEF TableInv
<1>1. ASSUME NEW n \in base .. base + WinSize - 1, NEW kind \in {"data", "amsdu", "bar"},
             kind = "bar" => n = base, Receive(n, kind)
      PROVE  TableInv' /\ (WinSize <= BitmapBits /\ TimerInv => TimerInv')
  <2>1. CASE ba = "none"
    BY <1>1, <2>1 DEF Receive, TableInv, TimerInv
  <2>2. CASE ba # "none"
    <3>1. /\ Account(ReorderPkt(tbl, Seq12(n), kind, n), n, SetsAnew(kind))
          /\ UNCHANGED <<ba, flush_data, base>>
      BY <1>1, <2>2 DEF Receive
    <3> QED
      BY <1>1, <2>2, <3>1, CallKept
  <2> QED
    BY <2>1, <2>2
<1>2. CASE ReceiveFrame
  BY <1>1, <1>2 DEF ReceiveFrame
<1>3. CASE ReceiveBar
  <2>1. base \in base .. base + WinSize - 1
    BY <1>0, Space
  <2> QED
    BY <1>1, <1>3, <2>1 DEF ReceiveBar
<1>4. ASSUME NEW n \in base .. base + WinSize - 1, RxBaSync(n)
      PROVE  TableInv' /\ (WinSize <= BitmapBits /\ TimerInv => TimerInv')
  <2>1. SetsAnew("data") = FALSE /\ ba # "none" /\ UNCHANGED <<ba, flush_data, base>>
    BY <1>4 DEF RxBaSync, SetsAnew
  <2>2. Account(ReorderPkt(tbl, Seq12(n), "data", FwDropped), n, SetsAnew("data"))
    BY <1>4, <2>1 DEF RxBaSync
  <2>3. "data" \in {"data", "amsdu", "bar"} /\ "data" # "bar"
    OBVIOUS
  <2> QED
    BY <2>1, <2>2, <2>3, CallKept
<1>5. CASE PeerAdvance
  <2>1. base' = base + 1 /\ UNCHANGED <<ba, tbl, flush_data, astart>>
    BY <1>5 DEF PeerAdvance
  <2>2. TimerInv => TimerInv'
    BY <2>1 DEF TimerInv
  <2>3. ba # "none" => Sound(tbl, astart, base + 1)
    <3> SUFFICES ASSUME ba # "none" PROVE Sound(tbl, astart, base + 1)
      OBVIOUS
    <3>1. ~tbl.force_no_drop => (base + 1) + WinSize <= astart + HalfSpace
      BY <1>0, <1>5, Space DEF PeerAdvance
    <3>2. Sound(tbl, astart, base) /\ base + 1 \in Nat /\ base <= base + 1
      BY <1>0 DEF TableInv
    <3> QED
      BY <1>0, <3>1, <3>2, SoundLater
  <2> QED
    BY <1>0, <2>1, <2>2, <2>3 DEF TableInv
<1>6. CASE TimerFires
  <2>1. /\ tbl' \in Tables /\ tbl'.start_win = tbl.start_win
        /\ tbl'.rx_reorder_ptr = tbl.rx_reorder_ptr /\ tbl'.bitmap = tbl.bitmap
        /\ tbl'.check_start_win = tbl.check_start_win /\ tbl'.last_seq = tbl.last_seq
        /\ tbl'.force_no_drop = tbl.force_no_drop /\ tbl'.flush_data = TRUE
        /\ tbl'.timer_is_set = FALSE /\ tbl'.armed = FALSE
    BY <1>0, <1>6 DEF TimerFires, Tables
  <2>2. ba # "none" /\ flush_data' = TRUE /\ UNCHANGED <<ba, base, astart>>
    BY <1>6 DEF TimerFires
  <2>3. Sound(tbl, astart, base)
    BY <2>2 DEF TableInv
  <2>4. Sound(tbl', astart, base)
    BY <2>1, <2>3, SoundSame
  <2>5. TimerInv => TimerInv'
    BY <2>1, <2>2 DEF TimerInv, Marked, Clocked
  <2> QED
    BY <1>0, <2>1, <2>2, <2>4, <2>5 DEF TableInv
<1>7. CASE FlushWork
  BY <1>7, FlushKept
<1>8. ASSUME NEW ssn \in {base, base + 1}, NEW last \in RecentSeq, AddBa(ssn, last)
      PROVE  TableInv' /\ TimerInv'
  BY <1>8, AddBaKept
<1>9. ASSUME ba' = "none", tbl' = NewTable(0, DEFAULT_SEQ_NUM), astart' = base,
             base' = base
      PROVE  TableInv' /\ TimerInv'
  BY <1>0, <1>9, ClosedTable DEF TableInv, TimerInv
<1>10. ASSUME NEW ok \in BOOLEAN, NEW amsdu \in BOOLEAN, AddBaResponse(ok, amsdu)
       PROVE  TableInv' /\ (WinSize <= BitmapBits /\ TimerInv => TimerInv')
  <2>1. CASE ok
    <3>1. /\ ba # "none" /\ ba' # "none" /\ UNCHANGED <<flush_data, base, astart>>
          /\ tbl' = [tbl EXCEPT !.amsdu = amsdu]
      BY <1>10, <2>1 DEF AddBaResponse
    <3>2. /\ tbl' \in Tables /\ tbl'.start_win = tbl.start_win
          /\ tbl'.rx_reorder_ptr = tbl.rx_reorder_ptr /\ tbl'.bitmap = tbl.bitmap
          /\ tbl'.check_start_win = tbl.check_start_win /\ tbl'.last_seq = tbl.last_seq
          /\ tbl'.force_no_drop = tbl.force_no_drop
          /\ tbl'.flush_data = tbl.flush_data
          /\ tbl'.timer_is_set = tbl.timer_is_set /\ tbl'.armed = tbl.armed
      BY <1>0, <3>1 DEF Tables
    <3>3. Sound(tbl, astart, base)
      BY <3>1 DEF TableInv
    <3>4. Sound(tbl', astart, base)
      BY <3>2, <3>3, SoundSame
    <3>5. TimerInv => TimerInv'
      BY <3>1, <3>2 DEF TimerInv, Marked, Clocked, IsEmpty
    <3> QED
      BY <1>0, <3>1, <3>2, <3>4, <3>5 DEF TableInv
  <2>2. CASE ~ok
    BY <1>9, <1>10, <2>2 DEF AddBaResponse
  <2> QED
    BY <2>1, <2>2
<1>11. CASE DelBa
  BY <1>9, <1>11 DEF DelBa
<1>12. ASSUME NEW k \in {0, WinSize}, HostSleep(k)
       PROVE  TableInv' /\ (WinSize <= BitmapBits /\ TimerInv => TimerInv')
  <2>1. /\ ba # "none" /\ ~tbl.force_no_drop /\ base' = base + k
        /\ UNCHANGED <<ba, flush_data, astart>>
        /\ tbl' = [tbl EXCEPT !.force_no_drop = TRUE]
    BY <1>12 DEF HostSleep
  <2>2. /\ tbl' \in Tables /\ tbl'.start_win = tbl.start_win
        /\ tbl'.rx_reorder_ptr = tbl.rx_reorder_ptr /\ tbl'.bitmap = tbl.bitmap
        /\ tbl'.check_start_win = tbl.check_start_win /\ tbl'.last_seq = tbl.last_seq
        /\ tbl'.force_no_drop = TRUE
        /\ tbl'.flush_data = tbl.flush_data
        /\ tbl'.timer_is_set = tbl.timer_is_set /\ tbl'.armed = tbl.armed
    BY <1>0, <2>1 DEF Tables
  <2>3. Sound(tbl, astart, base)
    BY <2>1 DEF TableInv
  <2>4. Sound(tbl', astart, base)
    BY <2>1, <2>2, <2>3 DEF Sound, Fits, Below, IsEmpty
  <2>5. base + k \in Nat /\ base <= base + k
    BY <1>0, Space
  <2>6. Sound(tbl', astart, base + k)
    BY <1>0, <2>2, <2>4, <2>5, SoundLater
  <2>7. TimerInv => TimerInv'
    BY <2>1, <2>2 DEF TimerInv, Marked, Clocked, IsEmpty
  <2> QED
    BY <1>0, <2>1, <2>2, <2>5, <2>6, <2>7 DEF TableInv
<1>13. CASE UNCHANGED vars
  BY <1>13 DEF vars, TableInv, TimerInv
<1> QED
  BY <1>2, <1>3, <1>4, <1>5, <1>6, <1>7, <1>8, <1>10, <1>11, <1>12, <1>13 DEF Next

-----------------------------------------------------------------------------
(* The theorems.                                                           *)

(* The fields of a result. *)
LEMMA ResultParts ==
    ASSUME NEW t, NEW s, NEW d, NEW k
    PROVE  Result(t, s, d, k).tbl = t /\ Result(t, s, d, k).ok = k
  BY DEF Result

(* With no flush asked for, the start checked and the host awake, the call *)
(* is the old test, the slide, the slot and the timer, nothing else.       *)
LEMMA PlainCall ==
    ASSUME NEW t \in Tables, ~t.check_start_win, ~t.force_no_drop, ~t.flush_data,
           NEW q, NEW payload
    PROVE  /\ LET r == ReorderPkt(t, q, "data", payload)
                  p == Place(t, q, FALSE, payload)
              IN  r.tbl = Done(p.tbl, t.start_win) /\ r.ok = p.ok
           /\ LET r == ReorderPkt(t, q, "bar", payload)
                  p == Place(t, q, TRUE, payload)
              IN  r.tbl = Done(p.tbl, t.start_win) /\ r.ok = p.ok
<1> DEFINE f == FlushIfAsked(t)
           e == Resync(EndCheck(f.tbl, q), q, FALSE)
           eb == Resync(EndCheck(f.tbl, q), q, TRUE)
           p == Place(e.tbl, q, FALSE, payload)
           pb == Place(eb.tbl, q, TRUE, payload)
<1>1. f.tbl = t
  BY DEF FlushIfAsked, Result
<1>2. EndCheck(t, q) = t
  BY DEF EndCheck
<1>3. e.tbl = t /\ eb.tbl = t
  <2>1. e = Resync(t, q, FALSE) /\ eb = Resync(t, q, TRUE)
    BY <1>1, <1>2
  <2> HIDE DEF e, eb
  <2> QED
    BY <2>1 DEF Resync, Result
<1>4. ~StillChecking(f.tbl, q)
  BY <1>1 DEF StillChecking
<1> HIDE DEF f, e, eb, p, pb
<1>5. ReorderPkt(t, q, "data", payload)
        = Result(Done(p.tbl, e.tbl.start_win),
                 f.out \o e.out \o p.out, <<>>, p.ok)
  BY <1>4 DEF ReorderPkt, f, e, p
<1>6. ReorderPkt(t, q, "bar", payload)
        = Result(Done(pb.tbl, eb.tbl.start_win),
                 f.out \o eb.out \o pb.out, <<>>, pb.ok)
  BY <1>4 DEF ReorderPkt, f, eb, pb
<1>7. p = Place(t, q, FALSE, payload) /\ pb = Place(t, q, TRUE, payload)
  BY <1>3 DEF p, pb
<1>8. /\ ReorderPkt(t, q, "data", payload).tbl = Done(p.tbl, t.start_win)
      /\ ReorderPkt(t, q, "data", payload).ok = p.ok
  BY <1>3, <1>5, ResultParts
<1>9. /\ ReorderPkt(t, q, "bar", payload).tbl = Done(pb.tbl, t.start_win)
      /\ ReorderPkt(t, q, "bar", payload).ok = pb.ok
  BY <1>3, <1>6, ResultParts
<1> QED
  BY <1>7, <1>8, <1>9

(* Every frame the host holds sits in the slot of its own number, whatever *)
(* the order of frames, requests, flushes, sleeps and agreements, and at   *)
(* every place of the wrap, and the 64 bit bitmap shows the slots in use:  *)
(* mlan_11n_rxreorder_pkt with its callees.  The second part needs a       *)
(* window the bitmap can hold.                                             *)
THEOREM SlotsStayPlaced ==
    ASSUME WinSize <= BitmapBits
    PROVE  Spec => []SlotsPlaced
<1>1. TableInv /\ TimerInv => SlotsPlaced
  <2> SUFFICES ASSUME TableInv, TimerInv PROVE SlotsPlaced
    OBVIOUS
  <2>1. ba # "none" => Fits(tbl, astart)
    BY DEF TableInv, Sound
  <2>2. tbl.bitmap = Occupied(tbl.rx_reorder_ptr)
    BY DEF TimerInv, Marked
  <2>3. ba # "none" => ((astart - tbl.start_win) % SeqSpace) = 0
    BY <2>1 DEF Fits, SameSeq
  <2> QED
    BY <2>1, <2>2, <2>3 DEF SlotsPlaced, InForce, Fits
<1>2. TableInv /\ TimerInv /\ [Next]_vars => (TableInv /\ TimerInv)'
  BY StepKept
<1> QED
  BY InitSound, <1>1, <1>2, PTL DEF Spec

(* The old test, the slide and the test of the slot refuse a frame the     *)
(* peer may send exactly when the window has passed it or holds it: no     *)
(* new frame is dropped as old and no old one is stored as new.            *)
THEOREM RefusalExact == Spec => []RefusesExactly
<1>1. TableInv => RefusesExactly
  <2> SUFFICES ASSUME TableInv, InForce, ~tbl.force_no_drop, ~tbl.flush_data,
                      NEW n \in base .. base + WinSize - 1
               PROVE  ReorderPkt(tbl, Seq12(n), "data", n).ok
                        <=> n >= astart /\ n \notin Held
    BY DEF RefusesExactly
  <2> DEFINE p == Place(tbl, Seq12(n), FALSE, n)
             m == base + WinSize
  <2>1. /\ base \in Nat /\ tbl \in Tables /\ astart \in Int /\ Sound(tbl, astart, base)
        /\ ~tbl.check_start_win
    BY DEF TableInv, InForce
  <2>2. /\ Fits(tbl, astart) /\ Below(tbl, astart, m)
        /\ m <= astart + HalfSpace /\ astart <= m
    BY <2>1 DEF Sound
  <2>3. /\ n \in Nat /\ m \in Int /\ n < m /\ -WinSize <= n - astart
        /\ n - astart < HalfSpace
    BY <2>1, <2>2, Space
  <2>4. ReorderPkt(tbl, Seq12(n), "data", n).ok = p.ok
    <3> HIDE DEF m
    <3> QED
      BY <2>1, PlainCall
  <2> HIDE DEF m
  <2>5. p.ok <=> /\ n >= astart
                 /\ n - astart \in SlotIndex => tbl.rx_reorder_ptr[n - astart] = Empty
    BY <2>2, <2>3, PlaceFrame
  <2>6. n \in Held <=> /\ n - astart \in SlotIndex
                       /\ tbl.rx_reorder_ptr[n - astart] # Empty
    <3>1. \A i \in SlotIndex : (n = astart + i) <=> (i = n - astart)
      BY <2>1, <2>3 DEF SlotIndex
    <3>2. n \in Held <=> \E i \in SlotIndex :
                           tbl.rx_reorder_ptr[i] # Empty /\ n = astart + i
      BY DEF Held, Occupied
    <3> QED
      BY <3>1, <3>2
  <2> QED
    BY <2>4, <2>5, <2>6
<1>2. TableInv /\ [Next]_vars => TableInv'
  BY StepKept
<1> QED
  BY InitSound, <1>1, <1>2, PTL DEF Spec

(* A frame that is held back always has the timer running, or a flush      *)
(* asked of its table and of the adapter: the code at label done, the      *)
(* force_no_drop branch, wlan_flush_data and wlan_flush_rxreorder_tbl.     *)
THEOREM HeldStaysTimed ==
    ASSUME WinSize <= BitmapBits
    PROVE  Spec => []HeldIsTimed
<1>1. TableInv /\ TimerInv => HeldIsTimed
  BY DEF TimerInv, Clocked, HeldIsTimed, IsEmpty, Occupied
<1>2. TableInv /\ TimerInv /\ [Next]_vars => (TableInv /\ TimerInv)'
  BY StepKept
<1> QED
  BY InitSound, <1>1, <1>2, PTL DEF Spec

(* A block ack request, which mlan_11n_rxreorder_pkt turns into the number *)
(* at the window's end, moves the window over no frame at or after the one *)
(* it names except frames that are held.                                   *)
THEOREM BarStops == Spec => BarStopsAtItsNumber
<1> DEFINE Stops == InForce /\ ~tbl.force_no_drop /\ ~tbl.flush_data
                    /\ astart' > astart /\ ReceiveBar
                    => \A n \in base .. astart' - 1 : n \in Held
<1>1. ASSUME TableInv PROVE Stops
  <2> SUFFICES ASSUME InForce, ~tbl.force_no_drop, ~tbl.flush_data,
                      astart' > astart, ReceiveBar
               PROVE  \A n \in base .. astart' - 1 : n \in Held
    OBVIOUS
  <2> DEFINE q == Seq12(base)
             p == Place(tbl, q, TRUE, base)
             r == ReorderPkt(tbl, q, "bar", base)
             m == base + WinSize
  <2>1. /\ base \in Nat /\ tbl \in Tables /\ astart \in Int /\ Sound(tbl, astart, base)
        /\ ~tbl.check_start_win /\ ba # "none"
    BY <1>1 DEF TableInv, InForce
  <2>2. /\ Fits(tbl, astart) /\ Below(tbl, astart, m)
        /\ m <= astart + HalfSpace /\ astart <= m
    BY <2>1 DEF Sound
  <2>3. m \in Int /\ -WinSize <= base - astart /\ base - astart < HalfSpace
    BY <2>1, <2>2, Space
  <2>4. r.tbl = Done(p.tbl, tbl.start_win)
    <3> HIDE DEF m, q
    <3> QED
      BY <2>1, PlainCall
  <2>5. \E b \in Int :
          /\ b <= m /\ Fits(p.tbl, b) /\ Below(p.tbl, b, m)
          /\ astart <= b
          /\ b > astart => \A x \in base .. b - 1 :
               x - astart \in SlotIndex /\ tbl.rx_reorder_ptr[x - astart] # Empty
    <3> HIDE DEF p
    <3>1. base + WinSize <= m
      BY <2>1, Space
    <3> HIDE DEF m
    <3> QED
      BY <2>1, <2>2, <2>3, <3>1, PlaceBar DEF p
  <2>6. PICK b \in Int :
          /\ b <= m /\ Fits(p.tbl, b)
          /\ astart <= b
          /\ b > astart => \A x \in base .. b - 1 :
               x - astart \in SlotIndex /\ tbl.rx_reorder_ptr[x - astart] # Empty
    BY <2>5
  <2>7. p.tbl \in Tables
    BY <2>6 DEF Fits
  <2>8. r.tbl.start_win = p.tbl.start_win
    <3> HIDE DEF p, r
    <3> QED
      BY <2>4, <2>7, DoneClocks
  <2>9. astart' = Near(r.tbl.start_win, astart + WinSize)
    <3>1. SetsAnew("bar") = FALSE
      BY DEF SetsAnew
    <3>2. Account(r, base, FALSE)
      BY <2>1, <3>1 DEF ReceiveBar, Receive
    <3> HIDE DEF r
    <3> QED
      BY <3>2 DEF Account
  <2> HIDE DEF p, r, q
  <2>10. Near(p.tbl.start_win, astart + WinSize) = b
    <3>1. /\ b \in (astart + WinSize) - HalfSpace .. (astart + WinSize) + HalfSpace - 1
          /\ astart + WinSize \in Int
      BY <2>1, <2>2, <2>6, Space
    <3> QED
      BY <2>6, <3>1, NearStart
  <2>11. astart' = b
    BY <2>8, <2>9, <2>10
  <2>12. ASSUME NEW x \in base .. b - 1 PROVE x \in Held
    <3>1. x - astart \in SlotIndex /\ tbl.rx_reorder_ptr[x - astart] # Empty
      BY <2>6, <2>11
    <3>2. x = astart + (x - astart)
      BY <2>1
    <3> QED
      BY <3>1, <3>2 DEF Held, Occupied
  <2> QED
    BY <2>11, <2>12
<1>2. TableInv /\ [Next]_vars => TableInv'
  BY StepKept
<1>3. TableInv /\ [Next]_vars => [Stops]_vars
  BY <1>1
<1> QED
  BY InitSound, <1>2, <1>3, PTL DEF Spec, BarStopsAtItsNumber
=============================================================================
