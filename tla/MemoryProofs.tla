----------------------------- MODULE MemoryProofs -----------------------------
(***************************************************************************)
(* Proof, for every memory map that satisfies MapAssumption and every       *)
(* access, of what the address decoding of the bus guarantees, and that its *)
(* bytes implement the array of words of WordMemory.                        *)
(***************************************************************************)
EXTENDS MemoryAccess, TLAPS

-----------------------------------------------------------------------------
(* Address decoding. *)

\* An aligned access that starts below a multiple of 4 ends below it.
LEMMA AlignedEndsBelow ==
  ASSUME NEW a \in Nat, NEW n \in Widths, Aligned(a, n),
         NEW bound \in Nat, bound % 4 = 0, a < bound
  PROVE  a + n <= bound
<1>1. CASE n = 1
  BY <1>1
<1>2. CASE n = 2
  BY <1>2 DEF Aligned
<1>3. CASE n = 4
  BY <1>3 DEF Aligned
<1> QED BY <1>1, <1>2, <1>3 DEF Widths

\* The routes an access can take when it reaches the emulator's own memory.
LEMMA MemoryReadRoute ==
  ASSUME NEW a \in Addresses, NEW n \in Widths, ReadRoute(a, n) = "memory"
  PROVE  Aligned(a, n) /\ Backed(a)
BY DEF ReadRoute

\* A write that reaches memory is aligned and outside the ROM.
LEMMA MemoryWriteRoute ==
  ASSUME NEW a \in Addresses, NEW n \in Widths, WriteRoute(a, n) = "memory"
  PROVE  Aligned(a, n) /\ InRam(a)
BY DEF WriteRoute, Backed

\* Although get_phys_ptr looks only at the first address of an access, all of
\* its bytes lie in the array it points into: the alignment test makes an access
\* unable to run past the end of the ROM or of the RAM.
THEOREM ReadsStayInside ==
  ASSUME NEW a \in Addresses, NEW n \in Widths, ReadRoute(a, n) = "memory"
  PROVE  \/ a + n <= RomSize
         \/ RamBase <= a /\ a + n <= RamBase + RamSize
<1>1. Aligned(a, n) /\ Backed(a) /\ a \in Nat
  BY MemoryReadRoute DEF Addresses
<1>2. CASE InRom(a)
  BY <1>1, <1>2, AlignedEndsBelow, MapAssumption DEF InRom
<1>3. CASE InRam(a)
  <2>1. RamBase + RamSize \in Nat /\ (RamBase + RamSize) % 4 = 0
    BY MapAssumption
  <2> QED BY <1>1, <1>3, <2>1, AlignedEndsBelow, MapAssumption DEF InRam
<1> QED BY <1>1, <1>2, <1>3 DEF Backed

\* A write that reaches memory stays inside the RAM: the ROM never changes.
THEOREM WritesStayInRam ==
  ASSUME NEW a \in Addresses, NEW n \in Widths, WriteRoute(a, n) = "memory"
  PROVE  RamBase <= a /\ a + n <= RamBase + RamSize
<1>1. Aligned(a, n) /\ InRam(a) /\ a \in Nat
  BY MemoryWriteRoute DEF Addresses
<1>2. RamBase + RamSize \in Nat /\ (RamBase + RamSize) % 4 = 0
  BY MapAssumption
<1> QED BY <1>1, <1>2, AlignedEndsBelow, MapAssumption DEF InRam

\* An address below the devices never reaches one, and an address of a device
\* is never backed by memory: the two halves of the map cannot be confused.
THEOREM DevicesAreApart ==
  ASSUME NEW a \in Addresses
  PROVE  DeviceAt(a) # NoDevice => ~Backed(a)
<1>1. DeviceAt(a) # NoDevice => a >= DevicesBase
  BY MapAssumption DEF DeviceAt, Addresses
<1> QED BY <1>1, MapAssumption DEF Backed, InRom, InRam, Addresses

-----------------------------------------------------------------------------
\* Places in memory hold bytes.
BytesAreBytes == garbage \in BitByte /\ \A c \in DOMAIN memory : memory[c] \in BitByte

-----------------------------------------------------------------------------
(* Addresses. *)

LEMMA DivideByFour ==
  ASSUME NEW a \in Nat
  PROVE  a = 4 * (a \div 4) + (a % 4) /\ a \div 4 \in Nat /\ a % 4 \in 0..3
OBVIOUS

LEMMA DivideByEight ==
  ASSUME NEW a \in Nat
  PROVE  a = 8 * (a \div 8) + (a % 8) /\ a \div 8 \in Nat /\ a % 8 \in 0..7
OBVIOUS

\* The place of an aligned access in its word.
LEMMA PlaceInWord ==
  ASSUME NEW a \in Nat, NEW n \in Widths, a % n = 0
  PROVE  /\ a = 4 * (a \div 4) + (a % 4) /\ a \div 4 \in Nat /\ a % 4 \in 0..3
         /\ (a % 4) + n <= 4
<1>1. a = 4 * (a \div 4) + (a % 4) /\ a \div 4 \in Nat /\ a % 4 \in 0..3
  BY DivideByFour
<1>2. CASE n = 1
  BY <1>1, <1>2
<1>3. CASE n = 2
  BY <1>1, <1>3
<1>4. CASE n = 4
  BY <1>1, <1>4
<1> QED BY <1>1, <1>2, <1>3, <1>4 DEF Widths

\* The regions are made of whole words.
LEMMA RegionWords ==
  ASSUME NEW a \in Nat
  PROVE  /\ InRom(a) <=> a \div 4 \in RomWords
         /\ InRam(a) <=> a \div 4 \in RamWords
<1> DEFINE w == a \div 4
           rom == RomSize \div 4
           low == RamBase \div 4
           top == (RamBase + RamSize) \div 4
<1>1. w \in Nat /\ 4 * w <= a /\ a < 4 * w + 4
  OBVIOUS
<1>2. rom \in Nat /\ RomSize = 4 * rom
  BY MapAssumption
<1>3. low \in Nat /\ RamBase = 4 * low
  BY MapAssumption
<1>4. top \in Nat /\ RamBase + RamSize = 4 * top
  <2>1. RamBase + RamSize \in Nat /\ (RamBase + RamSize) % 4 = 0
    BY MapAssumption
  <2> QED BY <2>1
<1> HIDE DEF w, rom, low, top
<1>5. a < RomSize <=> w \in 0..(rom - 1)
  BY <1>1, <1>2
<1>6. a >= RamBase /\ a < RamBase + RamSize <=> w \in low..(top - 1)
  BY <1>1, <1>3, <1>4
<1> QED BY <1>5, <1>6 DEF InRom, InRam, RomWords, RamWords, w, rom, low, top

\* A valid access of the array is one the bus sends to memory.
LEMMA ValidReads ==
  ASSUME NEW a \in Addresses, NEW n \in Widths
  PROVE  (a % n = 0 /\ a \div 4 \in RomWords \cup RamWords) <=> ReadRoute(a, n) = "memory"
<1>1. a \in Nat
  BY DEF Addresses
<1>2. Backed(a) <=> a \div 4 \in RomWords \cup RamWords
  BY <1>1, RegionWords DEF Backed
<1>3. Backed(a) => DeviceAt(a) \notin Readable
  BY DevicesAreApart DEF Readable, Devices, NoDevice
<1> QED BY <1>2, <1>3 DEF ReadRoute, Aligned

LEMMA ValidWrites ==
  ASSUME NEW a \in Addresses, NEW n \in Widths
  PROVE  (a % n = 0 /\ a \div 4 \in RamWords) <=> WriteRoute(a, n) = "memory"
<1>1. a \in Nat
  BY DEF Addresses
<1>2. InRam(a) <=> a \div 4 \in RamWords
  BY <1>1, RegionWords
<1>3. InRam(a) => ~InRom(a)
  BY <1>1, MapAssumption DEF InRam, InRom
<1>4. InRam(a) => DeviceAt(a) \notin Writable
  BY DevicesAreApart DEF Backed, Writable, Devices, NoDevice
<1> QED BY <1>2, <1>3, <1>4 DEF WriteRoute, Aligned, Backed

-----------------------------------------------------------------------------
(* Bytes and lanes. *)

LEMMA BytesFit ==
  ASSUME BytesAreBytes, NEW a
  PROVE  ByteAt(a) \subseteq 0..7
<1>1. BitByte = SUBSET (0..7)
  BY DEF BitByte, Bits, ByteBits
<1>2. ByteAt(a) \in BitByte
  BY <1>1 DEF BytesAreBytes, ByteAt
<1> QED BY <1>1, <1>2

\* The bits of the value of n bytes from an address.
LEMMA ValueBits ==
  ASSUME NEW a \in Nat, NEW n \in Widths, NEW x
  PROVE  x \in ValueAt(a, n) <=>
           \E k \in 0..(n - 1) : \E i \in ByteAt(a + k) : x = i + 8 * (n - 1 - k)
BY DEF ValueAt, Place, ByteBits

\* A value read is what the word has on the lanes of the access.
LEMMA LanesRead ==
  ASSUME BytesAreBytes, NEW a \in Nat, NEW n \in Widths, a % n = 0
  PROVE  ValueAt(a, n) = WordArray!Selected(ValueAt(4 * (a \div 4), 4), a, n)
<1> DEFINE w == a \div 4
           o == a % 4
           low == 32 - 8 * (o + n)
<1>1. a = 4 * w + o /\ w \in Nat /\ o \in 0..3 /\ o + n <= 4 /\ n \in 1..4
  BY PlaceInWord DEF Widths
<1> HIDE DEF w, o
<1>2. ASSUME NEW x
      PROVE  x \in ValueAt(a, n) <=> x + low \in ValueAt(4 * w, 4) /\ x \in 0..(8 * n - 1)
  <2>1. ASSUME x \in ValueAt(a, n)
        PROVE  x + low \in ValueAt(4 * w, 4) /\ x \in 0..(8 * n - 1)
    <3>1. PICK k \in 0..(n - 1) : \E i \in ByteAt(a + k) : x = i + 8 * (n - 1 - k)
      BY <2>1, ValueBits
    <3>0. PICK i \in ByteAt(a + k) : x = i + 8 * (n - 1 - k)
      BY <3>1
    <3>2. i \in 0..7
      BY BytesFit
    <3>3. o + k \in 0..3 /\ a + k = 4 * w + (o + k) /\ x + low = i + 8 * (4 - 1 - (o + k))
      BY <1>1, <3>0, <3>2
    <3>4. x \in 0..(8 * n - 1)
      BY <1>1, <3>0, <3>2
    <3>5. \E j \in 0..3 : \E b \in ByteAt(4 * w + j) : x + low = b + 8 * (4 - 1 - j)
      BY <3>0, <3>3
    <3> QED BY <1>1, <3>4, <3>5, ValueBits DEF Widths
  <2>2. ASSUME x + low \in ValueAt(4 * w, 4), x \in 0..(8 * n - 1)
        PROVE  x \in ValueAt(a, n)
    <3>1. PICK j \in 0..3 : \E i \in ByteAt(4 * w + j) : x + low = i + 8 * (4 - 1 - j)
      BY <1>1, <2>2, ValueBits DEF Widths
    <3>0. PICK i \in ByteAt(4 * w + j) : x + low = i + 8 * (4 - 1 - j)
      BY <3>1
    <3>2. i \in 0..7
      BY BytesFit
    <3>3. /\ j - o \in 0..(n - 1) /\ 4 * w + j = a + (j - o)
          /\ x = i + 8 * (n - 1 - (j - o))
      BY <1>1, <2>2, <3>0, <3>2
    <3> QED BY <3>0, <3>3, ValueBits
  <2> QED BY <2>1, <2>2
<1> DEFINE word == ValueAt(4 * w, 4)
           lanes == low..(low + 8 * n - 1)
<1>3. low \in Nat
  BY <1>1
<1> HIDE DEF low, word
<1>4. ASSUME NEW x \in ValueAt(a, n)
      PROVE  x \in {bit - low : bit \in word \cap lanes}
  <2>1. x + low \in word /\ x \in 0..(8 * n - 1)
    BY <1>2 DEF word
  <2>2. x + low \in lanes /\ x = (x + low) - low
    BY <1>1, <1>3, <2>1
  <2> QED BY <2>1, <2>2
<1>5. ASSUME NEW bit \in word \cap lanes
      PROVE  bit - low \in ValueAt(a, n)
  <2>1. bit - low \in 0..(8 * n - 1) /\ (bit - low) + low = bit
    BY <1>1, <1>3
  <2> QED BY <1>2, <2>1 DEF word
<1>6. ValueAt(a, n) = {bit - low : bit \in word \cap lanes}
  BY <1>4, <1>5
<1> QED BY <1>6 DEF WordArray!Selected, WordArray!LaneBits, WordArray!LowestBit, w, o, low, word

\* A store replaces the bytes of the access and no other.
LEMMA StoredBytes ==
  ASSUME NEW a \in Nat, NEW n \in Widths, NEW value, NEW c,
         memory' = Stored(a, value, n), garbage' = garbage
  PROVE  ByteAt(c)' = IF c \in a..(a + n - 1) THEN StoredByte(value, n, c - a) ELSE ByteAt(c)
BY DEF ByteAt, Stored, InRom

LEMMA StoredAreBytes ==
  ASSUME BytesAreBytes, NEW a \in Nat, NEW n \in Widths, NEW value,
         memory' = Stored(a, value, n), garbage' = garbage
  PROVE  BytesAreBytes'
<1>1. ASSUME NEW k PROVE StoredByte(value, n, k) \in BitByte
  BY DEF StoredByte, Field, BitByte, Bits
<1> QED BY <1>1 DEF BytesAreBytes, Stored

\* The word an access lies in, after it is stored.
LEMMA LanesWritten ==
  ASSUME BytesAreBytes, NEW a \in Nat, NEW n \in Widths, a % n = 0, NEW value,
         memory' = Stored(a, value, n), garbage' = garbage
  PROVE  ValueAt(4 * (a \div 4), 4)'
           = WordArray!Replaced(ValueAt(4 * (a \div 4), 4), value, a, n)
<1> DEFINE w == a \div 4
           o == a % 4
           low == 32 - 8 * (o + n)
           lanes == low..(low + 8 * n - 1)
           word == ValueAt(4 * w, 4)
           new == ValueAt(4 * w, 4)'
<1>1. a = 4 * w + o /\ w \in Nat /\ o \in 0..3 /\ o + n <= 4 /\ n \in 1..4
  BY PlaceInWord DEF Widths
<1> HIDE DEF w, o
<1>2. ASSUME NEW j \in 0..3, NEW i
      PROVE  /\ i \in ByteAt(4 * w + j) => i \in 0..7
             /\ i \in ByteAt(4 * w + j)' <=>
                  IF j - o \in 0..(n - 1)
                    THEN i \in 0..7 /\ i + 8 * (n - 1 - (j - o)) \in value
                    ELSE i \in ByteAt(4 * w + j)
  <2>1. 4 * w + j \in a..(a + n - 1) <=> j - o \in 0..(n - 1)
    BY <1>1
  <2>2. (4 * w + j) - a = j - o
    BY <1>1
  <2>3. ByteAt(4 * w + j)' = IF j - o \in 0..(n - 1) THEN StoredByte(value, n, j - o)
                                                       ELSE ByteAt(4 * w + j)
    BY <2>1, <2>2, StoredBytes
  <2>4. i \in StoredByte(value, n, j - o) <=> i \in 0..7 /\ i + 8 * (n - 1 - (j - o)) \in value
    BY DEF StoredByte, Field, Bits, ByteBits
  <2> QED BY <2>3, <2>4, BytesFit
<1>3. ASSUME NEW x
      PROVE  /\ x \in word <=> \E j \in 0..3 : \E i \in ByteAt(4 * w + j) : x = i + 8 * (3 - j)
             /\ x \in new <=> \E j \in 0..3 : \E i \in ByteAt(4 * w + j)' : x = i + 8 * (3 - j)
  <2>1. 4 * w \in Nat /\ 4 \in Widths
    BY <1>1 DEF Widths
  <2>2. \A j \in 0..3 : 4 - 1 - j = 3 - j
    OBVIOUS
  <2>3. x \in word <=> \E j \in 0..3 : \E i \in ByteAt(4 * w + j) : x = i + 8 * (3 - j)
    BY <2>1 DEF ValueAt, Place, ByteBits
  <2>4. x \in new <=> \E j \in 0..3 : \E i \in ByteAt(4 * w + j)' : x = i + 8 * (3 - j)
    BY <2>1 DEF ValueAt, Place, ByteBits
  <2> QED BY <2>3, <2>4
<1> HIDE DEF word, new
<1>4. low \in Nat
  BY <1>1
<1>5. ASSUME NEW j \in 0..3, NEW i \in 0..7
      PROVE  /\ j - o \in 0..(n - 1) <=> i + 8 * (3 - j) \in lanes
             /\ (i + 8 * (3 - j)) - low = i + 8 * (n - 1 - (j - o))
             /\ j - o \in 0..(n - 1) => i + 8 * (n - 1 - (j - o)) \in 0..(8 * n - 1)
  BY <1>1
<1> HIDE DEF low
<1>6. ASSUME NEW x \in new
      PROVE  x \in (word \ lanes) \cup {bit + low : bit \in value \cap 0..(8 * n - 1)}
  <2>1. PICK j \in 0..3 : \E i \in ByteAt(4 * w + j)' : x = i + 8 * (3 - j)
    BY <1>3
  <2>2. PICK i \in ByteAt(4 * w + j)' : x = i + 8 * (3 - j)
    BY <2>1
  <2>3. i \in 0..7
    BY <1>2
  <2>4. CASE j - o \in 0..(n - 1)
    <3>1. x - low \in value \cap 0..(8 * n - 1)
      BY <1>2, <1>5, <2>2, <2>3, <2>4
    <3>2. x = (x - low) + low
      BY <1>4, <2>2, <2>3
    <3> QED BY <3>1, <3>2
  <2>5. CASE j - o \notin 0..(n - 1)
    <3>1. x \in word
      BY <1>2, <1>3, <2>2, <2>5
    <3>2. x \notin lanes
      BY <1>5, <2>2, <2>3, <2>5
    <3> QED BY <3>1, <3>2
  <2> QED BY <2>4, <2>5
<1>7. ASSUME NEW x \in word, x \notin lanes
      PROVE  x \in new
  <2>1. PICK j \in 0..3 : \E i \in ByteAt(4 * w + j) : x = i + 8 * (3 - j)
    BY <1>3
  <2>2. PICK i \in ByteAt(4 * w + j) : x = i + 8 * (3 - j)
    BY <2>1
  <2>3. i \in 0..7
    BY <1>2
  <2>4. i \in ByteAt(4 * w + j)'
    BY <1>2, <1>5, <1>7, <2>2, <2>3
  <2> QED BY <1>3, <2>2, <2>4
<1>8. ASSUME NEW bit \in value \cap 0..(8 * n - 1)
      PROVE  bit + low \in new
  <2> DEFINE k == (n - 1) - (bit \div 8)
             i == bit % 8
             j == o + k
  <2>1. /\ bit \in Nat /\ bit < 8 * n
        /\ bit = 8 * (bit \div 8) + i /\ i \in 0..7 /\ bit \div 8 \in Nat
    BY <1>1, DivideByEight
  <2>2. k \in 0..(n - 1)
    BY <1>1, <2>1
  <2>3. bit = i + 8 * (n - 1 - k)
    BY <1>1, <2>1
  <2> HIDE DEF i, k
  <2>4. j \in 0..3 /\ j - o = k /\ j - o \in 0..(n - 1) /\ i \in 0..7
    BY <1>1, <2>1, <2>2
  <2>5. i \in ByteAt(4 * w + j)'
    BY <1>2, <2>3, <2>4
  <2>6. bit + low = i + 8 * (3 - j)
    <3>1. (i + 8 * (3 - j)) - low = bit
      BY <1>5, <2>3, <2>4
    <3> QED BY <1>4, <2>1, <2>4, <3>1
  <2> QED BY <1>3, <2>4, <2>5, <2>6
<1>9. new = (word \ lanes) \cup {bit + low : bit \in value \cap 0..(8 * n - 1)}
  BY <1>6, <1>7, <1>8
<1> QED BY <1>9 DEF WordArray!Replaced, WordArray!LaneBits, WordArray!LowestBit, w, o, low, word, new

\* The other words.
LEMMA OtherWords ==
  ASSUME NEW a \in Nat, NEW n \in Widths, a % n = 0, NEW value, NEW u \in Nat, u # a \div 4,
         memory' = Stored(a, value, n), garbage' = garbage
  PROVE  ValueAt(4 * u, 4)' = ValueAt(4 * u, 4)
<1> DEFINE w == a \div 4
           o == a % 4
<1>1. a = 4 * w + o /\ w \in Nat /\ o \in 0..3 /\ o + n <= 4 /\ n \in 1..4 /\ u # w
  BY PlaceInWord DEF Widths
<1> HIDE DEF w, o
<1>2. ASSUME NEW k \in 0..3 PROVE ByteAt(4 * u + k)' = ByteAt(4 * u + k)
  <2>1. 4 * u + k \notin a..(a + n - 1)
    BY <1>1
  <2> QED BY <2>1, StoredBytes
<1> QED BY <1>2 DEF ValueAt

-----------------------------------------------------------------------------
(* The refinement. *)

LEMMA MemoryWordNumbers ==
  MemoryWords = RomWords \cup RamWords /\ MemoryWords \subseteq Nat
BY MapAssumption DEF MemoryWords, RomWords, RamWords

LEMMA SameBytesSameView ==
  ASSUME memory' = memory, garbage' = garbage
  PROVE  View' = View /\ (BytesAreBytes => BytesAreBytes')
<1>1. \A c : ByteAt(c)' = ByteAt(c)
  BY DEF ByteAt, InRom
<1>2. \A w : ValueAt(4 * w, 4)' = ValueAt(4 * w, 4)
  BY <1>1 DEF ValueAt
<1> QED BY <1>2 DEF View, MemoryWords, BytesAreBytes

LEMMA SameArray ==
  ASSUME NEW a, NEW n, NEW value
  PROVE  /\ WordArray!LoadStep(a, n, value)  => AnyAccess!LoadStep(a, n, value)
         /\ WordArray!StoreStep(a, n, value) => AnyAccess!StoreStep(a, n, value)
BY DEF WordArray!LoadStep, AnyAccess!LoadStep, WordArray!StoreStep, AnyAccess!StoreStep,
   WordArray!Valid, AnyAccess!Valid, WordArray!Selected, AnyAccess!Selected,
   WordArray!Replaced, AnyAccess!Replaced, WordArray!LaneBits, AnyAccess!LaneBits,
   WordArray!LowestBit, AnyAccess!LowestBit

LEMMA InitIsWords == AccessInit => BytesAreBytes /\ AnyAccess!WordInit
<1> SUFFICES ASSUME AccessInit PROVE BytesAreBytes /\ AnyAccess!WordInit
  OBVIOUS
<1>1. BytesAreBytes
  <2>1. garbage \in BitByte
    BY GarbageAssumption DEF AccessInit
  <2>2. ASSUME NEW c \in DOMAIN memory PROVE memory[c] \in BitByte
    <3>1. Len(RomImage) \in Nat /\ c \in 0..(Len(RomImage) - 1) /\ memory[c] = RomImage[c + 1]
      BY MemoryAccessAssumption DEF AccessInit
    <3> QED BY <3>1, MemoryAccessAssumption
  <2> QED BY <2>1, <2>2 DEF BytesAreBytes
<1>2. ASSUME NEW w \in MemoryWords PROVE View[w] \subseteq 0..31
  <2>1. View[w] = ValueAt(4 * w, 4) /\ w \in Nat
    BY MemoryWordNumbers DEF View
  <2>2. ASSUME NEW x \in ValueAt(4 * w, 4) PROVE x \in 0..31
    <3>1. PICK k \in 0..3 : \E i \in ByteAt(4 * w + k) : x = i + 8 * (3 - k)
      BY <2>2 DEF ValueAt, Place, ByteBits
    <3>2. PICK i \in ByteAt(4 * w + k) : x = i + 8 * (3 - k)
      BY <3>1
    <3>3. i \in 0..7
      BY <1>1, BytesFit
    <3> QED BY <3>2, <3>3
  <2> QED BY <2>1, <2>2
<1> QED BY <1>1, <1>2, MemoryWordNumbers DEF AnyAccess!WordInit, View, MemoryWords

LEMMA ReadIsLoad ==
  ASSUME BytesAreBytes, NEW a \in Addresses, NEW n \in Widths,
         memory' = memory, garbage' = garbage
  PROVE  BytesAreBytes' /\ WordArray!LoadStep(a, n, ReadValue(a, n))
<1>1. a \in Nat
  BY DEF Addresses
<1>3. View' = View /\ BytesAreBytes'
  BY SameBytesSameView
<1>4. WordArray!Valid(a, n) <=> ReadRoute(a, n) = "memory"
  BY ValidReads DEF WordArray!Valid, RomWords, RamWords
<1>5. ASSUME WordArray!Valid(a, n)
      PROVE  ReadValue(a, n) = WordArray!Selected(View[a \div 4], a, n)
  <2>1. ReadValue(a, n) = ValueAt(a, n)
    BY <1>4, <1>5 DEF ReadValue
  <2>2. a % n = 0 /\ a \div 4 \in MemoryWords
    BY <1>5, MemoryWordNumbers DEF WordArray!Valid, RomWords, RamWords
  <2> QED BY <1>1, <2>1, <2>2, LanesRead DEF View
<1>6. ASSUME ~WordArray!Valid(a, n),
             a \notin Answering \/ a % n # 0
      PROVE  ReadValue(a, n) = {}
  <2>1. ReadRoute(a, n) = "error"
    BY <1>4, <1>6 DEF ReadRoute, Aligned, Answering
  <2> QED BY <2>1 DEF ReadValue
<1>7. WordArray!LoadStep(a, n, ReadValue(a, n))
  BY <1>3, <1>5, <1>6 DEF WordArray!LoadStep
<1> QED BY <1>3, <1>7

LEMMA WriteIsStore ==
  ASSUME BytesAreBytes, NEW a \in Addresses, NEW n \in Widths, NEW value,
         memory' = IF WriteRoute(a, n) = "memory" THEN Stored(a, value, n) ELSE memory,
         garbage' = garbage
  PROVE  BytesAreBytes' /\ WordArray!StoreStep(a, n, value)
<1>1. a \in Nat
  BY DEF Addresses
<1>2. (WordArray!Valid(a, n) /\ a \div 4 \in RamWords) <=> WriteRoute(a, n) = "memory"
  BY ValidWrites DEF WordArray!Valid, RomWords, RamWords
<1>4. CASE WriteRoute(a, n) = "memory"
  <2> DEFINE w == a \div 4
  <2>1. memory' = Stored(a, value, n)
    BY <1>4
  <2>2. BytesAreBytes'
    BY <1>1, <2>1, StoredAreBytes
  <2>3. a % n = 0 /\ w \in RamWords /\ w \in MemoryWords
    BY <1>4, ValidWrites, MemoryWordNumbers
  <2>4. View'[w] = WordArray!Replaced(View[w], value, a, n)
    BY <1>1, <2>1, <2>3, LanesWritten DEF View, MemoryWords
  <2>5. ASSUME NEW u \in MemoryWords, u # w PROVE View'[u] = View[u]
    BY <1>1, <2>1, <2>3, <2>5, OtherWords, MemoryWordNumbers DEF View, MemoryWords
  <2> HIDE DEF w
  <2>6. View' = [View EXCEPT ![w] = WordArray!Replaced(View[w], value, a, n)]
    <3>1. View' = [u \in MemoryWords |-> View'[u]] /\ View = [u \in MemoryWords |-> View[u]]
      BY DEF View, MemoryWords
    <3> HIDE DEF View
    <3> QED BY <2>4, <2>5, <3>1
  <2>7. WordArray!StoreStep(a, n, value)
    BY <1>2, <1>4, <2>3, <2>6 DEF WordArray!StoreStep, w
  <2> QED BY <2>2, <2>7
<1>5. CASE WriteRoute(a, n) # "memory"
  <2>1. memory' = memory
    BY <1>5
  <2>2. View' = View /\ BytesAreBytes'
    BY <2>1, SameBytesSameView
  <2>3. WordArray!StoreStep(a, n, value)
    BY <1>2, <1>5, <2>2 DEF WordArray!StoreStep
  <2> QED BY <2>2, <2>3
<1> QED BY <1>4, <1>5

\* An access is a step of the array.
LEMMA AccessIsStep ==
  ASSUME BytesAreBytes, AccessNext
  PROVE  BytesAreBytes' /\ AnyAccess!WordNext
<1>1. PICK a \in AccessedAddresses, n \in Widths :
        Read(a, n) \/ \E value \in StoredValues : Write(a, n, value)
  BY DEF AccessNext
<1>2. a \in Addresses
  BY MemoryAccessAssumption
<1>3. CASE Read(a, n)
  <2>1. access' = [kind |-> "load", address |-> a, width |-> n, value |-> ReadValue(a, n)]
    BY <1>3 DEF Read
  <2>2. access'.kind = "load" /\ access'.address = a /\ access'.width = n
        /\ access'.value = ReadValue(a, n)
    BY <2>1
  <2>3. BytesAreBytes' /\ WordArray!LoadStep(a, n, ReadValue(a, n))
    BY <1>2, <1>3, ReadIsLoad DEF Read, dataVars
  <2>4. AnyAccess!LoadStep(a, n, ReadValue(a, n))
    BY <2>3, SameArray
  <2> QED BY <2>2, <2>3, <2>4 DEF AnyAccess!WordNext
<1>4. ASSUME NEW value \in StoredValues, Write(a, n, value)
      PROVE  BytesAreBytes' /\ AnyAccess!WordNext
  <2>1. access' = [kind |-> "store", address |-> a, width |-> n, value |-> value]
    BY <1>4 DEF Write
  <2>2. access'.kind = "store" /\ access'.address = a /\ access'.width = n
        /\ access'.value = value
    BY <2>1
  <2>3. BytesAreBytes' /\ WordArray!StoreStep(a, n, value)
    BY <1>2, <1>4, WriteIsStore DEF Write, BusStore
  <2>4. AnyAccess!StoreStep(a, n, value)
    BY <2>3, SameArray
  <2> QED BY <2>2, <2>3, <2>4 DEF AnyAccess!WordNext
<1> QED BY <1>1, <1>3, <1>4

\* For every memory map, loads and stores in any order are those of an array of
\* words with byte lanes, as docs/architecture/Memory.md promises: the bounds
\* test of get_phys_ptr, which looks at the first byte only, is enough.
THEOREM MemoryIsWords == AccessSpec => ImplementsWordMemory
<1>1. AccessInit => BytesAreBytes /\ AnyAccess!WordInit
  BY InitIsWords
<1>2. BytesAreBytes /\ [AccessNext]_accessVars
        => BytesAreBytes' /\ [AnyAccess!WordNext]_<<View, access>>
  <2> SUFFICES ASSUME BytesAreBytes, [AccessNext]_accessVars
               PROVE  BytesAreBytes' /\ [AnyAccess!WordNext]_<<View, access>>
    OBVIOUS
  <2>1. CASE AccessNext
    BY <2>1, AccessIsStep
  <2>2. CASE UNCHANGED accessVars
    BY <2>2, SameBytesSameView DEF accessVars, dataVars
  <2> QED BY <2>1, <2>2
<1> QED BY <1>1, <1>2, PTL DEF AccessSpec, ImplementsWordMemory, AnyAccess!WordSpec, View
=============================================================================
