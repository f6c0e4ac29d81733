------------------------- MODULE LiteSequenceProofs -------------------------
(***************************************************************************)
(* What holds of sequence generators for any integer width, any sessions   *)
(* and definitions, and beyond the first overflow.  The inductive          *)
(* invariant speaks of every image a power failure may bring back, and of  *)
(* what each session still holds in its block, or has read and not put.    *)
(***************************************************************************)
EXTENDS LiteSequence, LiteFacts, TLAPS

\* MINVALUE and START WITH never change, so every copy of the definition has
\* the same; an ALTER in progress has the counter it saw unless it resets it.
SameBase(d) == d.min = db.def.min /\ d.start = db.def.start

AlterInv ==
  /\ \A i \in DOMAIN images : SameBase(images[i].def)
  /\ \A s \in Sessions : SameBase(plan[s])
  /\ \A s \in Sessions : fetching[s] # None => SameBase(fetching[s].def)
  /\ alter # None =>
       /\ SameBase(alter.def)
       /\ alter.next = IF alter.reset THEN alter.def.start ELSE alter.seen

\* The storage mutex: one allocation at a time.
MutexInv ==
  \A s, u \in Sessions : fetching[s] # None /\ fetching[u] # None => s = u

\* The ghosts bound every definition that is stored, read or compiled.
Bounded(d) == Ceiling(d) <= top /\ d.inc <= wide

TopInv ==
  /\ \A i \in DOMAIN images : Bounded(images[i].def)
  /\ \A s \in Sessions : fetching[s] # None => Bounded(fetching[s].def)
  /\ \A s \in Sessions : plan[s].inc <= wide

\* While no sum can wrap: counters, rows and blocks of every image, the ones
\* a power failure may bring back too, are in range.
InRange(image) ==
  /\ image.def.min <= image.next /\ image.next <= top + wide
  /\ \A v \in image.rows : image.def.min <= v /\ v <= top

RangeInv ==
  top + wide <= MaxInt =>
    /\ \A i \in DOMAIN images : InRange(images[i])
    /\ \A s \in Sessions : fetching[s] # None => db.def.min <= fetching[s].next
    /\ \A s \in Sessions : ~cache[s].fetch =>
         /\ db.def.min <= cache[s].curr
         /\ cache[s].curr <= cache[s].end /\ cache[s].end <= top
    /\ alter # None /\ ~alter.reset =>
         db.def.min <= alter.next /\ alter.next <= top + wide

\* While there is no excuse: the rows of every image are below its counter,
\* and what a session still holds is below the counter, apart from the
\* others' and in no row.
Below(image) ==
  /\ image.def.min <= image.next
  /\ \A v \in image.rows : v < image.next

Holds(s) ==
  /\ cache[s].curr <= cache[s].end /\ cache[s].end < db.next
  /\ \A v \in db.rows : v <= cache[s].curr \/ cache[s].end < v
  /\ \A u \in Sessions \ {s} : ~cache[u].fetch =>
       cache[s].end < cache[u].curr \/ cache[u].end < cache[s].curr

UniqueInv ==
  excuse = {} =>
    /\ ~clash
    /\ \A i \in DOMAIN images : Below(images[i])
    /\ \A s \in Sessions : fetching[s] # None => fetching[s].next = db.next
    /\ \A s \in Sessions : ~cache[s].fetch => Holds(s)

IInv == TypeOK /\ AlterInv /\ MutexInv /\ TopInv /\ RangeInv /\ UniqueInv
-----------------------------------------------------------------------------
(***************************************************************************)
(* Arithmetic of wrapping integers.                                        *)
(***************************************************************************)
LEMMA ModRange ==
  ASSUME NEW a \in Int, NEW m \in Nat \ {0} PROVE a % m \in 0..(m - 1)
OBVIOUS

LEMMA ModSmall ==
  ASSUME NEW m \in Nat \ {0}, NEW a \in 0..(m - 1) PROVE a % m = a
OBVIOUS

LEMMA ModOver ==
  ASSUME NEW m \in Nat \ {0}, NEW a \in m..(2 * m - 1) PROVE a % m = a - m
OBVIOUS

\* A quotient never exceeds the exact one.
LEMMA DivFacts ==
  ASSUME NEW a \in Nat, NEW b \in Nat \ {0}
  PROVE  a \div b \in Nat /\ (a \div b) * b <= a /\ a \div b <= a
OBVIOUS

LEMMA TimesMonotone ==
  ASSUME NEW a \in Nat, NEW b \in Nat, NEW c \in Nat, a <= b
  PROVE  a * c \in Nat /\ a * c <= b * c
OBVIOUS

LEMMA SumMonotone ==
  ASSUME NEW a \in Int, NEW b \in Int, NEW c \in Int, NEW d \in Int, NEW m \in Int,
         a <= c, b <= d, c + d <= m
  PROVE  a + b <= c + d /\ a + b <= m
OBVIOUS

\* A sum that fits is itself, one beyond MaxInt is negative.
LEMMA WrapFacts ==
  ASSUME NEW x \in Int
  PROVE  /\ Wrap(x) \in Int64
         /\ x \in Int64 => Wrap(x) = x
         /\ x > MaxInt /\ x <= 2 * MaxInt => Wrap(x) = x - Modulus /\ Wrap(x) < 0
<1>1. MaxInt \in Nat /\ Modulus \in Nat \ {0} /\ Modulus = 2 * (MaxInt + 1)
  BY SequenceAssumption DEF Modulus
<1>2. Wrap(x) \in Int64
  BY <1>1, ModRange DEF Wrap, Int64
<1>3. x \in Int64 => Wrap(x) = x
  BY <1>1, ModSmall DEF Wrap, Int64
<1>4. x > MaxInt /\ x <= 2 * MaxInt => Wrap(x) = x - Modulus
  BY <1>1, ModOver DEF Wrap
<1>. QED  BY <1>1, <1>2, <1>3, <1>4

LEMMA PairFacts ==
  ASSUME NEW a \in Int, NEW b \in Int
  PROVE  /\ Max({a, b}) \in {a, b} /\ Max({a, b}) >= a /\ Max({a, b}) >= b
         /\ Min({a, b}) \in {a, b} /\ Min({a, b}) <= a /\ Min({a, b}) <= b
<1>1. \E x \in {a, b} : \A y \in {a, b} : x >= y
  OBVIOUS
<1>2. Max({a, b}) \in {a, b} /\ \A y \in {a, b} : Max({a, b}) >= y
  BY <1>1 DEF Max
<1>3. \E x \in {a, b} : \A y \in {a, b} : x <= y
  OBVIOUS
<1>4. Min({a, b}) \in {a, b} /\ \A y \in {a, b} : Min({a, b}) <= y
  BY <1>3 DEF Min
<1>. QED  BY <1>2, <1>4

\* What the catalog and the compiled statements may hold.
LEMMA StoredFacts ==
  ASSUME NEW d \in Definition
  PROVE  /\ d.min \in Int64 /\ d.max \in Int64 /\ d.start \in Int64 /\ d.inc \in Int64
         /\ d.min \in Int /\ d.max \in Int /\ d.start \in Int /\ d.inc \in Int /\ d.cache \in Int
         /\ 0 < d.min /\ d.min <= d.start /\ 1 <= d.inc /\ d.inc < MaxInt
         /\ d.max # 0 => d.min < d.max /\ d.start <= d.max /\ d.max < MaxInt
         /\ Ceiling(d) \in Int64 /\ Ceiling(d) \in Int
         /\ Ceiling(d) < MaxInt => d.max # 0 /\ Ceiling(d) = d.max
<1>1. MaxInt \in Nat
  BY SequenceAssumption
<1>2. d \in Attributes /\ Storable(d)
  BY DEF Definition
<1>3. (\A x \in Int64 : x \in Int) /\ MaxInt \in Int64
  BY <1>1 DEF Int64
<1>4. /\ d.min \in Int64 /\ d.max \in Int64 /\ d.start \in Int64 /\ d.inc \in Int64
      /\ d.cache \in Int64
  BY <1>2 DEF Attributes
<1>5. Ceiling(d) = IF d.max = 0 THEN MaxInt ELSE d.max
  BY DEF Ceiling
<1>6. /\ d.min \in Int /\ d.max \in Int /\ d.start \in Int /\ d.inc \in Int /\ d.cache \in Int
  BY <1>3, <1>4
<1>7. /\ 0 < d.min /\ d.min <= d.start /\ 1 <= d.inc /\ d.inc < MaxInt
      /\ d.max # 0 => d.min < d.max /\ d.start <= d.max /\ d.max < MaxInt
  BY <1>1, <1>2, <1>6 DEF Storable
<1>8. /\ Ceiling(d) \in Int64 /\ Ceiling(d) \in Int
      /\ Ceiling(d) < MaxInt => d.max # 0 /\ Ceiling(d) = d.max
  BY <1>1, <1>3, <1>4, <1>5, <1>6, <1>7
<1>. QED  BY <1>4, <1>6, <1>7, <1>8

\* What CREATE SEQUENCE defines.
LEMMA CreatedFacts ==
  ASSUME NEW d \in Definitions
  PROVE  d \in Definition /\ d.max # 0 /\ d.start <= d.max /\ Ceiling(d) = d.max
<1>1. MaxInt \in Nat /\ d \in Attributes /\ Legal(d)
  BY SequenceAssumption
<1>2. /\ d.min \in Int /\ d.max \in Int /\ d.start \in Int /\ d.inc \in Int /\ d.cache \in Int
  BY <1>1 DEF Attributes, Int64
<1>3. /\ 0 < d.min /\ d.min < d.max /\ d.max < MaxInt
      /\ d.min <= d.start /\ d.start <= d.max
      /\ 1 <= d.inc /\ d.inc <= d.max - d.min
      /\ d.cache # 0 => d.cache >= 2
  <2>1. RangeOfVals(d) \in Int \/ d.cache = 0 \/ d.cache \in 2..RangeOfVals(d)
    BY <1>1 DEF Legal
  <2>. QED  BY <1>1, <1>2 DEF Legal, InBounds
<1>4. Storable(d)
  BY <1>1, <1>2, <1>3 DEF Storable
<1>. QED  BY <1>1, <1>2, <1>3, <1>4 DEF Definition, Ceiling

\* The current image.
LEMMA DbFacts ==
  ASSUME TypeOK
  PROVE  /\ db \in Image /\ db.def \in Definition /\ db.next \in Int64 /\ db.next \in Int
         /\ db.rows \in SUBSET Int64 /\ db.calls \in Nat /\ db.live \in BOOLEAN
         /\ MaxInt \in Nat /\ \A x \in Int64 : x \in Int
         /\ \E i \in DOMAIN images : db = images[i]
         /\ \A i \in DOMAIN images : images[i] \in Image
<1>1. images \in Seq(Image) /\ images # <<>>
  BY DEF TypeOK
<1>2. Len(images) \in DOMAIN images /\ \A i \in DOMAIN images : images[i] \in Image
  BY <1>1
<1>3. db = images[Len(images)]
  BY DEF db, Last
<1>4. MaxInt \in Nat /\ \A x \in Int64 : x \in Int
  BY SequenceAssumption DEF Int64
<1>5. db \in Image
  BY <1>2, <1>3
<1>. QED  BY <1>2, <1>3, <1>4, <1>5 DEF Image
-----------------------------------------------------------------------------
(***************************************************************************)
(* Lists of images.                                                        *)
(***************************************************************************)
LEMMA LaterFacts ==
  ASSUME NEW list \in Seq(Image), list # <<>>, NEW image \in Image
  PROVE  /\ Later(list, image) \in Seq(Image)
         /\ Later(list, image) # <<>>
         /\ Last(Later(list, image)) = image
         /\ \A j \in DOMAIN Later(list, image) :
              \/ Later(list, image)[j] = image
              \/ \E i \in DOMAIN list : Later(list, image)[j] = list[i]
<1>. DEFINE all == Append(list, image)
<1>1. /\ all \in Seq(Image) /\ Len(list) \in Nat /\ Len(all) = Len(list) + 1
      /\ DOMAIN list = 1..Len(list)
      /\ \A i \in DOMAIN list : all[i] = list[i]
      /\ all[Len(list) + 1] = image
  BY AppendFacts
<1>2. Len(list) >= 1
  BY <1>1
<1>. HIDE DEF all
<1>3. \A i \in 1..Len(all) : all[i] = image \/ \E j \in DOMAIN list : all[i] = list[j]
  <2>. SUFFICES ASSUME NEW i \in 1..Len(all), i # Len(list) + 1
                PROVE  i \in DOMAIN list
    BY <1>1
  <2>. QED  BY <1>1
<1>4. CASE Len(all) > MaxUnsynced
  <2>1. Later(list, image) = Tail(all)
    BY <1>4 DEF Later, all
  <2>2. /\ Tail(all) \in Seq(Image) /\ Len(Tail(all)) = Len(list)
        /\ DOMAIN Tail(all) = 1..Len(list)
        /\ \A i \in 1..Len(list) : Tail(all)[i] = all[i + 1]
    BY <1>1, <1>2
  <2>3. \A i \in 1..Len(list) : i + 1 \in 1..Len(all)
    BY <1>1
  <2>4. Tail(all) # <<>> /\ Last(Tail(all)) = image
    BY <1>1, <1>2, <2>2 DEF Last
  <2>. QED  BY <1>3, <2>1, <2>2, <2>3, <2>4
<1>5. CASE ~(Len(all) > MaxUnsynced)
  <2>1. Later(list, image) = all
    BY <1>5 DEF Later, all
  <2>2. all # <<>> /\ Last(all) = image /\ DOMAIN all = 1..Len(all)
    BY <1>1, <1>2 DEF Last
  <2>. QED  BY <1>1, <1>3, <2>1, <2>2
<1>. QED  BY <1>4, <1>5

\* The row that takes a value.
WithValue(image, v) == [image EXCEPT !.rows = @ \cup {v}]

LEMMA WithValueFacts ==
  ASSUME NEW image \in Image, NEW v \in Int64
  PROVE  /\ WithValue(image, v) \in Image
         /\ WithValue(image, v).def = image.def
         /\ WithValue(image, v).next = image.next
         /\ WithValue(image, v).rows = image.rows \cup {v}
BY DEF WithValue, Image

LEMMA WithRowFacts ==
  ASSUME NEW list \in Seq(Image), list # <<>>, NEW v \in Int64, NEW fate \in Fates
  PROVE  /\ WithRow(list, v, fate) \in Seq(Image)
         /\ WithRow(list, v, fate) # <<>>
         /\ Last(WithRow(list, v, fate)) \in {Last(list), WithValue(Last(list), v)}
         /\ \A j \in DOMAIN WithRow(list, v, fate) :
              \/ WithRow(list, v, fate)[j] = WithValue(Last(list), v)
              \/ \E i \in DOMAIN list : WithRow(list, v, fate)[j] = list[i]
<1>. DEFINE image == WithValue(Last(list), v)
<1>1. Last(list) \in Image
  BY DEF Last
<1>2. image \in Image
  BY <1>1, WithValueFacts
<1>3. WithRow(list, v, fate) = CASE fate = "discarded" -> list
                                 [] fate = "written"   -> Later(list, image)
                                 [] fate = "synced"    -> <<image>>
  BY DEF WithRow, WithValue
<1>. HIDE DEF image
<1>4. CASE fate = "discarded"
  <2>1. WithRow(list, v, fate) = list
    BY <1>3, <1>4
  <2>. QED  BY <2>1
<1>5. CASE fate = "written"
  <2>1. WithRow(list, v, fate) = Later(list, image)
    BY <1>3, <1>5
  <2>. QED  BY <1>2, <2>1, LaterFacts DEF image
<1>6. CASE fate = "synced"
  <2>1. WithRow(list, v, fate) = <<image>>
    BY <1>3, <1>6
  <2>2. <<image>> \in Seq(Image) /\ <<image>> # <<>> /\ Last(<<image>>) = image
        /\ \A j \in DOMAIN <<image>> : <<image>>[j] = image
    BY <1>2 DEF Last
  <2>. QED  BY <2>1, <2>2 DEF image
<1>. QED  BY <1>4, <1>5, <1>6 DEF Fates
-----------------------------------------------------------------------------
(***************************************************************************)
(* allocateSequence.                                                       *)
(***************************************************************************)

\* Whatever the record holds, the block is made of integers of the width.
LEMMA BlockTyped ==
  ASSUME NEW rec, rec.def \in Definition, rec.next \in Int64, NEW requested \in Nat
  PROVE  /\ Block(rec, requested).first \in Int64
         /\ Block(rec, requested).last \in Int64
         /\ Block(rec, requested).next \in Int64
<1>. DEFINE first == IF rec.next > rec.def.max THEN rec.def.min ELSE rec.next
            avail == Unsigned(Quotient(Wrap(rec.def.max - first), rec.def.inc) + 1)
            count == Min({requested, avail})
            last  == Wrap(first + (count - 1) * rec.def.inc)
<1>1. /\ rec.def \in Definition /\ rec.next \in Int64
      /\ MaxInt \in Nat /\ \A x \in Int64 : x \in Int
  BY SequenceAssumption DEF Int64
<1>2. /\ rec.def.min \in Int64 /\ rec.def.max \in Int /\ rec.def.inc \in Nat \ {0}
  BY <1>1, StoredFacts
<1>3. first \in Int64 /\ first \in Int
  BY <1>1, <1>2
<1>4. avail \in Int
  <2>1. Wrap(rec.def.max - first) \in Int
    BY <1>1, <1>2, <1>3, WrapFacts
  <2>2. ASSUME NEW a \in Int PROVE Quotient(a, rec.def.inc) \in Int
    BY <1>2 DEF Quotient
  <2>3. Modulus \in Nat \ {0}
    BY <1>1 DEF Modulus
  <2>4. ASSUME NEW a \in Int PROVE Unsigned(a + 1) \in Int
    BY <2>3, ModRange DEF Unsigned
  <2>. QED  BY <2>1, <2>2, <2>4
<1>5. count \in Int
  <2>. HIDE DEF avail
  <2>1. requested \in Int /\ avail \in Int
    BY <1>4
  <2>2. count \in {requested, avail}
    BY <2>1, PairFacts
  <2>. HIDE DEF count
  <2>. QED  BY <2>1, <2>2
<1>6. (count - 1) * rec.def.inc \in Int
  <2>. HIDE DEF count
  <2>. QED  BY <1>2, <1>5
<1>7. last \in Int64
  <2>. HIDE DEF count, first
  <2>. QED  BY <1>3, <1>6, WrapFacts
<1>8. Wrap(last + rec.def.inc) \in Int64
  <2>. HIDE DEF last
  <2>. QED  BY <1>1, <1>2, <1>7, WrapFacts
<1>9. Block(rec, requested) = [first |-> first, last |-> last, next |-> Wrap(last + rec.def.inc)]
  BY DEF Block
<1>. HIDE DEF first, last
<1>. QED  BY <1>3, <1>7, <1>8, <1>9

\* From a counter not below MINVALUE, unless NO MAXVALUE was stored: the block lies between MINVALUE and
\* MAXVALUE, and the counter moves beyond it or wraps to a negative number.
LEMMA BlockFacts ==
  ASSUME NEW rec, rec.def \in Definition, rec.next \in Int64,
         NEW requested \in Nat \ {0}, rec.def.min <= rec.next, rec.def.max # 0
  PROVE  LET b == Block(rec, requested)
             d == rec.def
         IN  /\ d.min <= b.first /\ b.first <= b.last /\ b.last <= d.max
             /\ rec.next <= d.max => b.first = rec.next
             /\ b.last + d.inc <= MaxInt => b.next = b.last + d.inc
             /\ b.last + d.inc > MaxInt => b.next < 0
<1>. DEFINE d     == rec.def
            first == IF rec.next > d.max THEN d.min ELSE rec.next
            avail == Unsigned(Quotient(Wrap(d.max - first), d.inc) + 1)
            count == Min({requested, avail})
            last  == Wrap(first + (count - 1) * d.inc)
<1>1. /\ d \in Definition /\ rec.next \in Int64 /\ rec.next \in Int
      /\ MaxInt \in Nat /\ \A x \in Int64 : x \in Int
  BY SequenceAssumption DEF Int64
<1>2. /\ d.min \in Int /\ d.max \in Int /\ d.inc \in Nat \ {0}
      /\ 0 < d.min /\ d.min < d.max /\ d.max < MaxInt /\ d.inc < MaxInt
  BY <1>1, StoredFacts
<1>3. Block(rec, requested) = [first |-> first, last |-> last, next |-> Wrap(last + d.inc)]
  BY DEF Block
<1>4. rec.def.min <= rec.next
  OBVIOUS
<1>. HIDE DEF d
<1>5. /\ first \in Int /\ d.min <= first /\ first <= d.max
      /\ rec.next <= d.max => first = rec.next
  BY <1>1, <1>2, <1>4 DEF d
<1>. HIDE DEF first
<1>6. Wrap(d.max - first) = d.max - first /\ d.max - first \in Nat
  <2>1. d.max - first \in Int64 /\ d.max - first \in Nat
    BY <1>1, <1>2, <1>5 DEF Int64
  <2>. QED  BY <2>1, <1>2, <1>5, WrapFacts
<1>. DEFINE q == (d.max - first) \div d.inc
<1>7. q \in Nat /\ q * d.inc <= d.max - first /\ q <= d.max - first
  BY <1>2, <1>6, DivFacts
<1>8. Quotient(d.max - first, d.inc) = q
  BY <1>6 DEF Quotient
<1>. HIDE DEF q
<1>9. avail = q + 1
  <2>1. q + 1 \in 0..(Modulus - 1) /\ Modulus \in Nat \ {0}
    BY <1>1, <1>2, <1>5, <1>7 DEF Modulus
  <2>. QED  BY <1>6, <1>8, <2>1, ModSmall DEF Unsigned
<1>. HIDE DEF avail
<1>10. count \in Nat /\ 1 <= count /\ count <= q + 1
  <2>1. requested \in Int /\ avail \in Int /\ 1 <= requested /\ 1 <= avail
    BY <1>7, <1>9
  <2>2. count \in {requested, avail} /\ count <= avail
    BY <2>1, PairFacts
  <2>. HIDE DEF count
  <2>. QED  BY <1>7, <1>9, <2>1, <2>2
<1>. HIDE DEF count
<1>11. (count - 1) * d.inc \in Nat /\ (count - 1) * d.inc <= d.max - first
  <2>1. count - 1 \in Nat /\ count - 1 <= q
    BY <1>7, <1>10
  <2>2. (count - 1) * d.inc \in Nat /\ (count - 1) * d.inc <= q * d.inc
    BY <1>2, <1>7, <2>1, TimesMonotone
  <2>3. q * d.inc \in Int
    BY <1>2, <1>7
  <2>. DEFINE x == (count - 1) * d.inc
              y == q * d.inc
  <2>4. x \in Nat /\ y \in Int /\ x <= y /\ y <= d.max - first
    BY <1>7, <2>2, <2>3
  <2>. HIDE DEF x, y
  <2>5. x <= d.max - first
    BY <1>2, <1>5, <2>4
  <2>. QED  BY <2>4, <2>5 DEF x
<1>. DEFINE x == (count - 1) * d.inc
<1>12. last = first + x /\ x \in Nat /\ first + x <= d.max
  <2>1. x \in Nat /\ x <= d.max - first
    BY <1>11
  <2>2. last = Wrap(first + x)
    OBVIOUS
  <2>. HIDE DEF x, last
  <2>3. first + x \in Int64 /\ first + x \in Int /\ first + x <= d.max
    BY <1>1, <1>2, <1>5, <2>1 DEF Int64
  <2>. QED  BY <2>1, <2>2, <2>3, WrapFacts
<1>. HIDE DEF x, last
<1>13. last \in Int /\ first <= last /\ last <= d.max
  BY <1>2, <1>5, <1>12
<1>14. last + d.inc <= MaxInt => Wrap(last + d.inc) = last + d.inc
  BY <1>1, <1>2, <1>5, <1>13, WrapFacts DEF Int64
<1>15. last + d.inc > MaxInt => Wrap(last + d.inc) < 0
  BY <1>1, <1>2, <1>5, <1>13, WrapFacts
<1>16. /\ Block(rec, requested).first = first /\ Block(rec, requested).last = last
       /\ Block(rec, requested).next = Wrap(last + d.inc)
  BY <1>3
<1>. QED  BY <1>5, <1>13, <1>14, <1>15, <1>16 DEF d

\* The image an allocation puts.
Put(s) == [db EXCEPT !.def = fetching[s].def, !.next = Allocated(s).next,
                     !.calls = fetching[s].calls + 1, !.live = TRUE]

\* The record an allocation has read.
LEMMA CopyFacts ==
  ASSUME TypeOK, NEW s \in Sessions, fetching[s] # None
  PROVE  /\ fetching[s].def \in Definition /\ fetching[s].next \in Int64
         /\ fetching[s].calls \in Nat
BY DEF TypeOK, Copy

\* What an allocation gives: types always; inside MINVALUE and MAXVALUE, and
\* the counter behind the block, when the counter was not below MINVALUE,
\* there is a MAXVALUE and nothing wraps.
LEMMA PutFacts ==
  ASSUME TypeOK, NEW s \in Sessions, fetching[s] # None
  PROVE  LET b == Allocated(s)
             d == fetching[s].def
             n == fetching[s].next
         IN  /\ b.first \in Int64 /\ b.last \in Int64 /\ b.next \in Int64
             /\ Put(s) \in Image /\ Put(s).def = d /\ Put(s).next = b.next
             /\ Put(s).rows = db.rows
             /\ d.min <= n /\ d.max # 0 =>
                  /\ d.min <= b.first /\ b.first <= b.last /\ b.last <= d.max
                  /\ n <= d.max => b.first = n
                  /\ b.last + d.inc <= MaxInt => b.next = b.last + d.inc
                  /\ b.last + d.inc > MaxInt => b.next < b.first
<1>. DEFINE rec == fetching[s]
<1>1. /\ db \in Image /\ rec.calls \in Nat /\ rec.def \in Definition /\ rec.next \in Int64
      /\ MaxInt \in Nat /\ \A x \in Int64 : x \in Int
  BY DbFacts, CopyFacts
<1>2. Requested(s) \in Nat \ {0}
  <2>1. plan[s].cache \in Int
    BY StoredFacts DEF TypeOK
  <2>. DEFINE c == plan[s].cache
  <2>2. Requested(s) = Max({1, c})
    BY DEF Requested
  <2>. HIDE DEF c
  <2>3. c \in Int /\ 1 \in Int
    BY <2>1 DEF c
  <2>4. Max({1, c}) \in {1, c} /\ Max({1, c}) >= 1
    BY <2>3, PairFacts
  <2>. QED  BY <2>2, <2>3, <2>4
<1>3. Allocated(s) = Block(rec, Requested(s))
  BY DEF Allocated
<1>. DEFINE b == Allocated(s)
<1>. HIDE DEF rec
<1>4. b.first \in Int64 /\ b.last \in Int64 /\ b.next \in Int64
  BY <1>1, <1>2, <1>3, BlockTyped
<1>. HIDE DEF b
<1>5. Put(s) = [db EXCEPT !.def = rec.def, !.next = b.next, !.calls = rec.calls + 1,
                          !.live = TRUE]
  BY DEF Put, b, rec
<1>6. /\ Put(s) \in Image /\ Put(s).def = rec.def /\ Put(s).next = b.next
      /\ Put(s).rows = db.rows
  <2>. DEFINE image == [def |-> rec.def, next |-> b.next, calls |-> rec.calls + 1,
                        live |-> TRUE, uid |-> db.uid, rows |-> db.rows]
  <2>1. image \in Image
    BY <1>1, <1>4 DEF Image
  <2>2. Put(s) = image
    BY <1>1, <1>5 DEF Image
  <2>. QED  BY <2>1, <2>2
<1>7. ASSUME rec.def.min <= rec.next, rec.def.max # 0
      PROVE  /\ rec.def.min <= b.first /\ b.first <= b.last /\ b.last <= rec.def.max
             /\ rec.next <= rec.def.max => b.first = rec.next
             /\ b.last + rec.def.inc <= MaxInt => b.next = b.last + rec.def.inc
             /\ b.last + rec.def.inc > MaxInt => b.next < b.first
  <2>1. /\ rec.def.min <= b.first /\ b.first <= b.last /\ b.last <= rec.def.max
        /\ rec.next <= rec.def.max => b.first = rec.next
        /\ b.last + rec.def.inc <= MaxInt => b.next = b.last + rec.def.inc
        /\ b.last + rec.def.inc > MaxInt => b.next < 0
    BY <1>1, <1>2, <1>3, <1>7, BlockFacts DEF b
  <2>2. 0 < rec.def.min /\ rec.def.min \in Int /\ b.first \in Int /\ b.next \in Int
    BY <1>1, <1>4, StoredFacts
  <2>. QED  BY <2>1, <2>2
<1>. QED  BY <1>4, <1>6, <1>7 DEF b, rec
-----------------------------------------------------------------------------
(***************************************************************************)
(* The steps.                                                              *)
(***************************************************************************)

\* The types the arithmetic of the steps needs.
LEMMA NumberFacts ==
  ASSUME TypeOK
  PROVE  /\ MaxInt \in Nat /\ top \in Int /\ wide \in Int
         /\ \A x \in Int64 : x \in Int
         /\ \A s \in Sessions : /\ cache[s] \in Entry /\ cache[s].fetch \in BOOLEAN
                                /\ cache[s].curr \in Int64 /\ cache[s].end \in Int64
                                /\ cache[s].curr \in Int /\ cache[s].end \in Int
                                /\ plan[s] \in Definition
<1>1. MaxInt \in Nat /\ \A x \in Int64 : x \in Int
  BY SequenceAssumption DEF Int64
<1>2. top \in Int /\ wide \in Int
  BY <1>1 DEF TypeOK
<1>3. \A s \in Sessions : cache[s] \in Entry /\ plan[s] \in Definition
  BY DEF TypeOK
<1>. QED  BY <1>1, <1>2, <1>3 DEF Entry

LEMMA EmptyEntryTyped == EmptyEntry \in Entry /\ EmptyEntry.fetch = TRUE
<1>1. 0 \in Int64
  BY SequenceAssumption DEF Int64
<1>. QED  BY <1>1 DEF EmptyEntry, Entry

LEMMA InitInv == Init => IInv
<1>. SUFFICES ASSUME Init PROVE IInv
  OBVIOUS
<1>1. PICK d \in Definitions :
        /\ images = <<[def |-> d, next |-> d.start, calls |-> 0, live |-> TRUE,
                      uid |-> TRUE, rows |-> {}]>>
        /\ plan = [s \in Sessions |-> d]
        /\ cache = [s \in Sessions |-> EmptyEntry]
        /\ fetching = [s \in Sessions |-> None]
        /\ alter = None /\ clash = FALSE /\ excuse = {}
        /\ top = d.max /\ wide = d.inc
        /\ events = 0
  BY DEF Init
<1>. DEFINE image == [def |-> d, next |-> d.start, calls |-> 0, live |-> TRUE,
                      uid |-> TRUE, rows |-> {}]
<1>2. d \in Definition /\ d.max # 0 /\ d.start <= d.max /\ Ceiling(d) = d.max
  BY CreatedFacts
<1>3. image \in Image
  BY <1>2, StoredFacts DEF Image
<1>4. /\ image.def = d /\ image.next = d.start /\ image.rows = {}
  OBVIOUS
<1>. HIDE DEF image
<1>5. images \in Seq(Image) /\ images # <<>> /\ db = image /\ \A i \in DOMAIN images : images[i] = image
  <2>1. images = <<image>>
    BY <1>1 DEF image
  <2>2. Len(images) = 1 /\ DOMAIN images = {1} /\ images[1] = image
    BY <2>1
  <2>3. images \in Seq(Image) /\ images # <<>>
    BY <1>3, <2>1
  <2>. QED  BY <2>2, <2>3 DEF db, Last
<1>6. TypeOK
  <2>1. plan \in [Sessions -> Definition] /\ cache \in [Sessions -> Entry]
        /\ fetching \in [Sessions -> {None} \cup Copy]
    BY <1>1, <1>2, EmptyEntryTyped
  <2>2. top \in Int64 /\ wide \in Int64
    BY <1>1, <1>2, StoredFacts
  <2>3. events \in 0..MaxEvents
    BY <1>1, SequenceAssumption
  <2>. QED  BY <1>1, <1>5, <2>1, <2>2, <2>3 DEF TypeOK
<1>7. AlterInv /\ MutexInv
  BY <1>1, <1>4, <1>5 DEF AlterInv, MutexInv, SameBase
<1>8. TopInv
  BY <1>1, <1>2, <1>4, <1>5, StoredFacts DEF TopInv, Bounded
<1>9. \A s \in Sessions : cache[s].fetch = TRUE
  BY <1>1, EmptyEntryTyped
<1>10. RangeInv
  BY <1>1, <1>2, <1>4, <1>5, <1>9, StoredFacts DEF RangeInv, InRange
<1>11. UniqueInv
  BY <1>1, <1>2, <1>4, <1>5, <1>9, StoredFacts DEF UniqueInv, Below
<1>. QED  BY <1>6, <1>7, <1>8, <1>10, <1>11 DEF IInv

\* fetchNewRange, with or without a row that takes the first value.
LEMMA FetchKeeps ==
  ASSUME IInv, NEW s \in Sessions, FetchRange(s),
         images' \in Seq(Image), images' # <<>>,
         Last(images') \in {Put(s), WithValue(Put(s), Allocated(s).first)},
         \A j \in DOMAIN images' :
           \/ images'[j] \in {Put(s), WithValue(Put(s), Allocated(s).first)}
           \/ \E i \in DOMAIN images : images'[j] = images[i],
         clash' \in BOOLEAN, clash' => clash \/ Allocated(s).first \in db.rows,
         UNCHANGED <<plan, alter, top, wide, events>>
  PROVE  IInv'
<1>. DEFINE b == Allocated(s)
            d == fetching[s].def
            n == fetching[s].next
            put == Put(s)
            row == WithValue(put, b.first)
<1>1. TypeOK /\ AlterInv /\ MutexInv /\ TopInv /\ RangeInv /\ UniqueInv
  BY DEF IInv
<1>0. fetching[s] # None
  BY DEF FetchRange, None
<1>2. /\ b.first \in Int64 /\ b.last \in Int64 /\ b.next \in Int64
      /\ put \in Image /\ put.def = d /\ put.next = b.next /\ put.rows = db.rows
      /\ d.min <= n /\ d.max # 0 =>
           /\ d.min <= b.first /\ b.first <= b.last /\ b.last <= d.max
           /\ n <= d.max => b.first = n
           /\ b.last + d.inc <= MaxInt => b.next = b.last + d.inc
           /\ b.last + d.inc > MaxInt => b.next < b.first
  BY <1>0, <1>1, PutFacts
<1>3. row.def = d /\ row.next = b.next /\ row.rows = db.rows \cup {b.first}
  BY <1>2, WithValueFacts
<1>4. /\ db' \in {put, row}
      /\ \A j \in DOMAIN images' :
           images'[j] \in {put, row} \/ \E i \in DOMAIN images : images'[j] = images[i]
  BY DEF db
<1>5. /\ MaxInt \in Nat /\ top \in Int /\ wide \in Int
      /\ \A x \in Int64 : x \in Int
      /\ \A u \in Sessions : /\ cache[u] \in Entry /\ cache[u].fetch \in BOOLEAN
                             /\ cache[u].curr \in Int /\ cache[u].end \in Int
  BY <1>1, NumberFacts
<1>6. /\ db.next \in Int /\ db.rows \in SUBSET Int64 /\ db.def \in Definition
      /\ \E i \in DOMAIN images : db = images[i]
      /\ d \in Definition /\ n \in Int64 /\ n \in Int
  BY <1>0, <1>1, <1>5, DbFacts, CopyFacts
<1>7. /\ d.min \in Int /\ d.max \in Int /\ d.inc \in Int /\ Ceiling(d) \in Int
      /\ 0 < d.min /\ 1 <= d.inc /\ Ceiling(d) <= top /\ d.inc <= wide
      /\ Ceiling(d) < MaxInt => d.max # 0 /\ Ceiling(d) = d.max
      /\ d.min = db.def.min /\ d.start = db.def.start
  <2>1. Bounded(d) /\ SameBase(d)
    BY <1>0, <1>1 DEF TopInv, AlterInv
  <2>. HIDE DEF d
  <2>. QED  BY <1>6, <2>1, StoredFacts DEF Bounded, SameBase
<1>8. b.first \in Int /\ b.last \in Int /\ b.next \in Int
  BY <1>2, <1>5
<1>9. /\ excuse' = excuse \cup ExcuseOf(s)
      /\ \A u \in Sessions \ {s} : cache'[u] = cache[u]
      /\ cache'[s] = EmptyEntry \/ cache'[s] = [fetch |-> FALSE, curr |-> b.first, end |-> b.last]
      /\ cache' \in [Sessions -> Entry]
      /\ fetching' \in [Sessions -> {None} \cup Copy]
      /\ \A u \in Sessions : fetching'[u] # None => fetching'[u] = fetching[u] /\ u # s
  <2>1. [fetch |-> FALSE, curr |-> b.first, end |-> b.last] \in Entry
    BY <1>2 DEF Entry
  <2>2. cache' = [cache EXCEPT ![s] =
           IF BlockLost(s) THEN EmptyEntry
           ELSE [fetch |-> FALSE, curr |-> b.first, end |-> b.last]]
        /\ excuse' = excuse \cup ExcuseOf(s)
        /\ fetching' = [fetching EXCEPT ![s] = None]
    BY DEF FetchRange
  <2>. HIDE DEF b
  <2>. QED  BY <1>1, <2>1, <2>2, EmptyEntryTyped DEF TypeOK
<1>10. ~cache'[s].fetch => cache'[s].curr = b.first /\ cache'[s].end = b.last
  BY <1>9, EmptyEntryTyped
<1>11. excuse' = {} => excuse = {} /\ n <= d.max /\ ~(b.next < b.first)
  <2>1. n > d.max => "cycle" \in ExcuseOf(s)
    BY DEF ExcuseOf
  <2>2. b.next < b.first => "wrap" \in ExcuseOf(s)
    BY DEF ExcuseOf
  <2>3. n <= d.max \/ n > d.max
    BY <1>6, <1>7
  <2>. QED  BY <1>9, <2>1, <2>2, <2>3
<1>12. TypeOK'
  <2>1. ExcuseOf(s) \subseteq {"cycle", "wrap"}
    BY DEF ExcuseOf
  <2>. QED  BY <1>1, <1>9, <2>1 DEF TypeOK
<1>. HIDE DEF b, put, row, d, n
<1>13. /\ db'.def = d /\ db'.def.min = db.def.min /\ db'.def.start = db.def.start
       /\ db'.next = b.next /\ db'.rows \subseteq db.rows \cup {b.first}
  BY <1>2, <1>3, <1>4, <1>7
<1>14. AlterInv' /\ MutexInv'
  <2>1. \A i \in DOMAIN images' : SameBase(images[i].def)'
    <3>. SUFFICES ASSUME NEW i \in DOMAIN images' PROVE SameBase(images[i].def)'
      OBVIOUS
    <3>1. images'[i].def = d \/ \E k \in DOMAIN images : images'[i] = images[k]
      BY <1>2, <1>3, <1>4
    <3>. QED  BY <1>1, <1>7, <1>13, <3>1 DEF AlterInv, SameBase
  <2>2. \A u \in Sessions : SameBase(plan[u])'
    BY <1>1, <1>13 DEF AlterInv, SameBase
  <2>3. \A u \in Sessions : fetching'[u] # None => SameBase(fetching[u].def)'
    BY <1>1, <1>9, <1>13 DEF AlterInv, SameBase
  <2>4. alter # None => SameBase(alter.def)'
    BY <1>1, <1>13 DEF AlterInv, SameBase
  <2>5. MutexInv'
    BY <1>0, <1>1, <1>9 DEF MutexInv
  <2>. QED  BY <1>1, <2>1, <2>2, <2>3, <2>4, <2>5 DEF AlterInv
<1>15. TopInv'
  <2>1. \A i \in DOMAIN images' : Bounded(images[i].def)'
    <3>. SUFFICES ASSUME NEW i \in DOMAIN images' PROVE Bounded(images[i].def)'
      OBVIOUS
    <3>1. images'[i].def = d \/ \E k \in DOMAIN images : images'[i] = images[k]
      BY <1>2, <1>3, <1>4
    <3>. QED  BY <1>1, <1>7, <3>1 DEF TopInv, Bounded, Ceiling
  <2>2. \A u \in Sessions : fetching'[u] # None => Bounded(fetching[u].def)'
    BY <1>1, <1>9 DEF TopInv, Bounded, Ceiling
  <2>. QED  BY <1>1, <2>1, <2>2 DEF TopInv
<1>16. RangeInv'
  <2>. SUFFICES ASSUME top + wide <= MaxInt
                PROVE  /\ \A i \in DOMAIN images' : InRange(images[i])'
                       /\ \A u \in Sessions : fetching'[u] # None =>
                            db.def.min <= fetching'[u].next
                       /\ \A u \in Sessions : ~cache'[u].fetch =>
                            /\ db.def.min <= cache'[u].curr
                            /\ cache'[u].curr <= cache'[u].end /\ cache'[u].end <= top
                       /\ alter # None /\ ~alter.reset =>
                            db.def.min <= alter.next /\ alter.next <= top + wide
    BY <1>13 DEF RangeInv
  <2>1. /\ \A i \in DOMAIN images : InRange(images[i])
        /\ \A u \in Sessions : fetching[u] # None => db.def.min <= fetching[u].next
        /\ \A u \in Sessions : ~cache[u].fetch =>
             /\ db.def.min <= cache[u].curr
             /\ cache[u].curr <= cache[u].end /\ cache[u].end <= top
        /\ alter # None /\ ~alter.reset =>
             db.def.min <= alter.next /\ alter.next <= top + wide
    BY <1>1 DEF RangeInv
  <2>2. d.min <= n /\ \A v \in db.rows : db.def.min <= v /\ v <= top
    BY <1>0, <1>6, <1>7, <2>1 DEF InRange, n
  <2>3. /\ d.min <= b.first /\ b.first <= b.last /\ b.last <= top
        /\ b.next = b.last + d.inc
        /\ d.min <= b.next /\ b.next <= top + wide
    <3>0. d.max # 0 /\ d.max <= top
      BY <1>5, <1>7
    <3>1. /\ d.min <= b.first /\ b.first <= b.last /\ b.last <= d.max
          /\ b.last + d.inc <= MaxInt => b.next = b.last + d.inc
      BY <1>2, <2>2, <3>0
    <3>2. b.last <= top /\ b.last + d.inc <= top + wide
      BY <1>5, <1>7, <1>8, <3>0, <3>1
    <3>3. b.next = b.last + d.inc
      BY <1>5, <1>7, <1>8, <3>1, <3>2
    <3>. QED  BY <1>5, <1>7, <1>8, <3>1, <3>2, <3>3
  <2>4. \A i \in DOMAIN images' : InRange(images[i])'
    <3>. SUFFICES ASSUME NEW i \in DOMAIN images' PROVE InRange(images[i])'
      OBVIOUS
    <3>1. CASE images'[i] \in {put, row}
      <4>1. /\ images'[i].def = d /\ images'[i].next = b.next
            /\ \A v \in images'[i].rows : v \in db.rows \/ v = b.first
        BY <1>2, <1>3, <3>1
      <4>2. b.first <= top
        BY <1>5, <1>8, <2>3
      <4>. QED  BY <1>7, <2>2, <2>3, <4>1, <4>2 DEF InRange
    <3>2. CASE \E k \in DOMAIN images : images'[i] = images[k]
      BY <2>1, <3>2 DEF InRange
    <3>. QED  BY <1>4, <3>1, <3>2
  <2>5. \A u \in Sessions : ~cache'[u].fetch =>
          /\ db.def.min <= cache'[u].curr
          /\ cache'[u].curr <= cache'[u].end /\ cache'[u].end <= top
    BY <1>7, <1>9, <1>10, <2>1, <2>3
  <2>6. \A u \in Sessions : fetching'[u] # None => db.def.min <= fetching'[u].next
    BY <1>9, <2>1
  <2>. QED  BY <2>1, <2>4, <2>5, <2>6
<1>17. UniqueInv'
  <2>. SUFFICES ASSUME excuse' = {}
                PROVE  /\ ~clash'
                       /\ \A i \in DOMAIN images' : Below(images[i])'
                       /\ \A u \in Sessions : ~cache'[u].fetch => Holds(u)'
    <3>1. \A u \in Sessions : fetching'[u] = None
      BY <1>0, <1>1, <1>9 DEF MutexInv
    <3>. QED  BY <3>1 DEF UniqueInv
  <2>1. /\ ~clash
        /\ \A i \in DOMAIN images : Below(images[i])
        /\ \A u \in Sessions : ~cache[u].fetch => Holds(u)
        /\ n = db.next
    BY <1>0, <1>1, <1>11 DEF UniqueInv, n
  <2>2. d.min <= db.next /\ \A v \in db.rows : v < db.next /\ v \in Int
    BY <1>5, <1>6, <1>7, <2>1 DEF Below
  <2>3. /\ b.first = db.next /\ b.first <= b.last /\ b.next = b.last + d.inc
        /\ b.last < b.next /\ d.min <= b.next
    <3>1. d.max # 0 /\ d.min <= n /\ n <= d.max
      BY <1>6, <1>7, <1>11, <2>1, <2>2
    <3>2. /\ b.first = n /\ d.min <= b.first /\ b.first <= b.last
          /\ b.last + d.inc <= MaxInt => b.next = b.last + d.inc
          /\ b.last + d.inc > MaxInt => b.next < b.first
      BY <1>2, <3>1
    <3>3. b.next = b.last + d.inc
      BY <1>5, <1>7, <1>8, <1>11, <3>2
    <3>. QED  BY <1>6, <1>7, <1>8, <2>1, <3>2, <3>3
  <2>4. ~clash'
    BY <1>8, <2>1, <2>2, <2>3 DEF b
  <2>5. \A i \in DOMAIN images' : Below(images[i])'
    <3>. SUFFICES ASSUME NEW i \in DOMAIN images' PROVE Below(images[i])'
      OBVIOUS
    <3>1. CASE images'[i] \in {put, row}
      <4>1. /\ images'[i].def = d /\ images'[i].next = b.next
            /\ \A v \in images'[i].rows : v \in db.rows \/ v = b.first
        BY <1>2, <1>3, <3>1
      <4>2. \A v \in db.rows : v < b.next
        BY <1>6, <1>8, <2>2, <2>3
      <4>3. b.first < b.next
        BY <1>8, <2>3
      <4>. QED  BY <2>3, <4>1, <4>2, <4>3 DEF Below
    <3>2. CASE \E k \in DOMAIN images : images'[i] = images[k]
      BY <2>1, <3>2 DEF Below
    <3>. QED  BY <1>4, <3>1, <3>2
  <2>6. ASSUME NEW u \in Sessions, u # s, ~cache[u].fetch
        PROVE  /\ cache[u].curr <= cache[u].end /\ cache[u].end < db.next
               /\ \A v \in db.rows : v <= cache[u].curr \/ cache[u].end < v
               /\ \A w \in Sessions \ {u} : ~cache[w].fetch =>
                    cache[u].end < cache[w].curr \/ cache[w].end < cache[u].curr
    BY <2>1, <2>6 DEF Holds
  <2>7. ASSUME NEW u \in Sessions, u # s, ~cache'[u].fetch PROVE Holds(u)'
    <3>1. cache'[u] = cache[u] /\ ~cache[u].fetch /\ cache[u].end < b.first
      BY <1>9, <2>3, <2>6, <2>7
    <3>2. cache[u].end < b.next
      BY <1>5, <1>8, <2>3, <3>1
    <3>3. \A v \in db'.rows : v <= cache[u].curr \/ cache[u].end < v
      BY <1>13, <2>6, <2>7, <3>1
    <3>4. ASSUME NEW w \in Sessions \ {u}, ~cache'[w].fetch
          PROVE  cache[u].end < cache'[w].curr \/ cache'[w].end < cache[u].curr
      <4>1. CASE w = s
        BY <1>10, <3>1, <3>4, <4>1
      <4>2. CASE w # s
        BY <1>9, <2>6, <2>7, <3>1, <3>4, <4>2
      <4>. QED  BY <4>1, <4>2
    <3>. QED  BY <1>13, <2>6, <2>7, <3>1, <3>2, <3>3, <3>4 DEF Holds
  <2>8. ASSUME ~cache'[s].fetch PROVE Holds(s)'
    <3>1. cache'[s].curr = b.first /\ cache'[s].end = b.last
      BY <1>10, <2>8
    <3>2. \A v \in db'.rows : v <= b.first
      BY <1>6, <1>8, <1>13, <2>2, <2>3
    <3>3. ASSUME NEW w \in Sessions \ {s}, ~cache'[w].fetch PROVE cache'[w].end < b.first
      BY <1>9, <2>3, <2>6, <3>3
    <3>. QED  BY <1>13, <2>3, <3>1, <3>2, <3>3 DEF Holds
  <2>. QED  BY <2>4, <2>5, <2>7, <2>8
<1>. QED  BY <1>12, <1>14, <1>15, <1>16, <1>17 DEF IInv

\* getNextSeqVal with a block that is not used up.
LEMMA CachedKeeps ==
  ASSUME IInv, NEW s \in Sessions, NEW fate \in Fates, NextCached(s, fate)
  PROVE  IInv'
<1>. DEFINE v == Bumped(s)
            row == WithValue(db, v)
<1>1. TypeOK /\ AlterInv /\ MutexInv /\ TopInv /\ RangeInv /\ UniqueInv
  BY DEF IInv
<1>2. /\ MaxInt \in Nat /\ top \in Int /\ wide \in Int
      /\ \A x \in Int64 : x \in Int
      /\ \A u \in Sessions : /\ cache[u] \in Entry /\ cache[u].fetch \in BOOLEAN
                             /\ cache[u].curr \in Int64 /\ cache[u].end \in Int64
                             /\ cache[u].curr \in Int /\ cache[u].end \in Int
                             /\ plan[u] \in Definition
  BY <1>1, NumberFacts
<1>3. plan[s].inc \in Int /\ 1 <= plan[s].inc /\ plan[s].inc < MaxInt /\ plan[s].inc <= wide
  <2>1. plan[s] \in Definition
    BY <1>2
  <2>2. plan[s].inc \in Int /\ 1 <= plan[s].inc /\ plan[s].inc < MaxInt
    BY <1>2, <2>1, StoredFacts
  <2>. QED  BY <1>1, <2>2 DEF TopInv
<1>4. /\ v \in Int64 /\ v \in Int
      /\ cache[s].curr + plan[s].inc <= MaxInt => v = cache[s].curr + plan[s].inc
      /\ cache[s].curr + plan[s].inc > MaxInt => v < cache[s].curr
  <2>. DEFINE c == cache[s].curr
              x == c + plan[s].inc
  <2>1. v = Wrap(x)
    BY DEF Bumped
  <2>2. c \in Int /\ -MaxInt - 1 <= c /\ c <= MaxInt
    BY <1>2 DEF Int64
  <2>. HIDE DEF c, v
  <2>3. x \in Int /\ x > -MaxInt - 1 /\ x <= 2 * MaxInt /\ x < c + Modulus
    BY <1>2, <1>3, <2>2 DEF Modulus
  <2>4. Modulus \in Int
    BY <1>2 DEF Modulus
  <2>. HIDE DEF x
  <2>5. v \in Int64 /\ v \in Int
    BY <1>2, <2>1, <2>3, WrapFacts
  <2>6. x <= MaxInt => v = x
    BY <1>2, <2>1, <2>3, WrapFacts DEF Int64
  <2>7. x > MaxInt => v < c
    <3>1. x > MaxInt => v = x - Modulus
      BY <2>1, <2>3, WrapFacts
    <3>. QED  BY <2>2, <2>3, <2>4, <3>1
  <2>. QED  BY <2>5, <2>6, <2>7 DEF x, c
<1>5. ~cache[s].fetch /\ v <= cache[s].end
  <2>1. ~cache[s].fetch /\ ~(v > cache[s].end)
    BY DEF NextCached, NeedsRange
  <2>. QED  BY <1>2, <1>4, <2>1
<1>6. /\ db \in Image /\ db.next \in Int /\ db.rows \in SUBSET Int64 /\ db.def \in Definition
      /\ \E i \in DOMAIN images : db = images[i]
  BY <1>1, DbFacts
<1>7. row.def = db.def /\ row.next = db.next /\ row.rows = db.rows \cup {v}
  BY <1>4, <1>6, WithValueFacts
<1>8. /\ images' \in Seq(Image) /\ images' # <<>> /\ db' \in {db, row}
      /\ \A j \in DOMAIN images' :
           images'[j] = row \/ \E i \in DOMAIN images : images'[j] = images[i]
  <2>1. images' = WithRow(images, v, fate) /\ images \in Seq(Image) /\ images # <<>>
    BY <1>1 DEF NextCached, TypeOK
  <2>2. v \in Int64
    BY <1>4
  <2>. HIDE DEF v
  <2>. QED  BY <2>1, <2>2, WithRowFacts DEF db
<1>9. /\ \A u \in Sessions \ {s} : cache'[u] = cache[u]
      /\ cache'[s].fetch = cache[s].fetch /\ cache'[s].curr = v /\ cache'[s].end = cache[s].end
      /\ cache' \in [Sessions -> Entry]
  <2>1. cache' = [cache EXCEPT ![s].curr = v]
    BY DEF NextCached
  <2>. HIDE DEF v
  <2>. QED  BY <1>1, <1>4, <2>1 DEF TypeOK, Entry
<1>10. /\ clash' = (clash \/ v \in db.rows)
       /\ excuse' = IF v < cache[s].curr THEN excuse \cup {"wrap"} ELSE excuse
       /\ UNCHANGED <<plan, fetching, alter, top, wide, events>>
  BY DEF NextCached
<1>. HIDE DEF v, row
<1>11. TypeOK'
  BY <1>1, <1>8, <1>9, <1>10 DEF TypeOK
<1>12. db'.def = db.def /\ db'.next = db.next /\ db'.rows \subseteq db.rows \cup {v}
  BY <1>7, <1>8
<1>13. AlterInv' /\ MutexInv'
  BY <1>1, <1>7, <1>8, <1>10, <1>12 DEF AlterInv, MutexInv, SameBase
<1>14. TopInv'
  BY <1>1, <1>6, <1>7, <1>8, <1>10 DEF TopInv, Bounded, Ceiling
<1>15. RangeInv'
  <2>. SUFFICES ASSUME top + wide <= MaxInt
                PROVE  /\ \A i \in DOMAIN images' : InRange(images[i])'
                       /\ \A u \in Sessions : fetching[u] # None =>
                            db.def.min <= fetching[u].next
                       /\ \A u \in Sessions : ~cache'[u].fetch =>
                            /\ db.def.min <= cache'[u].curr
                            /\ cache'[u].curr <= cache'[u].end /\ cache'[u].end <= top
                       /\ alter # None /\ ~alter.reset =>
                            db.def.min <= alter.next /\ alter.next <= top + wide
    BY <1>10, <1>12 DEF RangeInv
  <2>1. /\ \A i \in DOMAIN images : InRange(images[i])
        /\ \A u \in Sessions : fetching[u] # None => db.def.min <= fetching[u].next
        /\ \A u \in Sessions : ~cache[u].fetch =>
             /\ db.def.min <= cache[u].curr
             /\ cache[u].curr <= cache[u].end /\ cache[u].end <= top
        /\ alter # None /\ ~alter.reset =>
             db.def.min <= alter.next /\ alter.next <= top + wide
    BY <1>1 DEF RangeInv
  <2>2. InRange(db)
    BY <1>6, <2>1
  <2>3. db.def.min \in Int
    BY <1>6, StoredFacts
  <2>4. db.def.min <= v /\ v <= cache[s].end /\ v <= top
    <3>1. db.def.min <= cache[s].curr /\ cache[s].curr <= cache[s].end /\ cache[s].end <= top
      BY <1>5, <2>1
    <3>2. cache[s].curr + plan[s].inc <= MaxInt
      BY <1>2, <1>3, <3>1
    <3>. QED  BY <1>2, <1>3, <1>4, <1>5, <2>3, <3>1, <3>2
  <2>5. \A i \in DOMAIN images' : InRange(images[i])'
    <3>. SUFFICES ASSUME NEW i \in DOMAIN images' PROVE InRange(images[i])'
      OBVIOUS
    <3>1. CASE images'[i] = row
      BY <1>7, <1>10, <2>2, <2>4, <3>1 DEF InRange
    <3>2. CASE \E k \in DOMAIN images : images'[i] = images[k]
      BY <1>10, <2>1, <3>2 DEF InRange
    <3>. QED  BY <1>8, <3>1, <3>2
  <2>6. \A u \in Sessions : ~cache'[u].fetch =>
          /\ db.def.min <= cache'[u].curr
          /\ cache'[u].curr <= cache'[u].end /\ cache'[u].end <= top
    BY <1>9, <2>1, <2>4
  <2>. QED  BY <2>1, <2>5, <2>6
<1>16. UniqueInv'
  <2>. SUFFICES ASSUME excuse' = {}
                PROVE  /\ ~clash'
                       /\ \A i \in DOMAIN images' : Below(images[i])'
                       /\ \A u \in Sessions : ~cache'[u].fetch => Holds(u)'
    <3>1. excuse' = {} => excuse = {}
      BY <1>10
    <3>2. excuse' = {} => \A u \in Sessions : fetching'[u] # None => fetching'[u].next = db'.next
      BY <1>1, <1>10, <1>12, <3>1 DEF UniqueInv
    <3>. QED  BY <3>2 DEF UniqueInv
  <2>1. excuse = {} /\ ~(v < cache[s].curr)
    BY <1>10
  <2>2. /\ ~clash
        /\ \A i \in DOMAIN images : Below(images[i])
        /\ \A u \in Sessions : ~cache[u].fetch => Holds(u)
    BY <1>1, <2>1 DEF UniqueInv
  <2>3. Below(db)
    BY <1>6, <2>2
  <2>4. v > cache[s].curr
    BY <1>2, <1>3, <1>4, <2>1
  <2>5. ASSUME NEW u \in Sessions, ~cache[u].fetch
        PROVE  /\ cache[u].curr <= cache[u].end /\ cache[u].end < db.next
               /\ \A x \in db.rows : x <= cache[u].curr \/ cache[u].end < x
               /\ \A w \in Sessions \ {u} : ~cache[w].fetch =>
                    cache[u].end < cache[w].curr \/ cache[w].end < cache[u].curr
    BY <2>2, <2>5 DEF Holds
  <2>6. v < db.next
    BY <1>2, <1>4, <1>5, <1>6, <2>5
  <2>7. ~clash'
    BY <1>2, <1>4, <1>5, <1>10, <2>2, <2>4, <2>5
  <2>8. \A i \in DOMAIN images' : Below(images[i])'
    <3>. SUFFICES ASSUME NEW i \in DOMAIN images' PROVE Below(images[i])'
      OBVIOUS
    <3>1. CASE images'[i] = row
      BY <1>7, <2>3, <2>6, <3>1 DEF Below
    <3>2. CASE \E k \in DOMAIN images : images'[i] = images[k]
      BY <2>2, <3>2 DEF Below
    <3>. QED  BY <1>8, <3>1, <3>2
  <2>9. ASSUME NEW u \in Sessions, u # s, ~cache'[u].fetch PROVE Holds(u)'
    <3>1. cache'[u] = cache[u] /\ ~cache[u].fetch
      BY <1>9, <2>9
    <3>2. cache[u].end < cache[s].curr \/ cache[s].end < cache[u].curr
      BY <1>5, <2>5, <2>9, <3>1
    <3>3. v <= cache[u].curr \/ cache[u].end < v
      <4>1. cache[u].curr \in Int /\ cache[u].end \in Int /\ cache[s].curr \in Int /\ cache[s].end \in Int
        BY <1>2
      <4>. QED  BY <1>4, <1>5, <2>4, <3>2, <4>1
    <3>4. \A x \in db'.rows : x <= cache[u].curr \/ cache[u].end < x
      BY <1>12, <2>5, <3>1, <3>3
    <3>5. ASSUME NEW w \in Sessions \ {u}, ~cache'[w].fetch
          PROVE  cache[u].end < cache'[w].curr \/ cache'[w].end < cache[u].curr
      <4>1. CASE w = s
        <5>1. cache[u].end \in Int /\ cache[s].curr \in Int
          BY <1>2
        <5>. QED  BY <1>4, <1>9, <2>4, <3>2, <4>1, <5>1
      <4>2. CASE w # s
        BY <1>9, <2>5, <3>1, <3>5, <4>2
      <4>. QED  BY <4>1, <4>2
    <3>. QED  BY <1>12, <2>5, <3>1, <3>4, <3>5 DEF Holds
  <2>10. Holds(s)'
    <3>1. cache'[s].curr = v /\ cache'[s].end = cache[s].end
      BY <1>9
    <3>2. \A x \in db'.rows : x <= v \/ cache[s].end < x
      <4>1. \A x \in db.rows : x \in Int
        BY <1>2, <1>6
      <4>. QED  BY <1>2, <1>4, <1>5, <1>12, <2>4, <2>5, <4>1
    <3>3. ASSUME NEW w \in Sessions \ {s}, ~cache'[w].fetch
          PROVE  cache[s].end < cache'[w].curr \/ cache'[w].end < v
      <4>1. cache'[w] = cache[w] /\ cache[w].end \in Int /\ cache[s].curr \in Int
        BY <1>2, <1>9
      <4>2. cache[s].end < cache[w].curr \/ cache[w].end < cache[s].curr
        BY <1>5, <2>5, <3>3, <4>1
      <4>. QED  BY <1>4, <2>4, <4>1, <4>2
    <3>. QED  BY <1>5, <1>12, <2>5, <3>1, <3>2, <3>3 DEF Holds
  <2>. QED  BY <2>7, <2>8, <2>9, <2>10
<1>. QED  BY <1>11, <1>13, <1>14, <1>15, <1>16 DEF IInv

\* getNextSeqVal with a new block.
LEMMA FetchedKeeps ==
  ASSUME IInv, NEW s \in Sessions, NEW fate \in Fates, NextFetched(s, fate)
  PROVE  IInv'
<1>. DEFINE b == Allocated(s)
<1>1. TypeOK /\ images \in Seq(Image) /\ images # <<>> /\ clash \in BOOLEAN
  BY DEF IInv, TypeOK
<1>2. Put(s) \in Image /\ b.first \in Int64
  <2>1. fetching[s] # None
    BY DEF NextFetched, FetchRange, None
  <2>. QED  BY <1>1, <2>1, PutFacts
<1>3. PutCounter(s) = Later(images, Put(s))
  BY DEF PutCounter, Put
<1>4. /\ PutCounter(s) \in Seq(Image) /\ PutCounter(s) # <<>>
      /\ Last(PutCounter(s)) = Put(s)
      /\ \A j \in DOMAIN PutCounter(s) :
           \/ PutCounter(s)[j] = Put(s)
           \/ \E i \in DOMAIN images : PutCounter(s)[j] = images[i]
  BY <1>1, <1>2, <1>3, LaterFacts
<1>5. FetchRange(s) /\ UNCHANGED <<plan, alter, top, wide, events>>
  BY DEF NextFetched
<1>. HIDE DEF b
<1>6. CASE BlockLost(s)
  <2>1. images' = PutCounter(s) /\ clash' = clash
    BY <1>6 DEF NextFetched
  <2>. QED  BY <1>1, <1>4, <1>5, <2>1, FetchKeeps
<1>7. CASE ~BlockLost(s)
  <2>1. images' = WithRow(PutCounter(s), b.first, fate)
        /\ clash' = (clash \/ b.first \in db.rows)
    BY <1>7 DEF NextFetched, b
  <2>2. /\ images' \in Seq(Image) /\ images' # <<>>
        /\ Last(images') \in {Put(s), WithValue(Put(s), b.first)}
        /\ \A j \in DOMAIN images' :
             \/ images'[j] = WithValue(Put(s), b.first)
             \/ \E i \in DOMAIN PutCounter(s) : images'[j] = PutCounter(s)[i]
    BY <1>2, <1>4, <2>1, WithRowFacts
  <2>3. \A j \in DOMAIN images' :
          \/ images'[j] \in {Put(s), WithValue(Put(s), b.first)}
          \/ \E i \in DOMAIN images : images'[j] = images[i]
    BY <1>4, <2>2
  <2>4. clash' \in BOOLEAN /\ (clash' => clash \/ b.first \in db.rows)
    BY <1>1, <2>1
  <2>. QED  BY <1>5, <2>2, <2>3, <2>4, FetchKeeps DEF b
<1>. QED  BY <1>6, <1>7

\* getCurrSeqVal.
LEMMA CurrentKeeps ==
  ASSUME IInv, NEW s \in Sessions, CurrentValue(s)
  PROVE  IInv'
<1>1. TypeOK /\ images \in Seq(Image) /\ images # <<>> /\ clash \in BOOLEAN
  BY DEF IInv, TypeOK
<1>2. Put(s) \in Image
  <2>1. fetching[s] # None
    BY DEF CurrentValue, FetchRange, None
  <2>. QED  BY <1>1, <2>1, PutFacts
<1>3. images' = Later(images, Put(s)) /\ clash' = clash
  BY DEF CurrentValue, PutCounter, Put
<1>4. /\ images' \in Seq(Image) /\ images' # <<>> /\ Last(images') = Put(s)
      /\ \A j \in DOMAIN images' :
           images'[j] = Put(s) \/ \E i \in DOMAIN images : images'[j] = images[i]
  BY <1>1, <1>2, <1>3, LaterFacts
<1>5. FetchRange(s) /\ UNCHANGED <<plan, alter, top, wide, events>>
  BY DEF CurrentValue
<1>. QED  BY <1>1, <1>3, <1>4, <1>5, FetchKeeps

\* A record that is read, a failed fetch, and a statement compiled anew: no
\* image changes, and no session holds more.
LEMMA SessionKeeps ==
  ASSUME IInv, NEW s \in Sessions, FetchRead(s) \/ NextFails(s) \/ Compile(s)
  PROVE  IInv'
<1>. DEFINE copy == [loaded |-> TRUE, def |-> db.def, next |-> db.next, calls |-> db.calls]
<1>1. TypeOK /\ AlterInv /\ MutexInv /\ TopInv /\ RangeInv /\ UniqueInv
  BY DEF IInv
<1>2. UNCHANGED <<images, alter, clash, excuse, top, wide, events>> /\ db' = db
  BY DEF FetchRead, NextFails, Compile, db
<1>3. /\ db.def \in Definition /\ db.next \in Int64 /\ db.calls \in Nat
      /\ \E i \in DOMAIN images : db = images[i]
  BY <1>1, DbFacts
<1>4. /\ cache' \in [Sessions -> Entry]
      /\ \A u \in Sessions : ~cache'[u].fetch => cache'[u] = cache[u]
  BY <1>1, EmptyEntryTyped DEF FetchRead, NextFails, Compile, TypeOK
<1>5. /\ plan' \in [Sessions -> Definition]
      /\ \A u \in Sessions : plan'[u] = plan[u] \/ plan'[u] = db.def
  BY <1>1, <1>3 DEF FetchRead, NextFails, Compile, TypeOK
<1>6. /\ copy \in Copy /\ copy.def = db.def /\ copy.next = db.next
  BY <1>3 DEF Copy
<1>7. \/ fetching' = fetching
      \/ fetching' = [fetching EXCEPT ![s] = None]
      \/ /\ \A u \in Sessions : fetching[u] = None
         /\ fetching' = [fetching EXCEPT ![s] = copy]
  BY DEF FetchRead, NextFails, Compile
<1>. HIDE DEF copy
<1>8. /\ fetching' \in [Sessions -> {None} \cup Copy]
      /\ \A u \in Sessions : fetching'[u] # None => fetching'[u] \in {fetching[u], copy}
  BY <1>1, <1>6, <1>7 DEF TypeOK
<1>9. MutexInv'
  <2>1. CASE fetching' = fetching
    BY <1>1, <2>1 DEF MutexInv
  <2>2. CASE fetching' = [fetching EXCEPT ![s] = None]
    BY <1>1, <2>2 DEF MutexInv, TypeOK
  <2>3. CASE /\ \A u \in Sessions : fetching[u] = None
             /\ fetching' = [fetching EXCEPT ![s] = copy]
    BY <1>1, <2>3 DEF MutexInv, TypeOK
  <2>. QED  BY <1>7, <2>1, <2>2, <2>3
<1>10. TypeOK'
  BY <1>1, <1>2, <1>4, <1>5, <1>8 DEF TypeOK
<1>11. AlterInv'
  BY <1>1, <1>2, <1>5, <1>6, <1>8 DEF AlterInv, SameBase
<1>12. TopInv'
  <2>1. Bounded(db.def)
    BY <1>1, <1>3 DEF TopInv
  <2>2. \A u \in Sessions : plan'[u].inc <= wide
    BY <1>1, <1>5, <2>1 DEF TopInv, Bounded
  <2>3. \A u \in Sessions : fetching'[u] # None => Bounded(fetching'[u].def)
    BY <1>1, <1>6, <1>8, <2>1 DEF TopInv
  <2>. QED  BY <1>1, <1>2, <2>2, <2>3 DEF TopInv, Bounded, Ceiling
<1>13. RangeInv'
  <2>1. top + wide <= MaxInt =>
          \A u \in Sessions : fetching'[u] # None => db.def.min <= fetching'[u].next
    BY <1>1, <1>3, <1>6, <1>8 DEF RangeInv, InRange
  <2>. QED  BY <1>1, <1>2, <1>4, <2>1 DEF RangeInv, InRange
<1>14. UniqueInv'
  <2>1. \A u \in Sessions : Holds(u) /\ ~cache'[u].fetch => Holds(u)'
    BY <1>2, <1>4 DEF Holds
  <2>2. excuse = {} =>
          \A u \in Sessions : fetching'[u] # None => fetching'[u].next = db.next
    BY <1>1, <1>6, <1>8 DEF UniqueInv
  <2>. QED  BY <1>1, <1>2, <1>4, <2>1, <2>2 DEF UniqueInv, Below
<1>. QED  BY <1>9, <1>10, <1>11, <1>12, <1>13, <1>14 DEF IInv

\* Options validated on one copy leave every other copy with the same MINVALUE
\* and START WITH storable.
LEMMA MergedFacts ==
  ASSUME NEW d \in Definition, NEW base \in Definition, NEW o \in Alterations,
         base.min = d.min, base.start = d.start, AlterValid(Validated(base, o), o)
  PROVE  Merged(d, o) \in Definition /\ Merged(d, o).min = d.min /\ Merged(d, o).start = d.start
<1>. DEFINE inc == Given(o, "INCREMENT", o.inc, d.inc)
            max == Given(o, "MAXVALUE", o.max, Given(o, "NOMAXVALUE", 0, d.max))
            cycle == Given(o, "CYCLE", o.cycle, d.cycle)
            size == Given(o, "CACHE", o.cache, d.cache)
            tinc == Given(o, "INCREMENT", o.inc, base.inc)
            tmax == Given(o, "MAXVALUE", o.max, base.max)
            tsize == Given(o, "CACHE", o.cache, base.cache)
            t == Validated(base, o)
<1>1. /\ MaxInt \in Nat /\ 0 \in Int64 /\ \A y \in Int64 : y \in Int
  BY SequenceAssumption DEF Int64
<1>2. o.inc \in Int64 /\ o.max \in Int64 /\ o.cache \in Int64 /\ o.cycle \in BOOLEAN
  BY SequenceAssumption DEF Options
<1>3. d \in Attributes /\ base \in Attributes /\ Storable(d) /\ Storable(base)
  BY DEF Definition
<1>4. /\ d.inc \in Int64 /\ d.max \in Int64 /\ d.cache \in Int64 /\ d.cycle \in BOOLEAN
      /\ d.min \in Int64 /\ d.start \in Int64
      /\ base.inc \in Int64 /\ base.max \in Int64 /\ base.cache \in Int64
  BY <1>3 DEF Attributes
<1>5. Merged(d, o) = [min |-> d.min, max |-> max, start |-> d.start, inc |-> inc,
                      cycle |-> cycle, cache |-> size]
  <2>1. d = [min |-> d.min, max |-> d.max, start |-> d.start, inc |-> d.inc,
             cycle |-> d.cycle, cache |-> d.cache]
    BY <1>3 DEF Attributes
  <2>2. Merged(d, o) = [d EXCEPT !.inc = inc, !.max = max, !.cycle = cycle, !.cache = size]
    BY <1>3 DEF Merged, Attributes
  <2>. HIDE DEF inc, max, cycle, size
  <2>. QED  BY <2>1, <2>2
<1>6. t.min = d.min /\ t.start = d.start /\ t.inc = tinc /\ t.max = tmax /\ t.cache = tsize
  BY <1>3 DEF Validated, Attributes
<1>7. inc \in Int64 /\ max \in Int64 /\ cycle \in BOOLEAN /\ size \in Int64
      /\ tinc \in Int64 /\ tmax \in Int64
  BY <1>1, <1>2, <1>4 DEF Given
<1>8. /\ tmax > d.min /\ tmax < MaxInt /\ d.start <= tmax
      /\ 1 <= tinc /\ tinc <= tmax - d.min
  <2>1. InBounds(t)
    BY DEF AlterValid
  <2>. HIDE DEF t, tmax, tinc
  <2>2. d.min \in Int /\ d.start \in Int /\ tmax \in Int /\ tinc \in Int
    BY <1>1, <1>4, <1>7
  <2>. QED  BY <1>6, <2>1, <2>2 DEF InBounds
<1>9. 0 < d.min /\ d.min <= d.start /\ 1 <= d.inc /\ d.inc < MaxInt
      /\ (d.max # 0 => d.min < d.max /\ d.start <= d.max /\ d.max < MaxInt)
  BY StoredFacts
<1>10. inc \in 1..(MaxInt - 1)
  <2>1. inc = tinc \/ inc = d.inc
    BY DEF Given
  <2>. HIDE DEF inc, tinc, tmax
  <2>2. tinc \in Int /\ tmax \in Int /\ d.inc \in Int /\ d.min \in Int
    BY <1>1, <1>4, <1>7
  <2>. QED  BY <1>1, <1>8, <1>9, <2>1, <2>2
<1>11. max # 0 => max > d.min /\ max >= d.start /\ max < MaxInt
  <2>1. max = tmax \/ max = 0 \/ max = d.max
    BY DEF Given
  <2>. HIDE DEF max, tmax
  <2>2. tmax \in Int /\ d.max \in Int /\ d.min \in Int /\ d.start \in Int
    BY <1>1, <1>4, <1>7
  <2>. QED  BY <1>8, <1>9, <2>1, <2>2
<1>12. size # 0 => size >= 2
  <2>1. CASE "CACHE" \in o.spec
    <3>1. size = t.cache /\ t.cache \in 2..RangeOfVals(t)
      BY <1>6, <2>1 DEF AlterValid, Given
    <3>. HIDE DEF t, size
    <3>. QED  BY <3>1
  <2>2. CASE "CACHE" \notin o.spec
    BY <1>3, <2>2 DEF Given, Storable
  <2>. QED  BY <2>1, <2>2
<1>. HIDE DEF inc, max, cycle, size
<1>13. Merged(d, o) \in Attributes
  BY <1>4, <1>5, <1>7 DEF Attributes
<1>14. Storable(Merged(d, o))
  <2>1. d.min > 0 /\ d.start >= d.min
    BY <1>1, <1>4, <1>9
  <2>. QED  BY <1>5, <1>10, <1>11, <1>12, <2>1 DEF Storable
<1>. QED  BY <1>5, <1>13, <1>14 DEF Definition

\* The load of ALTER SEQUENCE.
LEMMA AlterLoadKeeps ==
  ASSUME IInv, NEW o \in Alterations, AlterLoad(o)
  PROVE  IInv'
<1>. DEFINE reset == "RESET" \in o.spec
            d == Merged(db.def, o)
            at == IF reset THEN db.def.start ELSE db.next
            calls == IF reset THEN 0 ELSE db.calls
<1>1. TypeOK /\ AlterInv /\ MutexInv /\ TopInv /\ RangeInv /\ UniqueInv
  BY DEF IInv
<1>2. UNCHANGED <<images, plan, cache, fetching, clash, excuse, top, wide>> /\ db' = db
  BY DEF AlterLoad, db
<1>3. /\ db.def \in Definition /\ db.next \in Int64 /\ db.calls \in Nat
      /\ \E i \in DOMAIN images : db = images[i]
  BY <1>1, DbFacts
<1>4. d \in Definition /\ d.min = db.def.min /\ d.start = db.def.start
  <2>1. PICK base \in {db.def} \cup {plan[s] : s \in Sessions} : AlterValid(Validated(base, o), o)
    BY DEF AlterLoad
  <2>2. base \in Definition /\ base.min = db.def.min /\ base.start = db.def.start
    BY <1>1, <1>3 DEF TypeOK, AlterInv, SameBase
  <2>. QED  BY <1>3, <2>1, <2>2, MergedFacts
<1>5. alter' = [loaded |-> TRUE, reset |-> reset, seen |-> db.next, def |-> d,
                next |-> at, calls |-> calls]
  BY DEF AlterLoad
<1>6. at \in Int64 /\ calls \in Nat /\ reset \in BOOLEAN
  BY <1>3, StoredFacts
<1>7. at = IF reset THEN d.start ELSE db.next
  BY <1>4
<1>. HIDE DEF at, calls, d, reset
<1>8. /\ alter' \in Change /\ alter'.def = d /\ alter'.reset = reset
      /\ alter'.next = at /\ alter'.seen = db.next
  BY <1>3, <1>4, <1>5, <1>6 DEF Change
<1>9. TypeOK'
  <2>1. events' \in 0..MaxEvents
    BY <1>1, SequenceAssumption DEF AlterLoad, TypeOK
  <2>. QED  BY <1>1, <1>2, <1>8, <2>1 DEF TypeOK
<1>10. AlterInv' /\ MutexInv'
  BY <1>1, <1>2, <1>4, <1>7, <1>8 DEF AlterInv, MutexInv, SameBase
<1>11. TopInv'
  BY <1>1, <1>2 DEF TopInv, Bounded, Ceiling
<1>12. RangeInv'
  BY <1>1, <1>2, <1>3, <1>7, <1>8 DEF RangeInv, InRange
<1>13. UniqueInv'
  <2>1. \A u \in Sessions : Holds(u) => Holds(u)'
    BY <1>2 DEF Holds
  <2>. QED  BY <1>1, <1>2, <2>1 DEF UniqueInv, Below
<1>. QED  BY <1>9, <1>10, <1>11, <1>12, <1>13 DEF IInv

\* The write of ALTER SEQUENCE.
LEMMA AlterWriteKeeps ==
  ASSUME IInv, AlterWrite
  PROVE  IInv'
<1>1. TypeOK /\ AlterInv /\ MutexInv /\ TopInv /\ RangeInv /\ UniqueInv
  BY DEF IInv
<1>2. alter # None /\ alter \in Change
  BY <1>1 DEF AlterWrite, None, TypeOK
<1>3. /\ alter.def \in Definition /\ alter.next \in Int64 /\ alter.calls \in Nat
      /\ alter.reset \in BOOLEAN
  BY <1>2 DEF Change
<1>4. /\ db \in Image /\ db.next \in Int /\ db.rows \in SUBSET Int64 /\ db.def \in Definition
      /\ \E i \in DOMAIN images : db = images[i]
  BY <1>1, DbFacts
<1>. DEFINE image == [db EXCEPT !.def = alter.def, !.next = alter.next, !.calls = alter.calls]
<1>5. /\ image \in Image /\ image.def = alter.def /\ image.next = alter.next
      /\ image.rows = db.rows
  <2>. DEFINE i1 == [db EXCEPT !.def = alter.def]
              i2 == [i1 EXCEPT !.next = alter.next]
              i3 == [i2 EXCEPT !.calls = alter.calls]
  <2>1. /\ i1 \in Image /\ i1.def = alter.def /\ i1.rows = db.rows
    BY <1>3, <1>4 DEF Image
  <2>2. image = i3
    BY <1>4 DEF Image
  <2>. HIDE DEF i1, image
  <2>3. i2 \in Image /\ i2.def = alter.def /\ i2.next = alter.next /\ i2.rows = db.rows
    BY <1>3, <2>1 DEF Image
  <2>. HIDE DEF i2
  <2>4. /\ i3 \in Image /\ i3.def = alter.def /\ i3.next = alter.next
        /\ i3.rows = db.rows
    BY <1>3, <2>3 DEF Image
  <2>. QED  BY <2>2, <2>4
<1>6. images' = Later(images, image) /\ images \in Seq(Image) /\ images # <<>>
  BY <1>1 DEF AlterWrite, TypeOK
<1>. HIDE DEF image
<1>7. /\ images' \in Seq(Image) /\ images' # <<>> /\ db' = image
      /\ \A j \in DOMAIN images' :
           images'[j] = image \/ \E i \in DOMAIN images : images'[j] = images[i]
  BY <1>5, <1>6, LaterFacts DEF db
<1>8. /\ excuse' = excuse \cup (IF alter.reset THEN {"reset"} ELSE {})
                          \cup (IF alter.seen # db.next THEN {"alter"} ELSE {})
      /\ top' = Max({top, Ceiling(alter.def)}) /\ wide' = Max({wide, alter.def.inc})
      /\ alter' = None /\ UNCHANGED <<plan, cache, fetching, clash, events>>
  BY DEF AlterWrite
<1>9. /\ MaxInt \in Nat /\ top \in Int /\ wide \in Int /\ \A x \in Int64 : x \in Int
      /\ \A u \in Sessions : cache[u].end \in Int /\ plan[u] \in Definition
  BY <1>1, NumberFacts
<1>10. /\ alter.def.max \in Int64 /\ alter.def.inc \in Int64 /\ Ceiling(alter.def) \in Int64
       /\ alter.def.max \in Int /\ alter.def.inc \in Int /\ alter.def.min \in Int
       /\ alter.def.start \in Int /\ Ceiling(alter.def) \in Int
       /\ alter.def.min <= alter.def.start /\ 1 <= alter.def.inc
       /\ Ceiling(alter.def) < MaxInt => alter.def.start <= Ceiling(alter.def)
  BY <1>3, StoredFacts
<1>. DEFINE ceiling == Ceiling(alter.def)
<1>. HIDE DEF ceiling
<1>11. /\ top' \in {top, ceiling} /\ top <= top' /\ ceiling <= top'
       /\ wide' \in {wide, alter.def.inc} /\ wide <= wide' /\ alter.def.inc <= wide'
       /\ top' \in Int /\ wide' \in Int /\ ceiling \in Int
  <2>0. ceiling \in Int /\ top' = Max({top, ceiling})
    BY <1>8, <1>10 DEF ceiling
  <2>1. top' \in {top, ceiling} /\ top' >= top /\ top' >= ceiling
    BY <1>9, <2>0, PairFacts
  <2>2. wide' \in {wide, alter.def.inc} /\ wide' >= wide /\ wide' >= alter.def.inc
    BY <1>8, <1>9, <1>10, PairFacts
  <2>. QED  BY <1>9, <1>10, <2>0, <2>1, <2>2
<1>12. TypeOK'
  <2>1. excuse' \subseteq {"cycle", "wrap", "reset", "alter"}
    BY <1>1, <1>8 DEF TypeOK
  <2>2. top' \in Int64 /\ wide' \in Int64
    BY <1>1, <1>10, <1>11 DEF TypeOK, ceiling
  <2>. QED  BY <1>1, <1>7, <1>8, <2>1, <2>2 DEF TypeOK
<1>13. /\ alter.def.min = db.def.min /\ alter.def.start = db.def.start
       /\ \A i \in DOMAIN images : images[i].def.min = db.def.min /\ images[i].def.start = db.def.start
  BY <1>1, <1>2 DEF AlterInv, SameBase
<1>14. AlterInv' /\ MutexInv'
  <2>1. db'.def.min = db.def.min /\ db'.def.start = db.def.start
    BY <1>5, <1>7, <1>13
  <2>2. \A i \in DOMAIN images' : SameBase(images[i].def)'
    BY <1>5, <1>7, <1>13, <2>1 DEF SameBase
  <2>. QED  BY <1>1, <1>8, <2>1, <2>2 DEF AlterInv, MutexInv, SameBase
<1>15. \A i \in DOMAIN images : /\ images[i].def.inc \in Int /\ Ceiling(images[i].def) \in Int
                                /\ images[i].next \in Int /\ images[i].rows \in SUBSET Int
  <2>. SUFFICES ASSUME NEW i \in DOMAIN images
                PROVE  /\ images[i].def.inc \in Int /\ Ceiling(images[i].def) \in Int
                       /\ images[i].next \in Int /\ images[i].rows \in SUBSET Int
    OBVIOUS
  <2>1. images[i] \in Image
    BY <1>1, DbFacts
  <2>2. images[i].def \in Definition /\ images[i].next \in Int64 /\ images[i].rows \in SUBSET Int64
    BY <2>1 DEF Image
  <2>. QED  BY <1>9, <2>2, StoredFacts
<1>16. TopInv'
  <2>1. \A i \in DOMAIN images : Ceiling(images[i].def) <= top' /\ images[i].def.inc <= wide'
    BY <1>1, <1>9, <1>11, <1>15 DEF TopInv, Bounded
  <2>2. \A u \in Sessions : plan[u].inc <= wide'
    <3>1. \A u \in Sessions : plan[u].inc \in Int
      BY <1>9, StoredFacts
    <3>. QED  BY <1>1, <1>9, <1>11, <3>1 DEF TopInv
  <2>3. ASSUME NEW u \in Sessions, fetching[u] # None
        PROVE  Ceiling(fetching[u].def) <= top' /\ fetching[u].def.inc <= wide'
    <3>1. Ceiling(fetching[u].def) \in Int /\ fetching[u].def.inc \in Int
      BY <1>1, <2>3, CopyFacts, StoredFacts
    <3>2. Ceiling(fetching[u].def) <= top /\ fetching[u].def.inc <= wide
      BY <1>1, <2>3 DEF TopInv, Bounded
    <3>. QED  BY <1>9, <1>11, <3>1, <3>2
  <2>4. \A i \in DOMAIN images' :
          Ceiling(images'[i].def) <= top' /\ images'[i].def.inc <= wide'
    BY <1>5, <1>7, <1>11, <2>1 DEF ceiling
  <2>. QED  BY <1>8, <2>2, <2>3, <2>4 DEF TopInv, Bounded, Ceiling
<1>17. RangeInv'
  <2>. SUFFICES ASSUME top' + wide' <= MaxInt
                PROVE  /\ \A i \in DOMAIN images' : InRange(images[i])'
                       /\ \A u \in Sessions : fetching[u] # None =>
                            db.def.min <= fetching[u].next
                       /\ \A u \in Sessions : ~cache'[u].fetch =>
                            /\ db.def.min <= cache'[u].curr
                            /\ cache'[u].curr <= cache'[u].end /\ cache'[u].end <= top'
    BY <1>5, <1>7, <1>8, <1>13 DEF RangeInv
  <2>1. top + wide <= MaxInt /\ top + wide <= top' + wide'
    <3>1. /\ top <= top' /\ wide <= wide' /\ top' \in Int /\ wide' \in Int
          /\ top \in Int /\ wide \in Int /\ MaxInt \in Int
      BY <1>9, <1>11
    <3>. QED  BY <3>1, SumMonotone
  <2>2. /\ \A i \in DOMAIN images : InRange(images[i])
        /\ \A u \in Sessions : fetching[u] # None => db.def.min <= fetching[u].next
        /\ \A u \in Sessions : ~cache[u].fetch =>
             /\ db.def.min <= cache[u].curr
             /\ cache[u].curr <= cache[u].end /\ cache[u].end <= top
        /\ ~alter.reset => db.def.min <= alter.next /\ alter.next <= top + wide
    BY <1>1, <1>2, <2>1 DEF RangeInv
  <2>3. ASSUME NEW i \in DOMAIN images
        PROVE  /\ images[i].def.min <= images[i].next /\ images[i].next <= top' + wide'
               /\ \A v \in images[i].rows : images[i].def.min <= v /\ v <= top'
    <3>1. /\ images[i].def.min <= images[i].next /\ images[i].next <= top + wide
          /\ \A v \in images[i].rows : images[i].def.min <= v /\ v <= top
      BY <2>2 DEF InRange
    <3>2. images[i].next \in Int /\ images[i].rows \in SUBSET Int
      BY <1>15
    <3>. QED  BY <1>9, <1>11, <2>1, <3>1, <3>2
  <2>4. alter.def.min <= alter.next /\ alter.next <= top' + wide'
    <3>1. alter.next = IF alter.reset THEN alter.def.start ELSE alter.seen
      BY <1>1, <1>2 DEF AlterInv
    <3>2. CASE alter.reset
      <4>1. ceiling < MaxInt
        BY <1>9, <1>10, <1>11
      <4>2. alter.def.start <= ceiling
        BY <1>10, <4>1 DEF ceiling
      <4>. QED  BY <1>10, <1>11, <3>1, <3>2, <4>2
    <3>3. CASE ~alter.reset
      <4>1. alter.next \in Int
        BY <1>3, <1>9
      <4>. QED  BY <1>9, <1>11, <1>13, <2>1, <2>2, <3>3, <4>1
    <3>. QED  BY <3>2, <3>3
  <2>5. \A v \in db.rows : alter.def.min <= v /\ v <= top'
    BY <1>4, <1>13, <2>3
  <2>6. \A i \in DOMAIN images' : InRange(images[i])'
    <3>. SUFFICES ASSUME NEW i \in DOMAIN images' PROVE InRange(images[i])'
      OBVIOUS
    <3>1. CASE images'[i] = image
      BY <1>5, <2>4, <2>5, <3>1 DEF InRange
    <3>2. CASE \E k \in DOMAIN images : images'[i] = images[k]
      BY <2>3, <3>2 DEF InRange
    <3>. QED  BY <1>7, <3>1, <3>2
  <2>7. \A u \in Sessions : ~cache'[u].fetch =>
          /\ db.def.min <= cache'[u].curr
          /\ cache'[u].curr <= cache'[u].end /\ cache'[u].end <= top'
    BY <1>8, <1>9, <1>11, <2>2
  <2>. QED  BY <2>2, <2>6, <2>7
<1>18. UniqueInv'
  <2>. SUFFICES ASSUME excuse' = {}
                PROVE  /\ ~clash'
                       /\ \A i \in DOMAIN images' : Below(images[i])'
                       /\ \A u \in Sessions : fetching'[u] # None => fetching'[u].next = db'.next
                       /\ \A u \in Sessions : ~cache'[u].fetch => Holds(u)'
    BY DEF UniqueInv
  <2>1. excuse = {} /\ ~alter.reset /\ alter.seen = db.next
    BY <1>8
  <2>2. alter.next = db.next
    BY <1>1, <1>2, <2>1 DEF AlterInv
  <2>3. /\ ~clash
        /\ \A i \in DOMAIN images : Below(images[i])
        /\ \A u \in Sessions : fetching[u] # None => fetching[u].next = db.next
        /\ \A u \in Sessions : ~cache[u].fetch => Holds(u)
    BY <1>1, <2>1 DEF UniqueInv
  <2>4. Below(image)
    <3>1. Below(db)
      BY <1>4, <2>3
    <3>. QED  BY <1>5, <1>13, <2>2, <3>1 DEF Below
  <2>5. \A i \in DOMAIN images' : Below(images[i])'
    <3>. SUFFICES ASSUME NEW i \in DOMAIN images' PROVE Below(images'[i])
      BY DEF Below
    <3>. QED  BY <1>7, <2>3, <2>4
  <2>6. db'.next = db.next /\ db'.rows = db.rows
    BY <1>5, <1>7, <2>2
  <2>7. \A u \in Sessions : Holds(u) => Holds(u)'
    BY <1>8, <2>6 DEF Holds
  <2>. QED  BY <1>8, <2>3, <2>5, <2>6, <2>7
<1>. QED  BY <1>12, <1>14, <1>16, <1>17, <1>18 DEF IInv

\* The write of ALTER SEQUENCE fails.
LEMMA AlterFailsKeeps ==
  ASSUME IInv, AlterFails
  PROVE  IInv'
<1>1. TypeOK /\ AlterInv /\ MutexInv /\ TopInv /\ RangeInv /\ UniqueInv
  BY DEF IInv
<1>2. /\ alter' = None /\ db' = db
      /\ UNCHANGED <<images, plan, cache, fetching, clash, excuse, top, wide, events>>
  BY DEF AlterFails, db
<1>3. TypeOK'
  BY <1>1, <1>2 DEF TypeOK
<1>4. AlterInv' /\ MutexInv' /\ TopInv'
  BY <1>1, <1>2 DEF AlterInv, MutexInv, TopInv, SameBase, Bounded, Ceiling
<1>5. RangeInv'
  BY <1>1, <1>2 DEF RangeInv, InRange
<1>6. UniqueInv'
  BY <1>1, <1>2 DEF UniqueInv, Below, Holds
<1>. QED  BY <1>3, <1>4, <1>5, <1>6 DEF IInv

\* DROP SEQUENCE.
LEMMA DropKeeps ==
  ASSUME IInv, DropSequence
  PROVE  IInv'
<1>1. TypeOK /\ AlterInv /\ MutexInv /\ TopInv /\ RangeInv /\ UniqueInv
  BY DEF IInv
<1>2. /\ db \in Image /\ \E i \in DOMAIN images : db = images[i]
  BY <1>1, DbFacts
<1>. DEFINE image == [db EXCEPT !.live = FALSE, !.uid = FALSE]
<1>3. /\ image \in Image /\ image.def = db.def /\ image.next = db.next
      /\ image.rows = db.rows
  BY <1>2 DEF Image
<1>4. images' = Later(images, image) /\ images \in Seq(Image) /\ images # <<>>
  BY <1>1 DEF DropSequence, TypeOK
<1>. HIDE DEF image
<1>5. /\ images' \in Seq(Image) /\ images' # <<>> /\ db' = image
      /\ \A j \in DOMAIN images' :
           images'[j] = image \/ \E i \in DOMAIN images : images'[j] = images[i]
  BY <1>3, <1>4, LaterFacts DEF db
<1>6. UNCHANGED <<plan, cache, fetching, alter, clash, excuse, top, wide>>
  BY DEF DropSequence
<1>7. TypeOK'
  <2>1. events' \in 0..MaxEvents
    BY <1>1, SequenceAssumption DEF DropSequence, TypeOK
  <2>. QED  BY <1>1, <1>5, <1>6, <2>1 DEF TypeOK
<1>8. AlterInv' /\ MutexInv'
  BY <1>1, <1>3, <1>5, <1>6 DEF AlterInv, MutexInv, SameBase
<1>9. TopInv'
  BY <1>1, <1>2, <1>3, <1>5, <1>6 DEF TopInv, Bounded, Ceiling
<1>10. RangeInv'
  <2>1. top + wide <= MaxInt => \A i \in DOMAIN images' : InRange(images[i])'
    BY <1>1, <1>2, <1>3, <1>5, <1>6 DEF RangeInv, InRange
  <2>. QED  BY <1>1, <1>3, <1>5, <1>6, <2>1 DEF RangeInv
<1>11. UniqueInv'
  <2>1. excuse = {} => \A i \in DOMAIN images' : Below(images[i])'
    BY <1>1, <1>2, <1>3, <1>5 DEF UniqueInv, Below
  <2>2. \A u \in Sessions : Holds(u) => Holds(u)'
    BY <1>3, <1>5, <1>6 DEF Holds
  <2>. QED  BY <1>1, <1>3, <1>5, <1>6, <2>1, <2>2 DEF UniqueInv
<1>. QED  BY <1>7, <1>8, <1>9, <1>10, <1>11 DEF IInv

\* A power failure brings back one of the images; nobody holds anything.
LEMMA BlackoutKeeps ==
  ASSUME IInv, Blackout
  PROVE  IInv'
<1>1. TypeOK /\ AlterInv /\ MutexInv /\ TopInv /\ RangeInv /\ UniqueInv
  BY DEF IInv
<1>2. PICK i \in DOMAIN images :
        images' = <<images[i]>> /\ plan' = [s \in Sessions |-> images[i].def]
  BY DEF Blackout
<1>. DEFINE image == images[i]
<1>3. image \in Image /\ image.def \in Definition
  BY <1>1, DbFacts DEF Image
<1>4. image = images[i]
  OBVIOUS
<1>. HIDE DEF image
<1>5. /\ images' \in Seq(Image) /\ images' # <<>> /\ db' = image
      /\ \A j \in DOMAIN images' : images'[j] = image
  <2>1. images' = <<image>>
    BY <1>2, <1>4
  <2>2. Len(images') = 1 /\ DOMAIN images' = {1} /\ images'[1] = image
    BY <2>1
  <2>3. images' \in Seq(Image) /\ images' # <<>>
    BY <1>3, <2>1
  <2>. QED  BY <2>2, <2>3 DEF db, Last
<1>6. /\ cache' = [s \in Sessions |-> EmptyEntry] /\ alter' = None
      /\ fetching' = [s \in Sessions |-> None]
      /\ UNCHANGED <<clash, excuse, top, wide>>
  BY DEF Blackout
<1>7. \A u \in Sessions : cache'[u].fetch = TRUE /\ plan'[u] = image.def /\ fetching'[u] = None
  BY <1>2, <1>4, <1>6, EmptyEntryTyped
<1>8. TypeOK'
  <2>1. events' \in 0..MaxEvents
    BY <1>1, SequenceAssumption DEF Blackout, TypeOK
  <2>2. cache' \in [Sessions -> Entry] /\ plan' \in [Sessions -> Definition]
        /\ fetching' \in [Sessions -> {None} \cup Copy]
    BY <1>2, <1>3, <1>4, <1>6, EmptyEntryTyped
  <2>. QED  BY <1>1, <1>5, <1>6, <2>1, <2>2 DEF TypeOK
<1>9. AlterInv' /\ MutexInv'
  BY <1>5, <1>6, <1>7 DEF AlterInv, MutexInv, SameBase
<1>10. TopInv'
  <2>1. Bounded(image.def)
    BY <1>1, <1>4 DEF TopInv
  <2>. QED  BY <1>5, <1>6, <1>7, <2>1 DEF TopInv, Bounded, Ceiling
<1>11. RangeInv'
  BY <1>1, <1>4, <1>5, <1>6, <1>7 DEF RangeInv, InRange
<1>12. UniqueInv'
  BY <1>1, <1>4, <1>5, <1>6, <1>7 DEF UniqueInv, Below
<1>. QED  BY <1>8, <1>9, <1>10, <1>11, <1>12 DEF IInv

\* Every step keeps the invariant.
LEMMA NextInv == IInv /\ [Next]_vars => IInv'
<1>. SUFFICES ASSUME IInv, [Next]_vars PROVE IInv'
  OBVIOUS
<1>1. CASE UNCHANGED vars
  <2>1. db' = db
    BY <1>1 DEF vars, db
  <2>2. TypeOK'
    BY <1>1 DEF vars, IInv, TypeOK
  <2>3. AlterInv' /\ MutexInv' /\ TopInv'
    BY <1>1, <2>1 DEF vars, IInv, AlterInv, MutexInv, TopInv, SameBase, Bounded, Ceiling
  <2>4. RangeInv'
    BY <1>1, <2>1 DEF vars, IInv, RangeInv, InRange
  <2>5. UniqueInv'
    BY <1>1, <2>1 DEF vars, IInv, UniqueInv, Below, Holds
  <2>. QED  BY <2>2, <2>3, <2>4, <2>5 DEF IInv
<1>. QED  BY <1>1, CachedKeeps, FetchedKeeps, SessionKeeps, CurrentKeeps, AlterLoadKeeps,
             AlterWriteKeeps, AlterFailsKeeps, DropKeeps, BlackoutKeeps DEF Next
-----------------------------------------------------------------------------
\* The invariant holds in every reachable state, for any sessions, width and
\* definitions.
THEOREM SequenceInvariant == Spec => []IInv
BY InitInv, NextInv, PTL DEF Spec

\* Types: allocateSequence stores only integers of the width, and whatever copy
\* the binder of ALTER validates, the record it merges its options into can be
\* allocated from: MINVALUE and INCREMENT positive, START WITH not below
\* MINVALUE, MAXVALUE 0 (NO MAXVALUE) or not below START WITH.
THEOREM SequenceTypeOK == Spec => []TypeOK
<1>1. IInv => TypeOK
  BY DEF IInv
<1>. QED  BY <1>1, SequenceInvariant, PTL

\* While nobody has asked for NO MAXVALUE and MAXVALUE leaves room for one more
\* increment, getNextSeqVal gives out only values between MINVALUE and the
\* largest MAXVALUE so far, also from records whose CACHE or INCREMENT does not
\* fit the range.
THEOREM ValuesStayInRange == Spec => []ValuesInRange
<1>1. IInv => ValuesInRange
  <2>. SUFFICES ASSUME IInv, top + wide <= MaxInt, NEW v \in db.rows
                PROVE  v >= db.def.min /\ v <= top
    BY DEF ValuesInRange
  <2>1. TypeOK /\ RangeInv
    BY DEF IInv
  <2>2. /\ db.def \in Definition /\ v \in Int /\ \E i \in DOMAIN images : db = images[i]
    BY <2>1, DbFacts
  <2>3. InRange(db)
    BY <2>1, <2>2 DEF RangeInv
  <2>4. db.def.min \in Int
    BY <2>2, StoredFacts
  <2>. QED  BY <2>2, <2>3, <2>4 DEF InRange
<1>. QED  BY <1>1, SequenceInvariant, PTL

\* No value is given out that a row has, through caches, ALTER and power
\* failures, unless one of the named causes has occurred.
THEOREM NoValueGivenTwice == Spec => []NoValueTwice
<1>1. IInv => NoValueTwice
  BY DEF IInv, UniqueInv, NoValueTwice
<1>. QED  BY <1>1, SequenceInvariant, PTL

\* The blocks sessions have cached are behind the counter and never overlap.
THEOREM BlocksStayApart == Spec => []BlocksApart
<1>1. IInv => BlocksApart
  BY DEF IInv, UniqueInv, Holds, BlocksApart
<1>. QED  BY <1>1, SequenceInvariant, PTL
=============================================================================
