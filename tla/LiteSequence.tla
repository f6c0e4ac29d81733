---------------------------- MODULE LiteSequence ----------------------------
(***************************************************************************)
(* Sequence generators of Trafodion Lite: the record of a sequence in the  *)
(* catalog (LiteStorageManager::allocateSequence, LiteRocksDBStore's       *)
(* create, alter and drop), the block of values each session has cached    *)
(* (SeqGenEntry), ALTER SEQUENCE, and the rows that keep the values.       *)
(*                                                                         *)
(* Catalog and rows are in one database: images holds what is on disk,     *)
(* first, and what each later write adds; the last one is what it shows    *)
(* now.  An allocation is not synchronous; a synchronous commit puts       *)
(* everything before it on disk.  Integers wrap beyond MaxInt.             *)
(***************************************************************************)
EXTENDS Integers, Sequences, SequencesExt, FiniteSetsExt

CONSTANTS
  Sessions,
  MaxInt,         \* the largest Int64, 2^63 - 1 in the code
  Definitions,    \* what CREATE SEQUENCE may define
  Alterations,    \* the options ALTER SEQUENCE may give
  MaxEvents,      \* bound: ALTER and DROP statements and power failures
  MaxCalls,       \* bound: allocations since CREATE or RESET
  MaxUnsynced     \* bound: images kept; older ones have reached the disk

Modulus == 2 * (MaxInt + 1)
Int64 == (-MaxInt - 1)..MaxInt
Wrap(x) == ((x + MaxInt + 1) % Modulus) - MaxInt - 1

(***************************************************************************)
(* ElemDDLSGOptions::validate: the definitions CREATE lets pass.           *)
(* cache = 0 is NO CACHE.                                                  *)
(***************************************************************************)
InBounds(d) ==
  /\ d.min > 0 /\ d.max > d.min /\ d.max < MaxInt
  /\ d.start \in d.min..d.max
  /\ d.inc \in 1..(d.max - d.min)

RangeOfVals(d) == (d.max - d.start) \div d.inc + 1

Legal(d) == InBounds(d) /\ (d.cache # 0 => d.cache \in 2..RangeOfVals(d))

(***************************************************************************)
(* What the catalog may hold after ALTER, which validates one copy of the  *)
(* attributes and stores its options in another: a MAXVALUE of 0 is what   *)
(* NO MAXVALUE leaves, the INCREMENT need not fit below MAXVALUE, and the  *)
(* CACHE may be larger than the range.                                     *)
(***************************************************************************)
Storable(d) ==
  /\ d.min > 0 /\ d.start >= d.min
  /\ d.max # 0 => d.max > d.min /\ d.max >= d.start /\ d.max < MaxInt
  /\ d.inc \in 1..(MaxInt - 1)
  /\ d.cache # 0 => d.cache >= 2

Attributes == [min : Int64, max : Int64, start : Int64, inc : Int64, cycle : BOOLEAN,
               cache : Int64]
Definition == {d \in Attributes : Storable(d)}

\* The options of an ALTER; RESET stands alone in the grammar.
OptionNames == {"INCREMENT", "MAXVALUE", "NOMAXVALUE", "CYCLE", "CACHE", "RESET"}
Options ==
  {o \in [spec : SUBSET OptionNames, inc : Int64, max : Int64, cycle : BOOLEAN,
          cache : Int64] :
     /\ "RESET" \in o.spec => o.spec = {"RESET"}
     /\ ~({"MAXVALUE", "NOMAXVALUE"} \subseteq o.spec)}

ASSUME SequenceAssumption ==
  /\ MaxInt \in Nat
  /\ Definitions \subseteq {d \in Attributes : Legal(d)}
  /\ Alterations \subseteq Options
  /\ MaxEvents \in Nat /\ MaxCalls \in Nat /\ MaxUnsynced \in Nat \ {0}

VARIABLES
  images,    \* of the database: the sequence's record, and the values in rows
  plan,      \* per session: the attributes its compiled statement carries
  cache,     \* per session: its SeqGenEntry
  fetching,  \* per session: the record its allocation has read, or None
  alter,     \* what an ALTER in progress has loaded, or None
  clash,     \* a value was given out that is in use
  excuse,    \* why that may happen (see Excuse)
  top, wide, \* the largest MAXVALUE and INCREMENT so far; MaxInt for NO MAXVALUE
  events

vars == <<images, plan, cache, fetching, alter, clash, excuse, top, wide, events>>

db == Last(images)

\* A write that is not synchronous.
Later(list, image) ==
  LET all == Append(list, image)
  IN  IF Len(all) > MaxUnsynced THEN Tail(all) ELSE all

\* The row that takes a value: rolled back, committed by a write that is not
\* synchronous, or by one that is.
Fates == {"discarded", "written", "synced"}

WithRow(list, v, fate) ==
  LET image == [Last(list) EXCEPT !.rows = @ \cup {v}]
  IN  CASE fate = "discarded" -> list
        [] fate = "written"   -> Later(list, image)
        [] fate = "synced"    -> <<image>>

\* live: there is a record; uid: the key that leads from the UID to it.
Image  == [def : Definition, next : Int64, calls : Nat, live : BOOLEAN,
           uid : BOOLEAN, rows : SUBSET Int64]
Entry  == [fetch : BOOLEAN, curr : Int64, end : Int64]
Copy   == [loaded : {TRUE}, def : Definition, next : Int64, calls : Nat]
Change == [loaded : {TRUE}, reset : BOOLEAN, seen : Int64, def : Definition,
           next : Int64, calls : Nat]

None == [loaded |-> FALSE]
EmptyEntry == [fetch |-> TRUE, curr |-> 0, end |-> 0]

Init ==
  \E d \in Definitions :
    /\ images = <<[def |-> d, next |-> d.start, calls |-> 0, live |-> TRUE,
                  uid |-> TRUE, rows |-> {}]>>
    /\ plan = [s \in Sessions |-> d]
    /\ cache = [s \in Sessions |-> EmptyEntry]
    /\ fetching = [s \in Sessions |-> None]
    /\ alter = None /\ clash = FALSE /\ excuse = {}
    /\ top = d.max /\ wide = d.inc
    /\ events = 0
-----------------------------------------------------------------------------
(***************************************************************************)
(* LiteStorageManager::allocateSequence.  The storage mutex keeps other    *)
(* allocations out from the read of the record to the put, but not ALTER   *)
(* and DROP.                                                               *)
(***************************************************************************)

\* Division of C++, and the conversion to an unsigned number.
Quotient(a, b) == IF a >= 0 THEN a \div b ELSE -((-a) \div b)
Unsigned(x) == x % Modulus

Exhausted(rec) == rec.next > rec.def.max /\ ~rec.def.cycle

\* Mutant: the next block begins at the last value of this one.
BlockOffByOne(rec, requested) ==
  LET first == IF rec.next > rec.def.max THEN rec.def.min ELSE rec.next
      avail == Unsigned(Quotient(Wrap(rec.def.max - first), rec.def.inc) + 1)
      count == Min({requested, avail})
      last  == Wrap(first + (count - 1) * rec.def.inc)
  IN  [first |-> first, last |-> last, next |-> last]

\* Mutant: the block is not cut at MAXVALUE.
BlockUncut(rec, requested) ==
  LET first == IF rec.next > rec.def.max THEN rec.def.min ELSE rec.next
      last  == Wrap(first + (requested - 1) * rec.def.inc)
  IN  [first |-> first, last |-> last, next |-> Wrap(last + rec.def.inc)]

Block(rec, requested) ==
  LET first == IF rec.next > rec.def.max THEN rec.def.min ELSE rec.next
      avail == Unsigned(Quotient(Wrap(rec.def.max - first), rec.def.inc) + 1)
      count == Min({requested, avail})
      last  == Wrap(first + (count - 1) * rec.def.inc)
  IN  [first |-> first, last |-> last, next |-> Wrap(last + rec.def.inc)]

\* SQLCLI_SeqGenCliInterface asks for the cache of the compiled statement.
Requested(s) == Max({1, plan[s].cache})

Allocated(s) == Block(fetching[s], Requested(s))

\* Ghost: reasons why a value may come again.
ExcuseOf(s) ==
  (IF fetching[s].next > fetching[s].def.max THEN {"cycle"} ELSE {})
    \cup (IF Allocated(s).next < Allocated(s).first THEN {"wrap"} ELSE {})

\* The put: the whole record as it was read, its counter moved.  It undoes an
\* ALTER and brings back a dropped record, without its UID key.
PutCounter(s) ==
  Later(images, [db EXCEPT !.def = fetching[s].def, !.next = Allocated(s).next,
                           !.calls = fetching[s].calls + 1, !.live = TRUE])
-----------------------------------------------------------------------------
(***************************************************************************)
(* SeqGenEntry::getNextSeqVal.                                             *)
(***************************************************************************)

\* The entry after cachedCurrValue_ += increment, of the compiled statement.
Bumped(s) == Wrap(cache[s].curr + plan[s].inc)

NeedsRange(s) == cache[s].fetch \/ Bumped(s) > cache[s].end

\* The next value of the cached block.
NextCached(s, fate) ==
  /\ ~NeedsRange(s)
  /\ cache' = [cache EXCEPT ![s].curr = Bumped(s)]
  /\ images' = WithRow(images, Bumped(s), fate)
  /\ clash' = (clash \/ Bumped(s) \in db.rows)
  /\ excuse' = IF Bumped(s) < cache[s].curr THEN excuse \cup {"wrap"} ELSE excuse
  /\ UNCHANGED <<plan, fetching, alter, top, wide, events>>

\* Mutant: the storage mutex is not taken.
FetchReadUnlocked(s) ==
  /\ NeedsRange(s) /\ fetching[s] = None
  /\ db.live /\ db.uid /\ ~Exhausted(db) /\ db.calls < MaxCalls
  /\ fetching' = [fetching EXCEPT ![s] = [loaded |-> TRUE, def |-> db.def,
                                          next |-> db.next, calls |-> db.calls]]
  /\ UNCHANGED <<images, plan, cache, alter, clash, excuse, top, wide, events>>

\* The first half of an allocation: nobody else is in one.
FetchRead(s) ==
  /\ NeedsRange(s) /\ \A u \in Sessions : fetching[u] = None
  /\ db.live /\ db.uid /\ ~Exhausted(db) /\ db.calls < MaxCalls
  /\ fetching' = [fetching EXCEPT ![s] = [loaded |-> TRUE, def |-> db.def,
                                          next |-> db.next, calls |-> db.calls]]
  /\ UNCHANGED <<images, plan, cache, alter, clash, excuse, top, wide, events>>

\* The rest of fetchNewRange; the block is lost when its first value is beyond
\* the MAXVALUE the statement was compiled with.
BlockLost(s) == Allocated(s).first > plan[s].max

FetchRange(s) ==
  /\ fetching[s].loaded
  /\ fetching' = [fetching EXCEPT ![s] = None]
  /\ excuse' = excuse \cup ExcuseOf(s)
  /\ cache' = [cache EXCEPT ![s] =
       IF BlockLost(s) THEN EmptyEntry
       ELSE [fetch |-> FALSE, curr |-> Allocated(s).first, end |-> Allocated(s).last]]

NextFetched(s, fate) ==
  /\ FetchRange(s)
  /\ IF BlockLost(s)
     THEN images' = PutCounter(s) /\ UNCHANGED clash
     ELSE /\ images' = WithRow(PutCounter(s), Allocated(s).first, fate)
          /\ clash' = (clash \/ Allocated(s).first \in db.rows)
  /\ UNCHANGED <<plan, alter, top, wide, events>>

\* The sequence is used up or dropped, or a read or the put fails.
\* fetchNewRange_ stays set, so nothing reads the bumped value again: the
\* entry is as good as new.
NextFails(s) ==
  /\ NeedsRange(s)
  /\ cache' = [cache EXCEPT ![s] = EmptyEntry]
  /\ fetching' = [fetching EXCEPT ![s] = None]
  /\ UNCHANGED <<images, plan, alter, clash, excuse, top, wide, events>>

\* getCurrSeqVal: only the first call of an entry fetches; nothing is new.
CurrentValue(s) ==
  /\ cache[s].fetch
  /\ FetchRange(s)
  /\ images' = PutCounter(s)
  /\ UNCHANGED <<plan, alter, clash, top, wide, events>>

\* The session compiles its statement anew.
Compile(s) ==
  /\ db.live /\ plan[s] # db.def /\ fetching[s] = None
  /\ plan' = [plan EXCEPT ![s] = db.def]
  /\ UNCHANGED <<images, cache, fetching, alter, clash, excuse, top, wide, events>>
-----------------------------------------------------------------------------
(***************************************************************************)
(* alterSeabaseSequence: load, change, write back.  One DDL statement runs *)
(* at a time, but allocations go on.                                       *)
(***************************************************************************)
Given(o, name, value, old) == IF name \in o.spec THEN value ELSE old

\* Mutant: importSGO is left out, so the options are not validated.
ValidatedWithoutOptions(base, o) == base

\* tempSGO of the binder: importSGO leaves the old MAXVALUE under NO MAXVALUE.
Validated(base, o) ==
  [base EXCEPT !.inc = Given(o, "INCREMENT", o.inc, @),
               !.max = Given(o, "MAXVALUE", o.max, @),
               !.cache = Given(o, "CACHE", o.cache, @)]

\* validate(1): a CACHE that is not among the options is not looked at.
AlterValid(t, o) ==
  /\ InBounds(t)
  /\ Given(o, "CACHE", t.cache, Min({RangeOfVals(t), 25})) \in 2..RangeOfVals(t)

\* What alterSeabaseSequence makes of the record: the options as parsed, where
\* NO MAXVALUE is 0.
Merged(d, o) ==
  [d EXCEPT !.inc = Given(o, "INCREMENT", o.inc, @),
            !.max = Given(o, "MAXVALUE", o.max, Given(o, "NOMAXVALUE", 0, @)),
            !.cycle = Given(o, "CYCLE", o.cycle, @),
            !.cache = Given(o, "CACHE", o.cache, @)]

\* The binder's NATable may be older than the record: a session keeps it as
\* long as the attributes of its statements.
AlterLoad(o) ==
  /\ events < MaxEvents /\ alter = None /\ db.live
  /\ \E base \in {db.def} \cup {plan[s] : s \in Sessions} : AlterValid(Validated(base, o), o)
  /\ events' = events + 1
  /\ LET reset == "RESET" \in o.spec
     IN  alter' = [loaded |-> TRUE, reset |-> reset, seen |-> db.next,
                   def |-> Merged(db.def, o),
                   next |-> IF reset THEN db.def.start ELSE db.next,
                   calls |-> IF reset THEN 0 ELSE db.calls]
  /\ UNCHANGED <<images, plan, cache, fetching, clash, excuse, top, wide>>

\* Ghost: the MAXVALUE a definition asks for.
Ceiling(d) == IF d.max = 0 THEN MaxInt ELSE d.max

AlterWrite ==
  /\ alter.loaded
  /\ images' = Later(images, [db EXCEPT !.def = alter.def, !.next = alter.next,
                                    !.calls = alter.calls])
  /\ excuse' = excuse \cup (IF alter.reset THEN {"reset"} ELSE {})
                      \cup (IF alter.seen # db.next THEN {"alter"} ELSE {})
  /\ top' = Max({top, Ceiling(alter.def)}) /\ wide' = Max({wide, alter.def.inc})
  /\ alter' = None
  /\ UNCHANGED <<plan, cache, fetching, clash, events>>

\* The put of alterSequence fails.
AlterFails ==
  /\ alter.loaded
  /\ alter' = None
  /\ UNCHANGED <<images, plan, cache, fetching, clash, excuse, top, wide, events>>

DropSequence ==
  /\ db.live /\ alter = None /\ events < MaxEvents
  /\ events' = events + 1
  /\ images' = Later(images, [db EXCEPT !.live = FALSE, !.uid = FALSE])
  /\ UNCHANGED <<plan, cache, fetching, alter, clash, excuse, top, wide>>

\* A power failure: any image may be what is left; every session is gone,
\* and so are an allocation and an ALTER that had not written.
Blackout ==
  /\ events < MaxEvents
  /\ events' = events + 1
  /\ \E i \in DOMAIN images :
       /\ images' = <<images[i]>>
       /\ plan' = [s \in Sessions |-> images[i].def]
  /\ cache' = [s \in Sessions |-> EmptyEntry]
  /\ fetching' = [s \in Sessions |-> None]
  /\ alter' = None
  /\ UNCHANGED <<clash, excuse, top, wide>>

Next ==
  \/ \E s \in Sessions :
       \/ \E fate \in Fates : NextCached(s, fate) \/ NextFetched(s, fate)
       \/ FetchRead(s) \/ NextFails(s) \/ CurrentValue(s) \/ Compile(s)
  \/ \E o \in Alterations : AlterLoad(o)
  \/ AlterWrite \/ AlterFails \/ DropSequence \/ Blackout

Spec == Init /\ [][Next]_vars
-----------------------------------------------------------------------------
(***************************************************************************)
(* Properties.                                                             *)
(***************************************************************************)

\* Types.  Whatever copy ALTER validates, what the catalog and the compiled
\* statements hold can be allocated from: MINVALUE and INCREMENT are positive,
\* START WITH is not below MINVALUE, and MAXVALUE is 0 or not below START WITH.
TypeOK ==
  /\ images \in Seq(Image) /\ images # <<>>
  /\ plan \in [Sessions -> Definition]
  /\ cache \in [Sessions -> Entry]
  /\ fetching \in [Sessions -> {None} \cup Copy]
  /\ alter \in {None} \cup Change
  /\ clash \in BOOLEAN
  /\ excuse \subseteq {"cycle", "wrap", "reset", "alter"}
  /\ top \in Int64 /\ wide \in Int64
  /\ events \in 0..MaxEvents

\* While nobody has asked for NO MAXVALUE, and MAXVALUE leaves room for one
\* more increment below the largest integer, only values between MINVALUE and
\* the largest MAXVALUE so far are given out, whatever else ALTER does to the
\* sequence while sessions hold blocks and old plans, a CACHE beyond the range
\* and an INCREMENT that does not fit included.
ValuesInRange ==
  top + wide <= MaxInt =>
    \A v \in db.rows : v >= db.def.min /\ v <= top

\* No value is given out that a row has, with
\* sessions that cache blocks, sequences altered under them, and power
\* failures that undo allocations: except after CYCLE, RESET, an overflow, or
\* an allocation between the load and the write of an ALTER.
NoValueTwice == clash => excuse # {}

\* What the counter has moved past is all that sessions still hold in their
\* blocks: the blocks of two sessions never overlap.
BlocksApart ==
  excuse = {} =>
    \A s \in Sessions : ~cache[s].fetch =>
      /\ cache[s].end < db.next
      /\ \A u \in Sessions \ {s} :
           ~cache[u].fetch => \/ cache[s].end < cache[u].curr
                              \/ cache[u].end < cache[s].curr
=============================================================================
