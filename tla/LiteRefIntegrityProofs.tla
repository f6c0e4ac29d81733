----------------------- MODULE LiteRefIntegrityProofs -----------------------
(***************************************************************************)
(* What holds of the referential checks for any number of sessions, keys   *)
(* and rows.  The inductive invariant follows what a checked session still *)
(* knows when its write comes: the keys it refers to are there, and nobody *)
(* refers to the keys it removes, except where another session's write     *)
(* intervened, and then the key is contested.                              *)
(***************************************************************************)
EXTENDS LiteRefIntegrity, LiteFacts, FiniteSetTheorems, TLAPS

ChildKinds == {"cins", "cupd", "cdel"}
ParentKinds == {"pins", "pupd", "pdel"}

\* A row change as the statements make it.
Shaped(op) ==
  \/ op \in ChildOp /\ op.kind = "cins" /\ op.was = Absent /\ op.ref \in Refs
  \/ op \in ChildOp /\ op.kind = "cupd" /\ op.was \in Refs /\ op.ref \in Refs
  \/ op \in ChildOp /\ op.kind = "cdel" /\ op.was \in Refs /\ op.ref = Absent
  \/ op \in ParentOp

\* The changes of one session: each as statements make them, no child row
\* twice.
WellFormed(os) ==
  /\ os \in Seq(ChildOp \cup ParentOp)
  /\ \A op \in ToSet(os) : Shaped(op)
  /\ \A o1, o2 \in ToSet(os) :
       o1 \in ChildOp /\ o2 \in ChildOp /\ o1.id = o2.id => o1 = o2

\* The keys a session's new references name are there when it has written,
\* or their removal was contested.
AddedInv(s) ==
  \A r \in AddedRefs(ops[s]) \cap ParentKeys :
    r \in AfterParent(parent, ops[s]) \/ r \in contested

\* No child refers to a key a session removes when it has written, or the
\* key was contested, or the overlay misled the check.
RemovedInv(s) ==
  OverlayApplies(ops[s]) =>
    \A k \in RemovedKeys(ops[s]) :
      k \in contested \/ \A i \in ChildIds : AfterChild(child, ops[s])[i] # k

IInv ==
  /\ TypeOK
  /\ \A s \in Sessions : WellFormed(ops[s])
  /\ \A s \in Sessions : Checked(s) => AddedInv(s) /\ RemovedInv(s)
  /\ OrphansWereContested
-----------------------------------------------------------------------------
\* The elements of a list of changes.
LEMMA Elements ==
  ASSUME NEW os, WellFormed(os), NEW op \in ToSet(os)
  PROVE  /\ op \in ChildOp \cup ParentOp
         /\ Shaped(op)
         /\ op \in ChildOp <=> op.kind \in ChildKinds
         /\ op \in ParentOp <=> op.kind \in ParentKinds
<1>1. op \in ChildOp \cup ParentOp
  BY DEF WellFormed, ToSet
<1>2. op \in ChildOp => op.kind \in ChildKinds
  BY DEF ChildOp, ChildKinds
<1>3. op \in ParentOp => op.kind \in ParentKinds
  BY DEF ParentOp, ParentKinds
<1>4. ~(op.kind \in ChildKinds /\ op.kind \in ParentKinds)
  BY DEF ChildKinds, ParentKinds
<1>. QED  BY <1>1, <1>2, <1>3, <1>4 DEF WellFormed

\* What the write of a well-formed list makes of a child row.
LEMMA AfterChildFacts ==
  ASSUME NEW os, WellFormed(os), NEW c, NEW i \in ChildIds
  PROVE  /\ \A op \in ToSet(os) : op \in ChildOp /\ op.id = i
              => AfterChild(c, os)[i] = op.ref
         /\ (\A op \in ToSet(os) : ~(op \in ChildOp /\ op.id = i))
              => AfterChild(c, os)[i] = c[i]
<1>. DEFINE Hit(op) == op.kind \in {"cins", "cupd", "cdel"} /\ op.id = i
<1>1. \A op \in ToSet(os) : Hit(op) <=> op \in ChildOp /\ op.id = i
  BY Elements DEF ChildKinds
<1>2. AfterChild(c, os)[i] =
        IF \E op \in ToSet(os) : Hit(op)
          THEN (CHOOSE op \in ToSet(os) : Hit(op)).ref ELSE c[i]
  BY DEF AfterChild
<1>. HIDE DEF Hit
<1>3. ASSUME NEW op \in ToSet(os), op \in ChildOp, op.id = i
      PROVE  AfterChild(c, os)[i] = op.ref
  <2>. DEFINE o == CHOOSE x \in ToSet(os) : Hit(x)
  <2>1. o \in ToSet(os) /\ Hit(o)
    BY <1>1, <1>3
  <2>2. o = op
    <3>. HIDE DEF o
    <3>. QED  BY <1>1, <1>3, <2>1 DEF WellFormed
  <2>. QED  BY <1>1, <1>2, <1>3, <2>2
<1>4. ASSUME \A op \in ToSet(os) : ~(op \in ChildOp /\ op.id = i)
      PROVE  AfterChild(c, os)[i] = c[i]
  BY <1>1, <1>2, <1>4
<1>. QED  BY <1>3, <1>4

\* A key a list removes is not there after its write; a key that its write
\* takes away is one it removes.
LEMMA AfterParentFacts ==
  ASSUME NEW os, WellFormed(os), NEW p \in SUBSET ParentKeys
  PROVE  /\ AfterParent(p, os) \subseteq ParentKeys
         /\ RemovedKeys(os) \subseteq ParentKeys
         /\ \A k \in RemovedKeys(os) : k \notin AfterParent(p, os)
         /\ \A k \in p : k \notin AfterParent(p, os) => k \in RemovedKeys(os)
<1>1. \A op \in ToSet(os) : op.kind \in ParentKinds =>
        op.key \in ParentKeys /\ op.to \in ParentKeys
  <2>. SUFFICES ASSUME NEW op \in ToSet(os), op.kind \in ParentKinds
                PROVE  op.key \in ParentKeys /\ op.to \in ParentKeys
    OBVIOUS
  <2>1. op \in ParentOp
    BY Elements
  <2>. QED  BY <2>1 DEF ParentOp
<1>2. AfterParent(p, os) \subseteq ParentKeys /\ RemovedKeys(os) \subseteq ParentKeys
  BY <1>1 DEF AfterParent, RemovedKeys, Has, ParentKinds
<1>3. \A k \in RemovedKeys(os) : k \notin AfterParent(p, os)
  BY DEF AfterParent, RemovedKeys, Has
<1>4. \A k \in p : k \notin AfterParent(p, os) => k \in RemovedKeys(os)
  BY DEF AfterParent, RemovedKeys, Has
<1>. QED  BY <1>2, <1>3, <1>4

\* referencedKeyExists says whether the key is there after the write.
LEMMA ReferencedMeansAfter ==
  ASSUME NEW os, NEW k
  PROVE  ReferencedKeyExists(os, k) <=> k \in AfterParent(parent, os)
BY DEF ReferencedKeyExists, AfterParent, Has

\* A well-formed list adds references only with changes of child rows.
LEMMA AddedFacts ==
  ASSUME NEW os, WellFormed(os), NEW op \in ToSet(os), op \in ChildOp
  PROVE  /\ op.id \in ChildIds
         /\ op.ref \in AddedRefs(os) \/ (op.kind = "cdel" /\ op.ref = Absent)
         /\ op.kind \in {"cins", "cupd"} => op.ref \in Refs
<1>1. Shaped(op) /\ op.kind \in ChildKinds
  BY Elements
<1>2. op.id \in ChildIds
  BY DEF ChildOp
<1>3. CASE op.kind \in {"cins", "cupd"}
  <2>1. op.ref \in AddedRefs(os)
    BY <1>3 DEF AddedRefs, Has
  <2>2. op.ref \in Refs
    BY <1>1, <1>3 DEF Shaped, ParentOp, ParentKinds
  <2>. QED  BY <1>2, <2>1, <2>2
<1>4. CASE op.kind = "cdel"
  <2>1. op.ref = Absent
    BY <1>1, <1>4 DEF Shaped, ParentOp
  <2>. QED  BY <1>2, <1>4, <2>1
<1>. QED  BY <1>1, <1>3, <1>4 DEF ChildKinds

\* Nobody is before the first row.
LEMMA RankIsNumber ==
  ASSUME NEW S \in SUBSET Nat, NEW i \in Nat
  PROVE  Cardinality({j \in S : j < i}) \in Nat
<1>1. IsFiniteSet(0..i)
  BY FS_Interval
<1>2. {j \in S : j < i} \subseteq 0..i
  <2>. SUFFICES ASSUME NEW j \in S, j < i PROVE j \in 0..i
    OBVIOUS
  <2>1. j \in Nat
    OBVIOUS
  <2>. QED  BY <2>1
<1>3. IsFiniteSet({j \in S : j < i})
  BY <1>1, <1>2, FS_Subset
<1>. QED  BY <1>3, FS_CardinalityType

\* The child rows a fresh list changes are what its statements saw.
LEMMA FreshChildren ==
  ASSUME NEW os, WellFormed(os), Fresh(os), NEW op \in ToSet(os), op \in ChildOp
  PROVE  child[op.id] = op.was /\ (op.kind = "cins" <=> op.was = Absent)
<1>1. op.kind \in {"cins", "cupd", "cdel"} /\ Shaped(op)
  BY Elements DEF ChildKinds
<1>2. child[op.id] = op.was
  BY <1>1 DEF Fresh
<1>3. op.kind = "cins" <=> op.was = Absent
  BY <1>1, RefAssumption DEF Shaped, Refs, ParentOp
<1>. QED  BY <1>2, <1>3

\* Where the overlay applies, the child rows the check sees refer to a removed
\* key exactly when a child row does after the write.
LEMMA OverlayExact ==
  ASSUME TypeOK, NEW os, WellFormed(os), Fresh(os), OverlayApplies(os),
         NEW k \in RemovedKeys(os)
  PROVE  k \in OverlaidRefs(os) <=> \E i \in ChildIds : AfterChild(child, os)[i] = k
<1>. DEFINE stored  == {i \in ChildIds : child[i] # Absent}
            updates == Has(os, "cupd")
            deletes == Has(os, "cdel")
            Rank(i) == Cardinality({j \in stored : j < i})
            kept    == IF keyed THEN {i \in stored : Rank(i) >= Cardinality(deletes)}
                       ELSE stored \ {op.id : op \in deletes}
            Ref(i)  == IF keyed /\ updates # {} THEN Last(Of(os, "cupd")).ref
                       ELSE IF \E u \in updates : u.id = i
                              THEN (CHOOSE u \in updates : u.id = i).ref
                              ELSE child[i]
<1>1. OverlaidRefs(os) = {Ref(i) : i \in kept} \cup {op.ref : op \in Has(os, "cins")}
  BY DEF OverlaidRefs
<1>2. k \in ParentKeys /\ k # Absent
  BY AfterParentFacts, RefAssumption
<1>3. CASE ~keyed
  <2>1. kept = stored \ {op.id : op \in deletes}
    BY <1>3
  <2>2. \A i : Ref(i) = IF \E u \in updates : u.id = i
                          THEN (CHOOSE u \in updates : u.id = i).ref ELSE child[i]
    BY <1>3
  <2>3. ASSUME NEW u \in updates PROVE Ref(u.id) = u.ref
    <3>. DEFINE w == CHOOSE x \in updates : x.id = u.id
    <3>1. w \in updates /\ w.id = u.id
      OBVIOUS
    <3>2. w = u
      <4>. HIDE DEF w
      <4>1. u \in ToSet(os) /\ w \in ToSet(os) /\ u \in ChildOp /\ w \in ChildOp
        BY <2>3, <3>1, Elements DEF Has, ChildKinds
      <4>. QED  BY <3>1, <4>1 DEF WellFormed
    <3>. QED  BY <2>2, <3>2
  <2>4. ASSUME NEW i, \A u \in updates : u.id # i PROVE Ref(i) = child[i]
    BY <2>2, <2>4
  <2>. HIDE DEF kept, Ref
  <2>5. ASSUME k \in OverlaidRefs(os)
        PROVE  \E i \in ChildIds : AfterChild(child, os)[i] = k
    <3>1. CASE \E op \in Has(os, "cins") : k = op.ref
      <4>1. PICK op \in Has(os, "cins") : k = op.ref
        BY <3>1
      <4>2. op \in ToSet(os) /\ op \in ChildOp
        BY Elements DEF Has, ChildKinds
      <4>. QED  BY <4>1, <4>2, AfterChildFacts, AddedFacts
    <3>2. CASE \E i \in kept : k = Ref(i)
      <4>1. PICK i \in kept : k = Ref(i)
        BY <3>2
      <4>2. i \in ChildIds /\ child[i] # Absent /\ \A op \in deletes : op.id # i
        BY <2>1
      <4>3. CASE \E u \in updates : u.id = i
        <5>1. PICK u \in updates : u.id = i
          BY <4>3
        <5>2. u \in ToSet(os) /\ u \in ChildOp
          BY Elements DEF Has, ChildKinds
        <5>3. AfterChild(child, os)[i] = u.ref
          BY <4>2, <5>1, <5>2, AfterChildFacts
        <5>. QED  BY <2>3, <4>1, <4>2, <5>1, <5>3
      <4>4. CASE \A u \in updates : u.id # i
        <5>1. \A op \in ToSet(os) : ~(op \in ChildOp /\ op.id = i)
          <6>. SUFFICES ASSUME NEW op \in ToSet(os), op \in ChildOp, op.id = i
                        PROVE  FALSE
            OBVIOUS
          <6>1. op.kind \in ChildKinds
            BY Elements
          <6>2. op.kind = "cins"
            BY <4>2, <4>4, <6>1 DEF Has, ChildKinds
          <6>. QED  BY <4>2, <6>2, FreshChildren
        <5>2. AfterChild(child, os)[i] = child[i]
          BY <4>2, <5>1, AfterChildFacts
        <5>. QED  BY <2>4, <4>1, <4>2, <4>4, <5>2
      <4>. QED  BY <4>3, <4>4
    <3>. QED  BY <1>1, <2>5, <3>1, <3>2
  <2>6. ASSUME NEW i \in ChildIds, AfterChild(child, os)[i] = k
        PROVE  k \in OverlaidRefs(os)
    <3>1. CASE \E op \in ToSet(os) : op \in ChildOp /\ op.id = i
      <4>1. PICK op \in ToSet(os) : op \in ChildOp /\ op.id = i
        BY <3>1
      <4>2. op.ref = k /\ op.kind \in ChildKinds
        BY <2>6, <4>1, AfterChildFacts, Elements
      <4>3. op.kind # "cdel"
        BY <1>2, <4>1, <4>2, Elements DEF Shaped, Refs, ParentOp
      <4>4. CASE op.kind = "cins"
        BY <1>1, <4>2, <4>4 DEF Has
      <4>5. CASE op.kind = "cupd"
        <5>1. op \in updates
          BY <4>5 DEF Has
        <5>2. child[i] # Absent
          BY <4>1, <4>5, FreshChildren
        <5>3. \A d \in deletes : d.id # i
          <6>. SUFFICES ASSUME NEW d \in deletes, d.id = i PROVE FALSE
            OBVIOUS
          <6>1. d \in ToSet(os) /\ d.kind = "cdel"
            BY DEF Has
          <6>2. d \in ChildOp
            BY <6>1, Elements DEF ChildKinds
          <6>3. d = op
            BY <4>1, <6>1, <6>2 DEF WellFormed
          <6>. QED  BY <4>5, <6>1, <6>3
        <5>4. i \in kept
          BY <2>1, <5>2, <5>3
        <5>5. Ref(i) = k
          BY <2>3, <4>1, <4>2, <5>1
        <5>. QED  BY <1>1, <5>4, <5>5
      <4>. QED  BY <4>2, <4>3, <4>4, <4>5 DEF ChildKinds
    <3>2. CASE \A op \in ToSet(os) : ~(op \in ChildOp /\ op.id = i)
      <4>1. child[i] = k
        BY <2>6, <3>2, AfterChildFacts
      <4>2. \A u \in updates \cup deletes : u.id # i
        BY <3>2, Elements DEF Has, ChildKinds
      <4>3. i \in kept /\ Ref(i) = k
        BY <1>2, <2>1, <2>4, <4>1, <4>2
      <4>. QED  BY <1>1, <4>3
    <3>. QED  BY <3>1, <3>2
  <2>. QED  BY <2>5, <2>6
<1>4. CASE \A op \in ToSet(os) : op \in ChildOp
  <2>1. \A op \in ToSet(os) : op.kind \notin ParentKinds
    BY <1>4, Elements DEF ChildKinds, ParentKinds
  <2>2. RemovedKeys(os) = {}
    BY <2>1 DEF RemovedKeys, Has, ParentKinds
  <2>. QED  BY <2>2
<1>5. CASE keyed /\ \A op \in ToSet(os) : op \in ParentOp
  <2>1. \A op \in ToSet(os) : op.kind \notin ChildKinds /\ op \notin ChildOp
    BY <1>5, Elements DEF ChildKinds, ParentKinds
  <2>2. updates = {} /\ deletes = {} /\ Has(os, "cins") = {}
    BY <2>1 DEF Has, ChildKinds
  <2>3. \A i \in stored : Rank(i) >= Cardinality(deletes)
    <3>. SUFFICES ASSUME NEW i \in stored PROVE Rank(i) >= Cardinality(deletes)
      OBVIOUS
    <3>1. Cardinality(deletes) = 0
      BY <2>2, FS_EmptySet
    <3>2. stored \in SUBSET Nat /\ i \in Nat
      BY RefAssumption
    <3>3. Rank(i) \in Nat
      <4>. HIDE DEF stored
      <4>. QED  BY <3>2, RankIsNumber
    <3>. HIDE DEF Rank
    <3>. QED  BY <3>1, <3>3
  <2>4. kept = stored
    <3>. HIDE DEF Rank, deletes
    <3>. QED  BY <1>5, <2>3
  <2>5. \A i : Ref(i) = child[i]
    BY <2>2
  <2>6. OverlaidRefs(os) = {child[i] : i \in stored}
    <3>. HIDE DEF kept, Ref
    <3>. QED  BY <1>1, <2>2, <2>4, <2>5
  <2>7. \A i \in ChildIds : AfterChild(child, os)[i] = child[i]
    BY <2>1, AfterChildFacts
  <2>. QED  BY <1>2, <2>6, <2>7
<1>. QED  BY <1>3, <1>4, <1>5 DEF OverlayApplies
-----------------------------------------------------------------------------
\* The elements of a list that a statement extends, and of a single change.
LEMMA ExtendedElements ==
  ASSUME NEW S, NEW q \in Seq(S), NEW e \in S
  PROVE  /\ Append(q, e) \in Seq(S) /\ ToSet(Append(q, e)) = ToSet(q) \cup {e}
         /\ <<e>> \in Seq(S) /\ ToSet(<<e>>) = {e} /\ Len(<<e>>) = 1
         /\ Append(q, e) # <<>> /\ <<e>> # <<>>
<1>1. /\ DOMAIN Append(q, e) = 1..(Len(q) + 1) /\ DOMAIN q = 1..Len(q)
      /\ Len(q) \in Nat /\ Append(q, e) \in Seq(S)
      /\ \A i \in DOMAIN q : Append(q, e)[i] = q[i]
      /\ Append(q, e)[Len(q) + 1] = e
      /\ \A i \in DOMAIN Append(q, e) : i \in DOMAIN q \/ i = Len(q) + 1
  BY AppendFacts
<1>2. DOMAIN q \subseteq DOMAIN Append(q, e) /\ Len(q) + 1 \in DOMAIN Append(q, e)
  BY <1>1
<1>3. ToSet(Append(q, e)) = ToSet(q) \cup {e}
  BY <1>1, <1>2 DEF ToSet
<1>4. <<e>> \in Seq(S) /\ Len(<<e>>) = 1 /\ DOMAIN <<e>> = {1} /\ <<e>>[1] = e
  OBVIOUS
<1>5. ToSet(<<e>>) = {e}
  BY <1>4 DEF ToSet
<1>6. Append(q, e) # <<>>
  <2>1. Len(Append(q, e)) = Len(q) + 1 /\ Len(<<>>) = 0
    OBVIOUS
  <2>. QED  BY <1>1, <2>1
<1>7. <<e>> # <<>>
  OBVIOUS
<1>. QED  BY <1>1, <1>3, <1>4, <1>5, <1>6, <1>7

\* The changes statements make.
LEMMA OpsNowShaped ==
  ASSUME TypeOK, NEW op \in OpsNow
  PROVE  op \in ChildOp \cup ParentOp /\ Shaped(op)
<1>1. CASE op \in ChildOpsNow
  <2>1. \A i \in ChildIds : child[i] \in Refs \cup {Absent}
    BY DEF TypeOK
  <2>. QED  BY <1>1, <2>1 DEF ChildOpsNow, ChildOp, Shaped
<1>2. CASE op \in ParentOpsNow
  BY <1>2 DEF ParentOpsNow, ParentOp, Shaped, TypeOK
<1>. QED  BY <1>1, <1>2 DEF OpsNow

\* A list of one change is well formed, and the overlay applies to it.
LEMMA OneChange ==
  ASSUME TypeOK, NEW op \in OpsNow
  PROVE  WellFormed(<<op>>) /\ ToSet(<<op>>) = {op} /\ OverlayApplies(<<op>>)
<1>1. op \in ChildOp \cup ParentOp /\ Shaped(op)
  BY OpsNowShaped
<1>2. <<op>> \in Seq(ChildOp \cup ParentOp) /\ ToSet(<<op>>) = {op}
  <2>1. <<>> \in Seq(ChildOp \cup ParentOp)
    OBVIOUS
  <2>. QED  BY <1>1, <2>1, ExtendedElements
<1>. QED  BY <1>1, <1>2 DEF WellFormed, OverlayApplies

\* A change of rows the list has not changed keeps it well formed.
LEMMA StatementWellFormed ==
  ASSUME TypeOK, NEW os, WellFormed(os), NEW op \in OpsNow,
         Touches(<<op>>) \cap Touches(os) = {}
  PROVE  WellFormed(Append(os, op)) /\ Append(os, op) # <<>>
<1>1. op \in ChildOp \cup ParentOp /\ Shaped(op)
  BY OpsNowShaped
<1>2. os \in Seq(ChildOp \cup ParentOp)
  BY DEF WellFormed
<1>3. /\ Append(os, op) \in Seq(ChildOp \cup ParentOp)
      /\ ToSet(Append(os, op)) = ToSet(os) \cup {op}
      /\ Append(os, op) # <<>>
  BY <1>1, <1>2, ExtendedElements
<1>4. WellFormed(<<op>>) /\ ToSet(<<op>>) = {op}
  BY OneChange
<1>5. ASSUME NEW ks, WellFormed(ks), NEW o \in ToSet(ks), o \in ChildOp
      PROVE  <<"c", o.id>> \in Touches(ks)
  <2>1. o.kind \in ChildKinds
    BY <1>5, Elements
  <2>2. o \in Has(ks, "cins") \cup Has(ks, "cupd") \cup Has(ks, "cdel")
    BY <2>1 DEF Has, ChildKinds
  <2>. QED  BY <2>2 DEF Touches
<1>6. \A o \in ToSet(os) : o \in ChildOp /\ op \in ChildOp => o.id # op.id
  <2>. SUFFICES ASSUME NEW o \in ToSet(os), o \in ChildOp, op \in ChildOp, o.id = op.id
                PROVE  FALSE
    OBVIOUS
  <2>1. <<"c", o.id>> \in Touches(os)
    BY <1>5
  <2>2. <<"c", op.id>> \in Touches(<<op>>)
    BY <1>4, <1>5
  <2>. QED  BY <2>1, <2>2
<1>7. \A o1, o2 \in ToSet(os) \cup {op} :
        o1 \in ChildOp /\ o2 \in ChildOp /\ o1.id = o2.id => o1 = o2
  BY <1>6 DEF WellFormed
<1>. QED  BY <1>1, <1>3, <1>7 DEF WellFormed

\* The commit check establishes what the write relies on.
LEMMA CommitCheckEnough ==
  ASSUME TypeOK, NEW os, WellFormed(os), Fresh(os), ReferentialCheck(os)
  PROVE  /\ \A r \in AddedRefs(os) \cap ParentKeys : r \in AfterParent(parent, os)
         /\ OverlayApplies(os) =>
              \A k \in RemovedKeys(os) : \A i \in ChildIds : AfterChild(child, os)[i] # k
<1>1. ASSUME NEW r \in AddedRefs(os) \cap ParentKeys
      PROVE  r \in AfterParent(parent, os)
  <2>1. r # NoRef
    BY RefAssumption
  <2>2. ReferencedKeyExists(os, r)
    BY <2>1 DEF ReferentialCheck, ChangedChildrenOK, AddedRefs
  <2>. QED  BY <2>2, ReferencedMeansAfter
<1>2. ASSUME OverlayApplies(os), NEW k \in RemovedKeys(os)
      PROVE  \A i \in ChildIds : AfterChild(child, os)[i] # k
  <2>1. k \notin OverlaidRefs(os)
    BY DEF ReferentialCheck, RemovedParentsOK
  <2>. QED  BY <1>2, <2>1, OverlayExact
<1>. QED  BY <1>1, <1>2

\* So does the check of a single statement.
LEMMA AutoCheckEnough ==
  ASSUME TypeOK, NEW op \in OpsNow, AutoCheck(op)
  PROVE  /\ \A r \in AddedRefs(<<op>>) \cap ParentKeys : r \in AfterParent(parent, <<op>>)
         /\ \A k \in RemovedKeys(<<op>>) :
              \A i \in ChildIds : AfterChild(child, <<op>>)[i] # k
<1>1. WellFormed(<<op>>) /\ ToSet(<<op>>) = {op}
  BY OneChange
<1>2. op \in ToSet(<<op>>)
  BY <1>1
<1>3. /\ op \in ChildOp \cup ParentOp
      /\ op \in ChildOp <=> op.kind \in ChildKinds
      /\ op \in ParentOp <=> op.kind \in ParentKinds
  BY <1>1, <1>2, Elements
<1>4. CASE op \in ChildOp
  <2>1. op.kind \notin ParentKinds
    BY <1>3, <1>4 DEF ChildKinds, ParentKinds
  <2>2. RemovedKeys(<<op>>) = {} /\ AfterParent(parent, <<op>>) = parent
    BY <1>1, <2>1 DEF RemovedKeys, AfterParent, Has, ParentKinds
  <2>3. \A r \in AddedRefs(<<op>>) \cap ParentKeys : r \in parent
    BY <1>1, RefAssumption DEF AddedRefs, Has, AutoCheck, AutoChildOK
  <2>. QED  BY <2>2, <2>3
<1>5. CASE op \in ParentOp
  <2>1. op.kind \notin ChildKinds /\ op \notin ChildOp
    BY <1>3, <1>5 DEF ChildKinds, ParentKinds
  <2>2. AddedRefs(<<op>>) = {}
    BY <1>1, <2>1 DEF AddedRefs, Has, ChildKinds
  <2>3. \A i \in ChildIds : AfterChild(child, <<op>>)[i] = child[i]
    BY <1>1, <2>1, AfterChildFacts
  <2>4. \A k \in RemovedKeys(<<op>>) :
          k = op.key /\ (op.kind = "pdel" \/ (op.kind = "pupd" /\ op.to # op.key))
    BY <1>1 DEF RemovedKeys, Has
  <2>5. \A k \in RemovedKeys(<<op>>) : \A i \in ChildIds : child[i] # k
    BY <2>4 DEF AutoCheck, AutoParentOK
  <2>. QED  BY <2>2, <2>3, <2>5
<1>. QED  BY <1>3, <1>4, <1>5
-----------------------------------------------------------------------------
\* The write of a checked session keeps the image typed and every orphan
\* contested, and what the other checked sessions know.
LEMMA LandKeeps ==
  ASSUME IInv, NEW s \in Sessions, Checked(s), Land(s), UNCHANGED keyed
  PROVE  /\ parent' \subseteq ParentKeys
         /\ child' \in [ChildIds -> Refs \cup {Absent}]
         /\ contested' \subseteq ParentKeys
         /\ Orphans(parent', child') \subseteq contested'
         /\ \A u \in Sessions \ {s} : Checked(u) =>
              /\ \A r \in AddedRefs(ops[u]) \cap ParentKeys :
                   r \in AfterParent(parent', ops[u]) \/ r \in contested'
              /\ OverlayApplies(ops[u]) =>
                   \A k \in RemovedKeys(ops[u]) :
                     k \in contested' \/ \A i \in ChildIds :
                                           AfterChild(child', ops[u])[i] # k
<1>. DEFINE os == ops[s]
<1>1. /\ parent \subseteq ParentKeys /\ child \in [ChildIds -> Refs \cup {Absent}]
      /\ contested \subseteq ParentKeys
      /\ \A u \in Sessions : WellFormed(ops[u])
      /\ \A u \in Sessions : Checked(u) => AddedInv(u) /\ RemovedInv(u)
      /\ Orphans(parent, child) \subseteq contested
  BY DEF IInv, TypeOK, OrphansWereContested
<1>2. WellFormed(os)
  BY <1>1
<1>3. /\ parent' = AfterParent(parent, os)
      /\ child' = AfterChild(child, os)
      /\ contested' = contested \cup NowContested(s) \cup NowAliased(s)
  BY DEF Land
<1>. HIDE DEF os
<1>4. /\ parent' \subseteq ParentKeys
      /\ RemovedKeys(os) \subseteq ParentKeys
      /\ \A k \in parent : k \notin parent' => k \in RemovedKeys(os)
  BY <1>1, <1>2, <1>3, AfterParentFacts
<1>5. ASSUME NEW i \in ChildIds
      PROVE  \/ child'[i] = child[i] /\ \A op \in ToSet(os) : ~(op \in ChildOp /\ op.id = i)
             \/ child'[i] = Absent
             \/ child'[i] \in AddedRefs(os) \cap Refs
  <2>1. CASE \E op \in ToSet(os) : op \in ChildOp /\ op.id = i
    <3>1. PICK op \in ToSet(os) : op \in ChildOp /\ op.id = i
      BY <2>1
    <3>2. child'[i] = op.ref
      BY <1>2, <1>3, <3>1, AfterChildFacts
    <3>3. op.kind \in ChildKinds
      BY <1>2, <3>1, Elements
    <3>4. op.ref = Absent \/ op.ref \in AddedRefs(os) \cap Refs
      BY <1>2, <3>1, <3>3, AddedFacts, Elements DEF ChildKinds, AddedRefs, Has, Shaped, ParentOp
    <3>. QED  BY <3>2, <3>4
  <2>2. CASE \A op \in ToSet(os) : ~(op \in ChildOp /\ op.id = i)
    BY <1>2, <1>3, <2>2, AfterChildFacts
  <2>. QED  BY <2>1, <2>2
<1>6. child' \in [ChildIds -> Refs \cup {Absent}]
  <2>1. child' = [i \in ChildIds |-> child'[i]]
    BY <1>3 DEF AfterChild
  <2>2. \A i \in ChildIds : child'[i] \in Refs \cup {Absent}
    BY <1>1, <1>5
  <2>. HIDE <1>3
  <2>. QED  BY <2>1, <2>2
<1>7. contested' \subseteq ParentKeys
  <2>1. \A u \in Sessions : RemovedKeys(ops[u]) \subseteq ParentKeys
    BY <1>1, AfterParentFacts
  <2>2. NowContested(s) \subseteq ParentKeys
    BY <2>1 DEF NowContested
  <2>3. NowAliased(s) \subseteq ParentKeys
    BY <2>1 DEF NowAliased
  <2>. QED  BY <1>1, <1>3, <2>2, <2>3
<1>8. Orphans(parent', child') \subseteq contested'
  <2>. SUFFICES ASSUME NEW i \in ChildIds, NEW r, r = child'[i], r \in ParentKeys,
                       r \notin parent'
                PROVE  r \in contested'
    BY DEF Orphans
  <2>1. r # Absent
    BY RefAssumption
  <2>2. CASE r \in AddedRefs(os)
    <3>1. r \in AfterParent(parent, os) \/ r \in contested
      BY <1>1, <2>2 DEF AddedInv, os
    <3>. QED  BY <1>3, <3>1
  <2>3. CASE child'[i] = child[i] /\ \A op \in ToSet(os) : ~(op \in ChildOp /\ op.id = i)
    <3>1. CASE r \notin parent
      <4>1. r \in Orphans(parent, child)
        BY <2>3, <3>1 DEF Orphans
      <4>. QED  BY <1>1, <1>3, <4>1
    <3>2. CASE r \in parent
      <4>1. r \in RemovedKeys(os)
        BY <1>4, <3>2
      <4>2. CASE OverlayApplies(os)
        <5>1. r \in contested \/ AfterChild(child, os)[i] # r
          BY <1>1, <4>1, <4>2 DEF RemovedInv, os
        <5>. QED  BY <1>3, <5>1
      <4>3. CASE ~OverlayApplies(os)
        BY <1>3, <4>1, <4>3 DEF NowAliased, os
      <4>. QED  BY <4>2, <4>3
    <3>. QED  BY <3>1, <3>2
  <2>. QED  BY <1>5, <2>1, <2>2, <2>3
<1>9. ASSUME NEW u \in Sessions \ {s}, Checked(u), NEW r \in AddedRefs(ops[u]) \cap ParentKeys
      PROVE  r \in AfterParent(parent', ops[u]) \/ r \in contested'
  <2>1. r \in AfterParent(parent, ops[u]) \/ r \in contested
    BY <1>1, <1>9 DEF AddedInv
  <2>2. CASE r \in RemovedKeys(os)
    <3>1. r \in NowContested(s)
      BY <1>9, <2>2 DEF NowContested, os
    <3>. QED  BY <1>3, <3>1
  <2>3. CASE r \notin RemovedKeys(os)
    <3>1. r \in parent => r \in parent'
      BY <1>4, <2>3
    <3>2. r \in AfterParent(parent, ops[u]) => r \in AfterParent(parent', ops[u])
      <4>. HIDE <1>3
      <4>. QED  BY <3>1 DEF AfterParent
    <3>. QED  BY <1>3, <2>1, <3>2
  <2>. QED  BY <2>2, <2>3
<1>10. ASSUME NEW u \in Sessions \ {s}, Checked(u), OverlayApplies(ops[u]),
              NEW k \in RemovedKeys(ops[u]), NEW i \in ChildIds,
              AfterChild(child', ops[u])[i] = k
       PROVE  k \in contested'
  <2>1. WellFormed(ops[u])
    BY <1>1
  <2>2. k \in contested \/ AfterChild(child, ops[u])[i] # k
    BY <1>1, <1>10 DEF RemovedInv
  <2>3. CASE AfterChild(child, ops[u])[i] = k
    BY <1>3, <2>2, <2>3
  <2>4. CASE AfterChild(child, ops[u])[i] # k
    <3>1. \A op \in ToSet(ops[u]) : ~(op \in ChildOp /\ op.id = i)
      BY <1>10, <2>1, <2>4, AfterChildFacts
    <3>2. AfterChild(child', ops[u])[i] = child'[i] /\ AfterChild(child, ops[u])[i] = child[i]
      BY <2>1, <3>1, AfterChildFacts
    <3>3. k \in ParentKeys /\ k # Absent
      BY <1>1, <2>1, AfterParentFacts, RefAssumption
    <3>4. k \in AddedRefs(os)
      BY <1>5, <1>10, <2>4, <3>2, <3>3
    <3>5. k \in NowContested(s)
      BY <1>10, <3>4 DEF NowContested, os
    <3>. QED  BY <1>3, <3>5
  <2>. QED  BY <2>3, <2>4
<1>. QED  BY <1>4, <1>6, <1>7, <1>8, <1>9, <1>10
-----------------------------------------------------------------------------
\* Every image without orphans is a start.
LEMMA InitInv == Init => IInv
<1>. SUFFICES ASSUME Init PROVE IInv
  OBVIOUS
<1>1. TypeOK
  <2>1. ops \in [Sessions -> Seq(ChildOp \cup ParentOp)]
    BY DEF Init
  <2>. QED  BY <2>1 DEF Init, TypeOK
<1>2. \A s \in Sessions : WellFormed(ops[s])
  <2>. SUFFICES ASSUME NEW s \in Sessions PROVE WellFormed(ops[s])
    OBVIOUS
  <2>1. ops[s] = <<>> /\ ToSet(ops[s]) = {} /\ ops[s] \in Seq(ChildOp \cup ParentOp)
    BY DEF Init, ToSet
  <2>. QED  BY <2>1 DEF WellFormed
<1>. QED  BY <1>1, <1>2 DEF Init, IInv, Checked, OrphansWereContested

\* A session whose changes go, or begin, touches no other session.
LEMMA EndFacts ==
  ASSUME TypeOK, \A s \in Sessions : WellFormed(ops[s]), NEW s \in Sessions, End(s)
  PROVE  /\ pc' \in [Sessions -> {"idle", "txn", "physical", "auto"}]
         /\ ops' \in [Sessions -> Seq(ChildOp \cup ParentOp)]
         /\ \A u \in Sessions : /\ pc'[u] = "idle" <=> ops'[u] = <<>>
                                /\ pc'[u] = "auto" => Len(ops'[u]) = 1
                                /\ WellFormed(ops'[u])
         /\ \A u \in Sessions : Checked(u)' => u # s /\ Checked(u) /\ ops'[u] = ops[u]
<1>1. WellFormed(<<>>) /\ <<>> \in Seq(ChildOp \cup ParentOp)
  <2>1. ToSet(<<>>) = {}
    BY DEF ToSet
  <2>. QED  BY <2>1 DEF WellFormed
<1>2. /\ pc'[s] = "idle" /\ ops'[s] = <<>>
      /\ \A u \in Sessions \ {s} : pc'[u] = pc[u] /\ ops'[u] = ops[u]
  BY DEF End, TypeOK
<1>3. /\ pc' \in [Sessions -> {"idle", "txn", "physical", "auto"}]
      /\ ops' \in [Sessions -> Seq(ChildOp \cup ParentOp)]
  BY <1>1 DEF End, TypeOK
<1>. QED  BY <1>1, <1>2, <1>3 DEF TypeOK, Checked

\* A session that ends without a write.
LEMMA EndKeeps ==
  ASSUME IInv, NEW s \in Sessions, End(s), UNCHANGED <<keyed, parent, child, contested, begun>>
  PROVE  IInv'
<1>1. TypeOK /\ \A u \in Sessions : WellFormed(ops[u])
  BY DEF IInv
<1>2. /\ pc' \in [Sessions -> {"idle", "txn", "physical", "auto"}]
      /\ ops' \in [Sessions -> Seq(ChildOp \cup ParentOp)]
      /\ \A u \in Sessions : /\ pc'[u] = "idle" <=> ops'[u] = <<>>
                             /\ pc'[u] = "auto" => Len(ops'[u]) = 1
                             /\ WellFormed(ops'[u])
      /\ \A u \in Sessions : Checked(u)' => u # s /\ Checked(u) /\ ops'[u] = ops[u]
  BY <1>1, EndFacts
<1>3. TypeOK'
  BY <1>1, <1>2 DEF TypeOK
<1>4. \A u \in Sessions : Checked(u)' => AddedInv(u)' /\ RemovedInv(u)'
  BY <1>2 DEF IInv, AddedInv, RemovedInv, OverlayApplies
<1>5. OrphansWereContested'
  BY DEF IInv, OrphansWereContested
<1>. QED  BY <1>2, <1>3, <1>4, <1>5 DEF IInv

\* A session that ends with its write.
LEMMA LandAndEnd ==
  ASSUME IInv, NEW s \in Sessions, Checked(s), Land(s), End(s), UNCHANGED <<keyed, begun>>
  PROVE  IInv'
<1>1. TypeOK /\ \A u \in Sessions : WellFormed(ops[u])
  BY DEF IInv
<1>2. /\ pc' \in [Sessions -> {"idle", "txn", "physical", "auto"}]
      /\ ops' \in [Sessions -> Seq(ChildOp \cup ParentOp)]
      /\ \A u \in Sessions : /\ pc'[u] = "idle" <=> ops'[u] = <<>>
                             /\ pc'[u] = "auto" => Len(ops'[u]) = 1
                             /\ WellFormed(ops'[u])
      /\ \A u \in Sessions : Checked(u)' => u # s /\ Checked(u) /\ ops'[u] = ops[u]
  BY <1>1, EndFacts
<1>3. /\ parent' \subseteq ParentKeys
      /\ child' \in [ChildIds -> Refs \cup {Absent}]
      /\ contested' \subseteq ParentKeys
      /\ Orphans(parent', child') \subseteq contested'
      /\ \A u \in Sessions \ {s} : Checked(u) =>
           /\ \A r \in AddedRefs(ops[u]) \cap ParentKeys :
                r \in AfterParent(parent', ops[u]) \/ r \in contested'
           /\ OverlayApplies(ops[u]) =>
                \A k \in RemovedKeys(ops[u]) :
                  k \in contested' \/ \A i \in ChildIds :
                                        AfterChild(child', ops[u])[i] # k
  BY LandKeeps
<1>4. TypeOK'
  BY <1>1, <1>2, <1>3 DEF TypeOK
<1>5. ASSUME NEW u \in Sessions, Checked(u)' PROVE AddedInv(u)' /\ RemovedInv(u)'
  <2>1. u # s /\ Checked(u) /\ ops'[u] = ops[u]
    BY <1>2, <1>5
  <2>2. OverlayApplies(ops[u])' <=> OverlayApplies(ops[u])
    BY <2>1 DEF OverlayApplies
  <2>. QED  BY <1>3, <2>1, <2>2 DEF AddedInv, RemovedInv
<1>6. OrphansWereContested'
  BY <1>3 DEF OrphansWereContested
<1>. QED  BY <1>2, <1>4, <1>5, <1>6 DEF IInv

\* A step that changes the list of one session to a well-formed one, checked
\* or not, and no row.
LEMMA SessionMoves ==
  ASSUME IInv, NEW s \in Sessions, NEW at \in {"txn", "physical", "auto"}, NEW os,
         WellFormed(os), os # <<>>, at = "auto" => Len(os) = 1,
         pc' = [pc EXCEPT ![s] = at], ops' = [ops EXCEPT ![s] = os],
         UNCHANGED <<keyed, parent, child, contested>>, begun' \in Nat,
         at # "txn" =>
           /\ \A r \in AddedRefs(os) \cap ParentKeys : r \in AfterParent(parent, os)
           /\ OverlayApplies(os) =>
                \A k \in RemovedKeys(os) : \A i \in ChildIds : AfterChild(child, os)[i] # k
  PROVE  IInv'
<1>1. /\ pc'[s] = at /\ ops'[s] = os
      /\ \A u \in Sessions \ {s} : pc'[u] = pc[u] /\ ops'[u] = ops[u]
  BY DEF IInv, TypeOK
<1>2. TypeOK'
  <2>1. os \in Seq(ChildOp \cup ParentOp)
    BY DEF WellFormed
  <2>2. /\ pc' \in [Sessions -> {"idle", "txn", "physical", "auto"}]
        /\ ops' \in [Sessions -> Seq(ChildOp \cup ParentOp)]
    BY <2>1 DEF IInv, TypeOK
  <2>3. \A u \in Sessions : /\ pc'[u] = "idle" <=> ops'[u] = <<>>
                            /\ pc'[u] = "auto" => Len(ops'[u]) = 1
    BY <1>1 DEF IInv, TypeOK
  <2>. QED  BY <2>2, <2>3 DEF IInv, TypeOK
<1>3. \A u \in Sessions : WellFormed(ops'[u])
  BY <1>1 DEF IInv
<1>4. ASSUME NEW u \in Sessions, Checked(u)' PROVE AddedInv(u)' /\ RemovedInv(u)'
  <2>1. OverlayApplies(ops[u])' <=> OverlayApplies(ops'[u])
    BY DEF OverlayApplies
  <2>2. CASE u = s
    <3>1. at # "txn"
      BY <1>1, <1>4, <2>2 DEF Checked
    <3>. QED  BY <1>1, <2>1, <2>2, <3>1 DEF AddedInv, RemovedInv
  <2>3. CASE u # s
    <3>1. Checked(u) /\ ops'[u] = ops[u]
      BY <1>1, <1>4, <2>3 DEF Checked
    <3>2. AddedInv(u) /\ RemovedInv(u)
      BY <3>1 DEF IInv
    <3>. QED  BY <2>1, <3>1, <3>2 DEF AddedInv, RemovedInv
  <2>. QED  BY <2>2, <2>3
<1>5. OrphansWereContested'
  BY DEF IInv, OrphansWereContested
<1>. QED  BY <1>2, <1>3, <1>4, <1>5 DEF IInv

\* Every step keeps the invariant.
LEMMA NextInv == IInv /\ [Next]_vars => IInv'
<1>. SUFFICES ASSUME IInv, [Next]_vars PROVE IInv'
  OBVIOUS
<1>1. TypeOK /\ \A u \in Sessions : WellFormed(ops[u])
  BY DEF IInv
<1>2. ASSUME NEW s \in Sessions, NEW op \in OpsNow, Statement(s, op) PROVE IInv'
  <2>. DEFINE os == Append(ops[s], op)
  <2>1. WellFormed(os) /\ os # <<>>
    BY <1>1, <1>2, StatementWellFormed DEF Statement
  <2>2. pc' = [pc EXCEPT ![s] = "txn"] /\ ops' = [ops EXCEPT ![s] = os]
    BY <1>2 DEF Statement
  <2>3. begun' \in Nat
    BY <1>1, <1>2 DEF Statement, Begin, TypeOK
  <2>4. UNCHANGED <<keyed, parent, child, contested>>
    BY <1>2 DEF Statement
  <2>. HIDE DEF os
  <2>. QED  BY <2>1, <2>2, <2>3, <2>4, SessionMoves
<1>3. ASSUME NEW s \in Sessions, NEW op \in OpsNow, AutoStatement(s, op) PROVE IInv'
  <2>. DEFINE os == <<op>>
  <2>1. WellFormed(os) /\ os # <<>> /\ Len(os) = 1
    BY <1>1, OneChange
  <2>2. pc' = [pc EXCEPT ![s] = "auto"] /\ ops' = [ops EXCEPT ![s] = os]
    BY <1>3 DEF AutoStatement
  <2>3. begun' \in Nat
    BY <1>1, <1>3 DEF AutoStatement, Begin, TypeOK
  <2>4. UNCHANGED <<keyed, parent, child, contested>>
    BY <1>3 DEF AutoStatement
  <2>5. /\ \A r \in AddedRefs(os) \cap ParentKeys : r \in AfterParent(parent, os)
        /\ \A k \in RemovedKeys(os) : \A i \in ChildIds : AfterChild(child, os)[i] # k
    BY <1>1, <1>3, AutoCheckEnough DEF AutoStatement
  <2>. HIDE DEF os
  <2>. QED  BY <2>1, <2>2, <2>3, <2>4, <2>5, SessionMoves
<1>4. ASSUME NEW s \in Sessions, CommitCheck(s) PROVE IInv'
  <2>. DEFINE os == ops[s]
  <2>1. WellFormed(os) /\ os # <<>>
    BY <1>1, <1>4 DEF CommitCheck, TypeOK
  <2>2. pc' = [pc EXCEPT ![s] = "physical"] /\ ops' = [ops EXCEPT ![s] = os]
    BY <1>1, <1>4 DEF CommitCheck, TypeOK
  <2>3. begun' \in Nat /\ UNCHANGED <<keyed, parent, child, contested>>
    BY <1>1, <1>4 DEF CommitCheck, TypeOK
  <2>4. Fresh(os) /\ ReferentialCheck(os)
    BY <1>4 DEF CommitCheck
  <2>. HIDE DEF os
  <2>5. /\ \A r \in AddedRefs(os) \cap ParentKeys : r \in AfterParent(parent, os)
        /\ OverlayApplies(os) =>
             \A k \in RemovedKeys(os) : \A i \in ChildIds : AfterChild(child, os)[i] # k
    BY <1>1, <2>1, <2>4, CommitCheckEnough
  <2>. QED  BY <2>1, <2>2, <2>3, <2>5, SessionMoves
<1>5. ASSUME NEW s \in Sessions, CommitRefuse(s) \/ Rollback(s) \/ PhysicalFail(s)
      PROVE  IInv'
  BY <1>5, EndKeeps DEF CommitRefuse, Rollback, PhysicalFail
<1>6. ASSUME NEW s \in Sessions, PhysicalWrite(s) PROVE IInv'
  BY <1>6, LandAndEnd DEF PhysicalWrite, Checked
<1>7. ASSUME NEW s \in Sessions, AutoWrite(s) PROVE IInv'
  <2>1. CASE Fresh(ops[s])
    BY <1>7, <2>1, LandAndEnd DEF AutoWrite, Checked
  <2>2. CASE ~Fresh(ops[s])
    BY <1>7, <2>2, EndKeeps DEF AutoWrite
  <2>. QED  BY <2>1, <2>2
<1>8. CASE UNCHANGED vars
  <2>1. \A u \in Sessions : OverlayApplies(ops[u])' <=> OverlayApplies(ops[u])
    BY <1>8 DEF vars, OverlayApplies
  <2>2. \A u \in Sessions : Checked(u)' => AddedInv(u)' /\ RemovedInv(u)'
    BY <1>8, <2>1 DEF vars, IInv, Checked, AddedInv, RemovedInv
  <2>. QED  BY <1>8, <2>2 DEF vars, IInv, TypeOK, OrphansWereContested
<1>. QED  BY <1>2, <1>3, <1>4, <1>5, <1>6, <1>7, <1>8 DEF Next, Step, Terminated

\* The invariant holds in every reachable state, for any number of sessions,
\* keys and rows.
THEOREM RefIntegrityInvariant == Spec => []IInv
BY InitInv, NextInv, PTL DEF Spec

\* Types, for any constants: a session has changes exactly while it is not idle.
THEOREM RefIntegrityTypeOK == Spec => []TypeOK
<1>1. IInv => TypeOK
  BY DEF IInv
<1>. QED  BY <1>1, RefIntegrityInvariant, PTL

\* A reference to a missing parent has one of two causes only: insertion and
\* removal were both checked before either was written, or the overlay by row
\* id misled the check of one transaction.
THEOREM OrphansAlwaysContested == Spec => []OrphansWereContested
<1>1. IInv => OrphansWereContested
  BY DEF IInv
<1>. QED  BY <1>1, RefIntegrityInvariant, PTL

\* validatePendingReferentialIntegrity accepts a transaction if and only if it
\* leaves no orphan, wherever the overlay by row id can be trusted.
THEOREM CheckAlwaysExact == Spec => []CheckIsExact
<1>1. IInv => CheckIsExact
  <2>. SUFFICES ASSUME IInv, NEW s \in Sessions, OverlayApplies(ops[s]), Fresh(ops[s]),
                       Orphans(parent, child) = {}
                PROVE  ReferentialCheck(ops[s])
                         <=> Orphans(AfterParent(parent, ops[s]),
                                     AfterChild(child, ops[s])) = {}
    BY DEF CheckIsExact
  <2>. DEFINE os == ops[s]  p == AfterParent(parent, os)  c == AfterChild(child, os)
  <2>1. TypeOK /\ WellFormed(os) /\ OverlayApplies(os) /\ Fresh(os) /\ parent \subseteq ParentKeys
    BY DEF IInv, TypeOK
  <2>. HIDE DEF os
  <2>2. ASSUME ReferentialCheck(os), NEW r \in Orphans(p, c) PROVE FALSE
    <3>1. PICK i \in ChildIds : c[i] = r
      BY <2>2 DEF Orphans
    <3>2. r \in ParentKeys /\ r \notin p /\ r # Absent
      BY <2>2, RefAssumption DEF Orphans
    <3>3. r \notin AddedRefs(os)
      BY <2>1, <2>2, <3>2, CommitCheckEnough
    <3>4. \A op \in ToSet(os) : ~(op \in ChildOp /\ op.id = i)
      <4>. SUFFICES ASSUME NEW op \in ToSet(os), op \in ChildOp, op.id = i PROVE FALSE
        OBVIOUS
      <4>1. c[i] = op.ref
        BY <2>1, AfterChildFacts
      <4>. QED  BY <2>1, <3>1, <3>2, <3>3, <4>1, AddedFacts
    <3>5. child[i] = r
      BY <2>1, <3>1, <3>4, AfterChildFacts
    <3>6. r \in parent
      BY <3>2, <3>5 DEF Orphans
    <3>7. r \in RemovedKeys(os)
      BY <2>1, <3>2, <3>6, AfterParentFacts
    <3>. QED  BY <2>1, <2>2, <3>1, <3>7, CommitCheckEnough
  <2>3. ASSUME Orphans(p, c) = {} PROVE ReferentialCheck(os)
    <3>1. \A i \in ChildIds : c[i] \in ParentKeys => c[i] \in p
      BY <2>3 DEF Orphans
    <3>2. ChangedChildrenOK(os)
      <4>. SUFFICES ASSUME NEW op \in Has(os, "cins") \cup Has(os, "cupd"), op.ref # NoRef
                    PROVE  ReferencedKeyExists(os, op.ref)
        BY DEF ChangedChildrenOK
      <4>1. op \in ToSet(os) /\ op.kind \in {"cins", "cupd"}
        BY DEF Has
      <4>2. op \in ChildOp
        BY <2>1, <4>1, Elements DEF ChildKinds
      <4>3. op.id \in ChildIds /\ op.ref \in ParentKeys
        BY <2>1, <4>1, <4>2, AddedFacts DEF Refs
      <4>4. c[op.id] = op.ref
        BY <2>1, <4>1, <4>2, <4>3, AfterChildFacts
      <4>. QED  BY <3>1, <4>3, <4>4, ReferencedMeansAfter
    <3>3. RemovedParentsOK(os)
      <4>. SUFFICES ASSUME NEW k \in RemovedKeys(os), k \in OverlaidRefs(os) PROVE FALSE
        BY DEF RemovedParentsOK
      <4>1. PICK i \in ChildIds : c[i] = k
        BY <2>1, OverlayExact
      <4>2. k \in ParentKeys /\ k \notin p
        BY <2>1, AfterParentFacts
      <4>. QED  BY <3>1, <4>1, <4>2
    <3>. QED  BY <3>2, <3>3 DEF ReferentialCheck
  <2>. QED  BY <2>2, <2>3 DEF os
<1>. QED  BY <1>1, RefIntegrityInvariant, PTL
=============================================================================
