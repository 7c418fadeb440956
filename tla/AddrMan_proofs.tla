--------------------------- MODULE AddrMan_proofs ---------------------------
(***************************************************************************)
(* The tables of the address manager agree, and can be written and read    *)
(* back, for every number and size of buckets and every set of addresses.  *)
(***************************************************************************)
EXTENDS AddrMan, FiniteSetTheorems, SequenceTheorems, TLAPS

-----------------------------------------------------------------------------
(* The inductive invariant, in parts.                                      *)

\* pos and rnd are inverse to each other.
Vector(kn, ps, rd) ==
    /\ kn \subseteq Addr
    /\ ps \in [Addr -> Nat]
    /\ rd \in Seq(Addr)
    /\ \A a \in kn : ps[a] \in 1 .. Len(rd) /\ rd[ps[a]] = a
    /\ \A i \in 1 .. Len(rd) : rd[i] \in kn /\ ps[rd[i]] = i
    /\ \A a \in Addr \ kn : ps[a] = 0

\* Entries have a bucket they belong to; what is not an entry has no marks.
Entries(kn, hm, mk) ==
    /\ hm \in [Addr -> Nat] /\ mk \in [Addr -> BOOLEAN]
    /\ \A a \in kn : hm[a] \in Fresh
    /\ \A a \in Addr \ kn : hm[a] = Nowhere /\ ~mk[a]

\* Untried entries are in fresh buckets, tried ones in their used bucket.
Placed(kn, mk, fr, us) ==
    /\ fr \in [Fresh -> SUBSET Addr] /\ us \in [Used -> SUBSET Addr]
    /\ \A a \in Addr : (\E b \in Fresh : a \in fr[b]) <=> (a \in kn /\ ~mk[a])
    /\ \A a \in Addr : \A b \in Used :
          a \in us[b] <=> (a \in kn /\ mk[a] /\ b = UsedBucket[a])

Counted(rf, fr) ==
    /\ rf \in [Addr -> Int]
    /\ \A a \in Addr : rf[a] = Cardinality({b \in Fresh : a \in fr[b]})

\* Besides the bucket it belongs to, an entry is in at most one.
Near(hm, fr) ==
    \A a \in Addr : \E x \in Fresh : \A b \in Fresh : a \in fr[b] => b \in {hm[a], x}

Fits(fr, us) ==
    /\ \A b \in Fresh : Cardinality(fr[b]) <= FreshSize
    /\ \A b \in Used : Cardinality(us[b]) <= UsedSize

Totals(kn, mk, tf, tu, adding) ==
    /\ tf = Cardinality({a \in kn : ~mk[a]}) + adding
    /\ tu = Cardinality({a \in kn : mk[a]})

Sound(t) ==
    /\ Vector(t.known, t.pos, t.rnd)
    /\ Entries(t.known, t.home, t.marked)
    /\ Placed(t.known, t.marked, t.fresh, t.used)
    /\ Counted(t.refs, t.fresh)
    /\ Near(t.home, t.fresh)
    /\ Fits(t.fresh, t.used)

\* The call of btc_addrman_add in progress: evict_fresh looks at entries of
\* the bucket only, and makes room in it.
CallSound ==
    /\ call \in [addr : Addr \cup {Nobody}, bucket : Nat, left : SUBSET Addr,
                 old : Addr \cup {Nobody}, new : BOOLEAN]
    /\ Idle => call = NoCall
    /\ ~Idle =>
          /\ call.bucket \in Fresh
          /\ call.addr \notin fresh[call.bucket]
          /\ call.new <=> call.addr \notin known
          /\ ~call.new => ~marked[call.addr] /\ home[call.addr] = call.bucket
          /\ call.left \subseteq fresh[call.bucket]
          /\ call.old # Nobody => call.old \in fresh[call.bucket] \ call.left
          /\ call.left = {} /\ call.old = Nobody => Cardinality(fresh[call.bucket]) < FreshSize

\* What is read from the file at the next start is in order as well.
FileSound ==
    Readable(file) =>
        /\ Sound(Loaded(file))
        /\ Totals(Loaded(file).known, Loaded(file).marked, Loaded(file).totalFresh,
                  Loaded(file).totalUsed, 0)

AddrInv ==
    /\ Sound(Current)
    /\ Totals(known, marked, totalFresh, totalUsed, IF call.new THEN 1 ELSE 0)
    /\ CallSound
    /\ FileSound
    /\ ~aborted

-----------------------------------------------------------------------------
(* Finite sets, and the vector.                                            *)

\* Sets of addresses and of buckets are finite.
LEMMA Finite ==
  ASSUME NEW S, S \subseteq Addr \/ S \subseteq Fresh \/ S \subseteq Used
  PROVE  IsFiniteSet(S) /\ Cardinality(S) \in Nat
<1>1. IsFiniteSet(Addr) /\ IsFiniteSet(Fresh) /\ IsFiniteSet(Used)
  BY AddrManAssumption, FS_Interval DEF Fresh, Used
<1>2. IsFiniteSet(S)
  BY <1>1, FS_Subset
<1> QED
  BY <1>2, FS_CardinalityType

\* A reference more or less.
LEMMA OneMore ==
  ASSUME NEW S, NEW x, IsFiniteSet(S), Cardinality(S) \in Nat
  PROVE  /\ x \notin S => Cardinality(S \cup {x}) = Cardinality(S) + 1
         /\ x \in S => Cardinality(S \ {x}) = Cardinality(S) - 1
         /\ Cardinality(S \ {x}) <= Cardinality(S)
         /\ IsFiniteSet(S \ {x}) /\ IsFiniteSet(S \cup {x})
<1>1. Cardinality(S \cup {x}) = IF x \in S THEN Cardinality(S) ELSE Cardinality(S) + 1
  BY FS_AddElement
<1>2. Cardinality(S \ {x}) = IF x \in S THEN Cardinality(S) - 1 ELSE Cardinality(S)
  BY FS_RemoveElement
<1>3. IsFiniteSet(S \ {x}) /\ IsFiniteSet(S \cup {x})
  BY FS_AddElement, FS_RemoveElement
<1> QED
  BY <1>1, <1>2, <1>3

\* A function on 1 .. n is a sequence of length n.
LEMMA FunctionIsSeq ==
  ASSUME NEW S, NEW n \in Nat, NEW f \in [1 .. n -> S]
  PROVE  f \in Seq(S) /\ Len(f) = n
<1>1. f \in Seq(S)
  BY SeqDef
<1>2. Len(f) \in Nat /\ 1 .. Len(f) = 1 .. n
  BY <1>1, LenProperties
<1> QED
  BY <1>1, <1>2

\* btc_randvec_pop keeps pos and rnd inverse to each other.
LEMMA ForgetVector ==
  ASSUME Vector(known, pos, rnd), NEW a \in known, Forget(a)
  PROVE  Vector(known', pos', rnd')
<1> DEFINE n == Len(rnd)
           top == rnd[n]
<1>1. /\ known \subseteq Addr /\ pos \in [Addr -> Nat] /\ rnd \in Seq(Addr)
      /\ n \in Nat
      /\ \A x \in known : pos[x] \in 1 .. n /\ rnd[pos[x]] = x
      /\ \A i \in 1 .. n : rnd[i] \in known /\ pos[rnd[i]] = i
      /\ \A x \in Addr \ known : pos[x] = 0
  BY LenProperties DEF Vector
<1>2. /\ n \in 1 .. n /\ top \in known /\ pos[top] = n /\ n - 1 \in Nat
      /\ pos[a] \in 1 .. n /\ rnd[pos[a]] = a
  BY <1>1
<1>3. /\ rnd' = [i \in 1 .. n - 1 |-> IF i = pos[a] THEN top ELSE rnd[i]]
      /\ pos' = [x \in Addr |-> IF x = a THEN 0 ELSE IF x = top THEN pos[a] ELSE pos[x]]
      /\ known' = known \ {a}
  BY DEF Forget
<1> HIDE DEF n, top
<1>4. rnd' \in Seq(Addr) /\ Len(rnd') = n - 1
  <2>1. rnd' \in [1 .. n - 1 -> Addr]
    BY <1>1, <1>2, <1>3
  <2> QED
    BY <1>2, <2>1, FunctionIsSeq
<1>5. pos' \in [Addr -> Nat]
  BY <1>1, <1>2, <1>3
<1>6. ASSUME NEW x \in known' PROVE pos'[x] \in 1 .. n - 1 /\ rnd'[pos'[x]] = x
  <2>1. x \in known /\ x # a /\ x \in Addr
    BY <1>1, <1>3
  <2>2. CASE x = top
    <3>1. pos'[x] = pos[a] /\ pos[a] # n
      BY <1>1, <1>2, <1>3, <2>1, <2>2
    <3> QED
      BY <1>1, <1>2, <1>3, <2>2, <3>1
  <2>3. CASE x # top
    <3>1. pos'[x] = pos[x] /\ pos[x] \in 1 .. n /\ rnd[pos[x]] = x
      BY <1>1, <1>3, <2>1, <2>3
    <3>2. pos[x] # pos[a]
      BY <1>2, <2>1, <3>1
    <3>3. pos[x] # n
      BY <2>3, <3>1 DEF top
    <3> QED
      BY <1>1, <1>3, <3>1, <3>2, <3>3
  <2> QED
    BY <2>2, <2>3
<1>7. ASSUME NEW i \in 1 .. n - 1 PROVE rnd'[i] \in known' /\ pos'[rnd'[i]] = i
  <2>1. i \in 1 .. n /\ i # n
    BY <1>1
  <2>2. CASE i = pos[a]
    <3>1. rnd'[i] = top /\ top # a
      BY <1>2, <1>3, <2>1, <2>2
    <3> QED
      BY <1>1, <1>2, <1>3, <2>2, <3>1
  <2>3. CASE i # pos[a]
    <3>1. rnd'[i] = rnd[i] /\ rnd[i] \in known /\ pos[rnd[i]] = i
      BY <1>1, <1>3, <2>1, <2>3
    <3>2. rnd[i] # a /\ rnd[i] # top
      BY <1>2, <2>1, <2>3, <3>1
    <3> QED
      BY <1>1, <1>3, <3>1, <3>2
  <2> QED
    BY <2>2, <2>3
<1>8. ASSUME NEW x \in Addr \ known' PROVE pos'[x] = 0
  BY <1>1, <1>2, <1>3
<1> QED
  BY Zenon, <1>1, <1>3, <1>4, <1>5, <1>6, <1>7, <1>8 DEF Vector

-----------------------------------------------------------------------------
(* Steps on the tables.                                                    *)

\* The parts of Sound(Current) as facts about the variables.
LEMMA SoundCurrent ==
  Sound(Current) <=> /\ Vector(known, pos, rnd)
                     /\ Entries(known, home, marked)
                     /\ Placed(known, marked, fresh, used)
                     /\ Counted(refs, fresh)
                     /\ Near(home, fresh)
                     /\ Fits(fresh, used)
  BY DEF Sound, Current

\* Forgetting an entry keeps what is known of the others.
LEMMA ForgetEntries ==
  ASSUME Entries(known, home, marked), known \subseteq Addr, NEW a \in known, Forget(a),
         marked' \in [Addr -> BOOLEAN], ~marked'[a],
         \A x \in Addr \ {a} : marked'[x] = marked[x]
  PROVE  Entries(known', home', marked')
<1>1. home' = [home EXCEPT ![a] = Nowhere] /\ known' = known \ {a}
  BY DEF Forget
<1>2. home' \in [Addr -> Nat]
  BY <1>1 DEF Entries, Nowhere
<1> QED
  BY <1>1, <1>2 DEF Entries

\* The references of an address after one bucket has lost it.
LEMMA DropCounted ==
  ASSUME Counted(refs, fresh), fresh \in [Fresh -> SUBSET Addr],
         NEW b \in Fresh, NEW a \in fresh[b],
         fresh' = [fresh EXCEPT ![b] = @ \ {a}], refs' = [refs EXCEPT ![a] = @ - 1]
  PROVE  /\ Counted(refs', fresh')
         /\ refs[a] = 1 <=> \A c \in Fresh : a \in fresh[c] => c = b
<1> DEFINE H(x) == {c \in Fresh : x \in fresh[c]}
           K(x) == {c \in Fresh : x \in fresh'[c]}
<1>1. a \in Addr
  OBVIOUS
<1>2. K(a) = H(a) \ {b} /\ b \in H(a)
  OBVIOUS
<1>3. \A x \in Addr \ {a} : K(x) = H(x)
  OBVIOUS
<1>4. IsFiniteSet(H(a)) /\ Cardinality(H(a)) \in Nat
  BY Finite
<1>5. refs[a] = Cardinality(H(a)) /\ refs \in [Addr -> Int]
  BY <1>1 DEF Counted
<1>6. Cardinality(K(a)) = refs[a] - 1
  BY Zenon, <1>2, <1>4, <1>5, OneMore
<1>7. Counted(refs', fresh')
  <2>1. refs' \in [Addr -> Int]
    BY <1>1, <1>5
  <2>2. ASSUME NEW x \in Addr PROVE refs'[x] = Cardinality(K(x))
    <3>1. CASE x = a
      BY <1>1, <1>5, <1>6, <3>1
    <3>2. CASE x # a
      <4>1. K(x) = H(x)
        BY <1>3, <3>2
      <4>2. refs'[x] = refs[x] /\ refs[x] = Cardinality(H(x))
        BY <1>5, <3>2 DEF Counted
      <4> QED
        BY Zenon, <4>1, <4>2
    <3> QED
      BY <3>1, <3>2
  <2> QED
    BY <2>1, <2>2 DEF Counted
<1>8. refs[a] = 1 <=> H(a) = {b}
  <2> HIDE DEF H
  <2>1. Cardinality(H(a)) = 1 <=> \E x : H(a) = {x}
    BY <1>4, FS_Singleton, Zenon
  <2> QED
    BY <1>2, <1>5, <2>1
<1> QED
  BY <1>2, <1>7, <1>8

\* evict_fresh, for one entry: the tables stay in order, the bucket has room,
\* and the counter follows the number of untried entries.
LEMMA DropKeeps ==
  ASSUME Sound(Current), totalFresh \in Int, NEW b \in Fresh, NEW a \in fresh[b], Drop(a, b)
  PROVE  /\ Sound(Current)'
         /\ a \in known /\ known' \subseteq known /\ known \ known' \subseteq {a}
         /\ marked' = marked
         /\ \A x \in known' : home'[x] = home[x]
         /\ fresh' = [fresh EXCEPT ![b] = @ \ {a}]
         /\ Cardinality(fresh'[b]) < FreshSize
         /\ totalFresh' - Cardinality(Untried') = totalFresh - Cardinality(Untried)
         /\ totalUsed' = totalUsed /\ Tried' = Tried
<1>1. /\ Vector(known, pos, rnd) /\ Entries(known, home, marked)
      /\ Placed(known, marked, fresh, used) /\ Counted(refs, fresh)
      /\ Near(home, fresh) /\ Fits(fresh, used)
  BY SoundCurrent
<1>2. /\ fresh \in [Fresh -> SUBSET Addr] /\ used \in [Used -> SUBSET Addr]
      /\ known \subseteq Addr /\ marked \in [Addr -> BOOLEAN]
  BY <1>1 DEF Vector, Placed, Entries
<1>3. a \in Addr /\ a \in known /\ ~marked[a]
  BY <1>1, <1>2 DEF Placed
<1>4. /\ fresh' = [fresh EXCEPT ![b] = @ \ {a}] /\ refs' = [refs EXCEPT ![a] = @ - 1]
      /\ UNCHANGED <<marked, used, totalUsed>>
  BY DEF Drop
<1>5. /\ Counted(refs', fresh')
      /\ refs[a] = 1 <=> \A c \in Fresh : a \in fresh[c] => c = b
  BY Zenon, <1>1, <1>2, <1>4, DropCounted
<1>6. IsFiniteSet(fresh[b]) /\ Cardinality(fresh[b]) \in Nat /\ Cardinality(fresh[b]) <= FreshSize
  BY <1>1, <1>2, Finite DEF Fits
<1>7. Cardinality(fresh'[b]) = Cardinality(fresh[b]) - 1
  BY Zenon, <1>2, <1>4, <1>6, OneMore
<1>8. Cardinality(fresh'[b]) < FreshSize
  BY <1>6, <1>7, AddrManAssumption
<1>9. Fits(fresh', used')
  <2>1. ASSUME NEW c \in Fresh PROVE Cardinality(fresh'[c]) <= FreshSize
    <3>1. CASE c = b
      BY <1>6, <1>7, <3>1, AddrManAssumption
    <3>2. CASE c # b
      BY <1>1, <1>2, <1>4, <3>2 DEF Fits
    <3> QED
      BY <3>1, <3>2
  <2> QED
    BY <1>1, <1>4, <2>1 DEF Fits
<1>10. IsFiniteSet(Untried) /\ Cardinality(Untried) \in Nat
  BY <1>2, Finite DEF Untried
<1>11. CASE refs[a] = 1
  <2>1. Forget(a) /\ totalFresh' = totalFresh - 1
    BY <1>11 DEF Drop
  <2>2. known' = known \ {a} /\ home' = [home EXCEPT ![a] = Nowhere]
    BY <2>1 DEF Forget
  <2>3. Vector(known', pos', rnd') /\ Entries(known', home', marked')
    BY <1>1, <1>2, <1>3, <1>4, <2>1, ForgetVector, ForgetEntries
  <2>4. Placed(known', marked', fresh', used')
    BY <1>1, <1>2, <1>3, <1>4, <1>5, <1>11, <2>2 DEF Placed
  <2>5. Near(home', fresh')
    BY <1>1, <1>2, <1>4, <1>5, <1>11, <2>2 DEF Near, Entries
  <2>6. Untried' = Untried \ {a} /\ a \in Untried /\ Tried' = Tried
    BY <1>2, <1>3, <1>4, <2>2 DEF Untried, Tried
  <2>7. Cardinality(Untried') = Cardinality(Untried) - 1
    BY <1>10, <2>6, OneMore
  <2>8. Sound(Current)'
    BY <1>4, <1>5, <1>9, <2>3, <2>4, <2>5 DEF Sound, Current
  <2> QED
    BY <1>2, <1>3, <1>4, <1>8, <1>10, <2>1, <2>2, <2>6, <2>7, <2>8 DEF Entries
<1>12. CASE refs[a] # 1
  <2>1. UNCHANGED <<rnd, pos, known, home, totalFresh>>
    BY <1>12 DEF Drop
  <2>2. Vector(known', pos', rnd') /\ Entries(known', home', marked')
    BY <1>1, <1>4, <2>1
  <2>3. Placed(known', marked', fresh', used')
    BY <1>1, <1>2, <1>3, <1>4, <1>5, <1>12, <2>1 DEF Placed
  <2>4. Near(home', fresh')
    BY <1>1, <1>2, <1>4, <2>1 DEF Near
  <2>5. Untried' = Untried /\ Tried' = Tried
    BY <1>4, <2>1 DEF Untried, Tried
  <2>6. Sound(Current)'
    BY <1>4, <1>5, <1>9, <2>2, <2>3, <2>4 DEF Sound, Current
  <2> QED
    BY <1>3, <1>4, <1>8, <2>1, <2>5, <2>6
<1> QED
  BY <1>11, <1>12

-----------------------------------------------------------------------------
(* btc_addrman_add.                                                        *)

\* Nothing but a flush changes what the next start reads.
LEMMA FileKeeps ==
  ASSUME FileSound, UNCHANGED file
  PROVE  FileSound'
  BY DEF FileSound

LEMMA TablesKeep ==
  ASSUME Sound(Current), UNCHANGED tables
  PROVE  Sound(Current)'
  BY DEF tables, Current

\* What the invariant says, in the words of the properties.
LEMMA Facts ==
  ASSUME AddrInv
  PROVE  /\ Vector(known, pos, rnd) /\ Entries(known, home, marked)
         /\ Placed(known, marked, fresh, used) /\ Counted(refs, fresh)
         /\ Near(home, fresh) /\ Fits(fresh, used)
         /\ known \subseteq Addr /\ marked \in [Addr -> BOOLEAN]
         /\ home \in [Addr -> Nat] /\ \A a \in known : home[a] \in Fresh
         /\ fresh \in [Fresh -> SUBSET Addr] /\ used \in [Used -> SUBSET Addr]
         /\ refs \in [Addr -> Int]
         /\ Untried \subseteq Addr /\ Tried \subseteq Addr
         /\ Cardinality(Untried) \in Nat /\ Cardinality(Tried) \in Nat
         /\ totalFresh = Cardinality(Untried) + (IF call.new THEN 1 ELSE 0)
         /\ totalUsed = Cardinality(Tried)
         /\ totalFresh \in Nat
         /\ FileSound /\ ~aborted
<1>1. /\ Vector(known, pos, rnd) /\ Entries(known, home, marked)
      /\ Placed(known, marked, fresh, used) /\ Counted(refs, fresh)
      /\ Near(home, fresh) /\ Fits(fresh, used)
  BY SoundCurrent DEF AddrInv
<1>2. Untried \subseteq Addr /\ Tried \subseteq Addr
  BY <1>1 DEF Vector, Untried, Tried
<1>3. /\ totalFresh = Cardinality(Untried) + (IF call.new THEN 1 ELSE 0)
      /\ totalUsed = Cardinality(Tried)
  BY DEF AddrInv, Totals, Untried, Tried
<1>4. Cardinality(Untried) \in Nat /\ Cardinality(Tried) \in Nat
  BY <1>2, Finite
<1>5. totalFresh \in Nat
  BY <1>3, <1>4
<1> QED
  BY <1>1, <1>2, <1>3, <1>4, <1>5 DEF AddrInv, Vector, Entries, Placed, Counted

\* And back.
LEMMA Collect ==
  ASSUME Sound(Current)',
         totalFresh' = Cardinality(Untried') + (IF call'.new THEN 1 ELSE 0),
         totalUsed' = Cardinality(Tried'), CallSound', FileSound', ~aborted'
  PROVE  AddrInv'
  BY DEF AddrInv, Totals, Untried, Tried

\* A call starts: its bucket is searched, or has room.
LEMMA BeginSound ==
  ASSUME AddrInv, NEW a \in Addr, NEW b \in Fresh, NEW new \in BOOLEAN, Begin(a, b, new),
         a \notin fresh[b], new <=> a \notin known,
         ~new => ~marked[a] /\ home[a] = b,
         UNCHANGED <<known, home, marked, fresh>>
  PROVE  CallSound' /\ call'.new = new
<1>1. /\ fresh \in [Fresh -> SUBSET Addr] /\ Fits(fresh, used)
      /\ Cardinality(fresh[b]) \in Nat
  BY Facts, Finite
<1>2. b \in Nat /\ a # Nobody /\ FreshSize \in Nat
  BY AddrManAssumption DEF Fresh
<1>3. call' = [addr |-> a, bucket |-> b, old |-> Nobody, new |-> new,
               left |-> IF Cardinality(fresh[b]) >= FreshSize THEN fresh[b] ELSE {}]
  BY DEF Begin
<1>4. fresh[b] = {} => Cardinality(fresh[b]) < FreshSize
  BY FS_EmptySet, AddrManAssumption
<1>5. call' \in [addr : Addr \cup {Nobody}, bucket : Nat, left : SUBSET Addr,
                 old : Addr \cup {Nobody}, new : BOOLEAN]
  BY <1>1, <1>2, <1>3
<1>6. call'.left = {} => Cardinality(fresh[b]) < FreshSize
  BY <1>1, <1>2, <1>3, <1>4
<1> QED
  BY <1>1, <1>2, <1>3, <1>5, <1>6 DEF CallSound, Idle

LEMMA AddKeeps ==
  ASSUME AddrInv, NEW a \in Addr,
         (\E b \in Fresh : AddNew(a, b)) \/ AddRefresh(a) \/ AddKnown(a)
  PROVE  AddrInv'
<1> USE Facts
<1>1. CASE \E b \in Fresh : AddNew(a, b)
  <2>1. PICK b \in Fresh : AddNew(a, b)
    BY <1>1
  <2>2. Idle /\ a \notin known /\ Begin(a, b, TRUE) /\ totalFresh' = totalFresh + 1
        /\ UNCHANGED <<known, home, marked, refs, pos, rnd, fresh, used, totalUsed, dirty,
                       file, aborted>>
    BY Zenon, <2>1 DEF AddNew
  <2>3. a \notin fresh[b]
    BY <2>2 DEF Placed
  <2>4. CallSound' /\ call'.new = TRUE
    BY Zenon, <2>2, <2>3, BeginSound
  <2>5. ~call.new
    BY <2>2 DEF AddrInv, CallSound, NoCall
  <2>6. Untried' = Untried /\ Tried' = Tried
    BY <2>2 DEF Untried, Tried
  <2>7. Sound(Current)'
    BY <2>2 DEF Sound, Current
  <2>8. totalFresh' = Cardinality(Untried') + (IF call'.new THEN 1 ELSE 0)
    BY <2>2, <2>4, <2>5, <2>6
  <2> QED
    BY <2>2, <2>4, <2>6, <2>7, <2>8, Collect, FileKeeps
<1>2. CASE AddRefresh(a)
  <2>1. UNCHANGED <<tables, call, file, aborted>>
    BY <1>2 DEF AddRefresh
  <2> QED
    BY <2>1, TablesKeep, FileKeeps DEF AddrInv, CallSound, Idle, tables
<1>3. CASE AddKnown(a)
  <2>1. /\ Idle /\ a \in known /\ ~marked[a] /\ refs[a] # MaxRefs
        /\ a \notin fresh[home[a]] /\ Begin(a, home[a], FALSE)
        /\ UNCHANGED <<tables, dirty, file>>
    BY Zenon, <1>3 DEF AddKnown
  <2>2. CallSound' /\ call'.new = FALSE
    BY Zenon, <2>1, BeginSound DEF tables
  <2>3. ~call.new
    BY <2>1 DEF AddrInv, CallSound, NoCall
  <2>4. 0 < refs[a] /\ refs[a] < MaxRefs
    <3>1. refs[a] = Cardinality(Holders(a)) /\ Holders(a) # {}
      BY <2>1 DEF Counted, Placed, Holders
    <3>2. PICK x \in Fresh : \A b \in Fresh : a \in fresh[b] => b \in {home[a], x}
      BY DEF Near
    <3>3. Holders(a) = {x}
      BY <2>1, <3>1, <3>2 DEF Holders
    <3>4. refs[a] = 1
      BY Zenon, <3>1, <3>3, FS_Singleton
    <3> QED
      BY <2>1, <3>4, AddrManAssumption
  <2>5. ~aborted'
    BY <1>3, <2>4 DEF AddKnown
  <2>6. Untried' = Untried /\ Tried' = Tried /\ UNCHANGED <<totalFresh, totalUsed>>
    BY <2>1 DEF Untried, Tried, tables
  <2>7. Sound(Current)' /\ FileSound'
    BY <2>1, TablesKeep, FileKeeps DEF AddrInv
  <2> QED
    BY <2>2, <2>3, <2>5, <2>6, <2>7, Collect
<1> QED
  BY <1>1, <1>2, <1>3

\* An entry of the bucket of the call is dropped.
LEMMA DropInCall ==
  ASSUME AddrInv, ~Idle, NEW x \in fresh[call.bucket], Drop(x, call.bucket),
         NEW left \in SUBSET Addr, NEW old \in Addr \cup {Nobody},
         call' = [call EXCEPT !.left = left, !.old = old],
         left \subseteq call.left \ {x}, old \in {Nobody, call.old} \ {x},
         UNCHANGED <<file, aborted>>
  PROVE  AddrInv'
<1> DEFINE b == call.bucket
<1>1. /\ call \in [addr : Addr \cup {Nobody}, bucket : Nat, left : SUBSET Addr,
                   old : Addr \cup {Nobody}, new : BOOLEAN]
      /\ b \in Fresh /\ call.addr \notin fresh[b]
      /\ call.new <=> call.addr \notin known
      /\ ~call.new => ~marked[call.addr] /\ home[call.addr] = b
      /\ call.left \subseteq fresh[b]
      /\ call.old # Nobody => call.old \in fresh[b] \ call.left
  BY DEF AddrInv, CallSound
<1>2. /\ Sound(Current)'
      /\ x \in known /\ known' \subseteq known /\ known \ known' \subseteq {x}
      /\ marked' = marked
      /\ \A y \in known' : home'[y] = home[y]
      /\ fresh' = [fresh EXCEPT ![b] = @ \ {x}]
      /\ Cardinality(fresh'[b]) < FreshSize
      /\ totalFresh' - Cardinality(Untried') = totalFresh - Cardinality(Untried)
      /\ totalUsed' = totalUsed /\ Tried' = Tried
  <2>1. Sound(Current) /\ totalFresh \in Int
    BY Facts DEF AddrInv
  <2> QED
    BY <1>1, <2>1, DropKeeps
<1>3. /\ call' \in [addr : Addr \cup {Nobody}, bucket : Nat, left : SUBSET Addr,
                    old : Addr \cup {Nobody}, new : BOOLEAN]
      /\ call'.addr = call.addr /\ call'.bucket = b /\ call'.new = call.new
      /\ call'.left = left /\ call'.old = old
  BY Zenon, <1>1
<1>4. fresh'[b] = fresh[b] \ {x}
  BY <1>1, <1>2, Facts
<1>5. call.addr # x
  BY <1>1
<1>6. CallSound'
  BY <1>1, <1>2, <1>3, <1>4, <1>5 DEF CallSound, Idle
<1>7. Untried' \subseteq Addr
  BY <1>2, Facts DEF Untried
<1>8. Cardinality(Untried') \in Nat
  BY <1>7, Finite
<1>9. totalFresh' \in Int
  BY Facts DEF Drop
<1>10. totalFresh' = Cardinality(Untried') + (IF call'.new THEN 1 ELSE 0)
  BY <1>2, <1>3, <1>8, <1>9, Facts
<1>11. FileSound' /\ ~aborted'
  BY FileKeeps, Facts
<1> QED
  BY <1>2, <1>6, <1>10, <1>11, Facts, Collect

LEMMA EvictKeeps ==
  ASSUME AddrInv, (\E x \in Addr : EvictStale(x) \/ EvictPass(x)) \/ EvictOld
  PROVE  AddrInv'
<1>1. /\ call \in [addr : Addr \cup {Nobody}, bucket : Nat, left : SUBSET Addr,
                   old : Addr \cup {Nobody}, new : BOOLEAN]
      /\ Idle => call = NoCall
      /\ ~Idle => /\ call.left \subseteq fresh[call.bucket]
                  /\ call.old # Nobody => call.old \in fresh[call.bucket] \ call.left
  BY DEF AddrInv, CallSound
<1>2. ASSUME NEW x \in Addr, EvictStale(x) PROVE AddrInv'
  <2>1. /\ x \in call.left /\ Drop(x, call.bucket)
        /\ call' = [call EXCEPT !.left = @ \ {x}] /\ UNCHANGED <<file, aborted>>
    BY <1>2 DEF EvictStale
  <2>2. ~Idle /\ x \in fresh[call.bucket] /\ call.old # x
    BY <1>1, <2>1, AddrManAssumption DEF NoCall
  <2>3. call' = [call EXCEPT !.left = call.left \ {x}, !.old = call.old]
    BY Zenon, <1>1, <2>1
  <2>4. call.left \ {x} \in SUBSET Addr /\ call.old \in Addr \cup {Nobody}
    BY <1>1
  <2> QED
    BY Zenon, <2>1, <2>2, <2>3, <2>4, DropInCall
<1>3. ASSUME NEW x \in Addr, EvictPass(x) PROVE AddrInv'
  <2>1. PICK o \in {x} \cup ({call.old} \cap Addr) :
            call' = [call EXCEPT !.left = @ \ {x}, !.old = o]
    BY Zenon, <1>3 DEF EvictPass
  <2>2. x \in call.left /\ UNCHANGED <<tables, file, aborted>>
    BY Zenon, <1>3 DEF EvictPass
  <2>3. ~Idle /\ x \in fresh[call.bucket]
    BY <1>1, <2>2 DEF NoCall
  <2>4. o \in fresh[call.bucket] /\ o \in Addr /\ o \notin call.left \ {x}
    BY <1>1, <2>1, <2>3, AddrManAssumption
  <2>5. /\ call' \in [addr : Addr \cup {Nobody}, bucket : Nat, left : SUBSET Addr,
                      old : Addr \cup {Nobody}, new : BOOLEAN]
        /\ call'.addr = call.addr /\ call'.bucket = call.bucket /\ call'.new = call.new
        /\ call'.left = call.left \ {x} /\ call'.old = o
    BY Zenon, <1>1, <2>1, <2>4
  <2>6. o # Nobody
    BY <2>4, AddrManAssumption
  <2>7. CallSound'
    BY <1>1, <2>2, <2>3, <2>4, <2>5, <2>6 DEF CallSound, Idle, tables, AddrInv
  <2>8. Untried' = Untried /\ Tried' = Tried /\ UNCHANGED <<totalFresh, totalUsed>>
    BY <2>2 DEF Untried, Tried, tables
  <2>9. Sound(Current)' /\ FileSound'
    BY <2>2, TablesKeep, FileKeeps DEF AddrInv
  <2> QED
    BY <2>2, <2>5, <2>7, <2>8, <2>9, Facts, Collect
<1>4. CASE EvictOld
  <2>1. /\ ~Idle /\ call.left = {} /\ call.old # Nobody /\ Drop(call.old, call.bucket)
        /\ call' = [call EXCEPT !.old = Nobody] /\ UNCHANGED <<file, aborted>>
    BY <1>4 DEF EvictOld
  <2>2. call.old \in fresh[call.bucket] /\ call.old \in Addr
    BY <1>1, <2>1
  <2>3. call' = [call EXCEPT !.left = {}, !.old = Nobody]
    BY Zenon, <1>1, <2>1
  <2>4. /\ {} \in SUBSET Addr /\ {} \subseteq call.left \ {call.old}
        /\ Nobody \in Addr \cup {Nobody} /\ Nobody \in {Nobody, call.old} \ {call.old}
    BY <2>1
  <2> QED
    BY <2>1, <2>2, <2>3, <2>4, DropInCall, Zenon
<1> QED
  BY <1>2, <1>3, <1>4

\* The references of an address after one bucket has got it.
LEMMA GainCounted ==
  ASSUME NEW rf, NEW fr, NEW rg, NEW fs, Counted(rf, fr), fr \in [Fresh -> SUBSET Addr],
         NEW b \in Fresh, NEW a \in Addr, a \notin fr[b],
         fs = [fr EXCEPT ![b] = @ \cup {a}], rg = [rf EXCEPT ![a] = @ + 1]
  PROVE  Counted(rg, fs)
<1> DEFINE H(x) == {c \in Fresh : x \in fr[c]}
           K(x) == {c \in Fresh : x \in fs[c]}
<1>1. K(a) = H(a) \cup {b} /\ b \notin H(a)
  OBVIOUS
<1>2. \A x \in Addr \ {a} : K(x) = H(x)
  OBVIOUS
<1>3. IsFiniteSet(H(a)) /\ Cardinality(H(a)) \in Nat
  BY Finite
<1>4. rf[a] = Cardinality(H(a)) /\ rf \in [Addr -> Int]
  BY DEF Counted
<1>5. Cardinality(K(a)) = rf[a] + 1
  BY Zenon, <1>1, <1>3, <1>4, OneMore
<1>6. rg \in [Addr -> Int]
  BY <1>4
<1>7. ASSUME NEW x \in Addr PROVE rg[x] = Cardinality(K(x))
  <2>1. CASE x = a
    BY <1>4, <1>5, <2>1
  <2>2. CASE x # a
    <3>1. K(x) = H(x)
      BY <1>2, <2>2
    <3>2. rg[x] = rf[x] /\ rf[x] = Cardinality(H(x))
      BY <1>4, <2>2 DEF Counted
    <3> QED
      BY Zenon, <3>1, <3>2
  <2> QED
    BY <2>1, <2>2
<1> QED
  BY <1>6, <1>7 DEF Counted

\* A bucket with room takes one more.
LEMMA GainFits ==
  ASSUME NEW fr, NEW fs, NEW us, Fits(fr, us), fr \in [Fresh -> SUBSET Addr],
         NEW b \in Fresh, NEW a \in Addr, Cardinality(fr[b]) < FreshSize,
         fs = [fr EXCEPT ![b] = @ \cup {a}]
  PROVE  Fits(fs, us)
<1>1. IsFiniteSet(fr[b]) /\ Cardinality(fr[b]) \in Nat /\ FreshSize \in Nat
  BY Finite, AddrManAssumption
<1>2. fs[b] = fr[b] \cup {a}
  OBVIOUS
<1>3. Cardinality(fs[b]) = IF a \in fr[b] THEN Cardinality(fr[b]) ELSE Cardinality(fr[b]) + 1
  BY <1>1, <1>2, FS_AddElement
<1>4. Cardinality(fs[b]) <= FreshSize
  BY <1>1, <1>3
<1>5. \A c \in Fresh \ {b} : fs[c] = fr[c]
  OBVIOUS
<1> QED
  BY <1>4, <1>5 DEF Fits

\* btc_randvec_push keeps pos and rnd inverse to each other.
LEMMA PushVector ==
  ASSUME Vector(known, pos, rnd), NEW a \in Addr \ known,
         known' = known \cup {a}, rnd' = Append(rnd, a),
         pos' = [pos EXCEPT ![a] = Len(rnd) + 1]
  PROVE  Vector(known', pos', rnd')
<1> DEFINE n == Len(rnd)
<1>1. /\ known \subseteq Addr /\ pos \in [Addr -> Nat] /\ rnd \in Seq(Addr)
      /\ n \in Nat
      /\ \A x \in known : pos[x] \in 1 .. n /\ rnd[pos[x]] = x
      /\ \A i \in 1 .. n : rnd[i] \in known /\ pos[rnd[i]] = i
      /\ \A x \in Addr \ known : pos[x] = 0
  BY LenProperties DEF Vector
<1>2. /\ rnd' \in Seq(Addr) /\ Len(rnd') = n + 1 /\ rnd'[n + 1] = a
      /\ \A i \in 1 .. n : rnd'[i] = rnd[i]
  BY <1>1
<1> HIDE DEF n
<1>3. pos' \in [Addr -> Nat] /\ pos'[a] = n + 1 /\ \A x \in Addr \ {a} : pos'[x] = pos[x]
  BY <1>1 DEF n
<1>4. ASSUME NEW x \in known' PROVE pos'[x] \in 1 .. n + 1 /\ rnd'[pos'[x]] = x
  <2>1. CASE x = a
    BY <1>1, <1>2, <1>3, <2>1
  <2>2. CASE x # a
    <3>1. pos'[x] = pos[x] /\ pos[x] \in 1 .. n /\ rnd[pos[x]] = x
      BY <1>1, <1>3, <2>2
    <3> QED
      BY <1>1, <1>2, <3>1
  <2> QED
    BY Zenon, <2>1, <2>2
<1>5. ASSUME NEW i \in 1 .. n + 1 PROVE rnd'[i] \in known' /\ pos'[rnd'[i]] = i
  <2>1. CASE i = n + 1
    BY <1>2, <1>3, <2>1
  <2>2. CASE i # n + 1
    <3>1. i \in 1 .. n
      BY <1>1, <2>2
    <3>2. rnd'[i] = rnd[i] /\ rnd[i] \in known /\ pos[rnd[i]] = i
      BY <1>1, <1>2, <3>1
    <3> QED
      BY <1>1, <1>3, <3>2
  <2> QED
    BY Zenon, <2>1, <2>2
<1>6. \A x \in Addr \ known' : pos'[x] = 0
  BY <1>1, <1>3
<1> QED
  BY <1>1, <1>2, <1>3, <1>4, <1>5, <1>6 DEF Vector

\* The rest of btc_addrman_add.
LEMMA InsertKeeps ==
  ASSUME AddrInv, Insert
  PROVE  AddrInv'
<1> DEFINE a == call.addr
           b == call.bucket
<1>1. /\ call \in [addr : Addr \cup {Nobody}, bucket : Nat, left : SUBSET Addr,
                   old : Addr \cup {Nobody}, new : BOOLEAN]
      /\ ~Idle /\ b \in Fresh /\ a \notin fresh[b]
      /\ call.new <=> a \notin known
      /\ ~call.new => ~marked[a] /\ home[a] = b
      /\ Cardinality(fresh[b]) < FreshSize
  BY DEF AddrInv, CallSound, Insert
<1>2. a \in Addr
  BY <1>1 DEF Idle
<1>3. /\ fresh' = [fresh EXCEPT ![b] = @ \cup {a}]
      /\ refs' = [refs EXCEPT ![a] = @ + 1]
      /\ call' = NoCall
      /\ UNCHANGED <<marked, used, totalFresh, totalUsed, file, aborted>>
      /\ a \in known => UNCHANGED <<known, home, rnd, pos>>
      /\ a \notin known => /\ known' = known \cup {a}
                          /\ home' = [home EXCEPT ![a] = b]
                          /\ rnd' = Append(rnd, a)
                          /\ pos' = [pos EXCEPT ![a] = Len(rnd) + 1]
  BY DEF Insert
<1>4. /\ fresh \in [Fresh -> SUBSET Addr] /\ used \in [Used -> SUBSET Addr]
      /\ known \subseteq Addr /\ marked \in [Addr -> BOOLEAN] /\ home \in [Addr -> Nat]
  BY Facts
<1> HIDE DEF a, b
<1>5. ~marked[a] /\ (a \in known => home[a] = b)
  BY <1>1, <1>2, Facts DEF Entries
<1>6. known' = known \cup {a} /\ home' = [home EXCEPT ![a] = b]
  BY <1>2, <1>3, <1>4, <1>5
<1>7. Vector(known', pos', rnd')
  BY <1>2, <1>3, Facts, PushVector
<1>8. Entries(known', home', marked')
  <2>1. b \in Nat
    BY <1>1, AddrManAssumption DEF Fresh
  <2>2. \A x \in Addr : home'[x] = IF x = a THEN b ELSE home[x]
    BY <1>4, <1>6
  <2>3. home' \in [Addr -> Nat]
    BY Zenon, <1>4, <1>6, <2>1
  <2>4. /\ \A x \in known : home[x] \in Fresh
        /\ \A x \in Addr \ known : home[x] = Nowhere /\ ~marked[x]
    BY Facts DEF Entries
  <2> QED
    BY <1>1, <1>3, <1>4, <1>6, <2>2, <2>3, <2>4 DEF Entries
<1>9. Placed(known', marked', fresh', used')
  <2>1. fresh' \in [Fresh -> SUBSET Addr]
    BY Zenon, <1>2, <1>3, <1>4
  <2>2. ASSUME NEW x \in Addr
        PROVE  (\E c \in Fresh : x \in fresh'[c]) <=> (x \in known' /\ ~marked'[x])
    <3>1. CASE x = a
      <4>1. a \in fresh'[b]
        BY <1>1, <1>3, <1>4
      <4> QED
        BY <1>1, <1>3, <1>5, <1>6, <3>1, <4>1
    <3>2. CASE x # a
      <4>1. \A c \in Fresh : x \in fresh'[c] <=> x \in fresh[c]
        BY <1>1, <1>3, <1>4, <3>2
      <4> QED
        BY <1>3, <1>6, <3>2, <4>1, Facts DEF Placed
    <3> QED
      BY <3>1, <3>2
  <2>3. \A x \in Addr : \A c \in Used :
            x \in used'[c] <=> (x \in known' /\ marked'[x] /\ c = UsedBucket[x])
    BY <1>3, <1>5, <1>6, Facts DEF Placed
  <2> QED
    BY <1>3, <1>4, <2>1, <2>2, <2>3 DEF Placed
<1>10. Counted(refs', fresh')
  BY Zenon, <1>1, <1>2, <1>3, Facts, GainCounted
<1>11. Near(home', fresh')
  <2>1. ASSUME NEW x \in Addr
        PROVE  \E y \in Fresh : \A c \in Fresh : x \in fresh'[c] => c \in {home'[x], y}
    <3>1. PICK y \in Fresh : \A c \in Fresh : x \in fresh[c] => c \in {home[x], y}
      BY Facts DEF Near
    <3>2. CASE x = a /\ a \in known
      BY <1>1, <1>3, <1>4, <1>5, <1>6, <3>1, <3>2
    <3>3. CASE x = a /\ a \notin known
      <4>1. \A c \in Fresh : a \notin fresh[c]
        BY <1>2, <3>3, Facts DEF Placed
      <4>2. \A c \in Fresh : a \in fresh'[c] => c = b
        BY <1>3, <1>4, <4>1
      <4> QED
        BY <1>1, <3>3, <4>2
    <3>4. CASE x # a
      <4>1. home'[x] = home[x] /\ \A c \in Fresh : x \in fresh'[c] <=> x \in fresh[c]
        BY <1>1, <1>3, <1>4, <1>6, <3>4
      <4> QED
        BY <3>1, <4>1
    <3> QED
      BY <3>2, <3>3, <3>4
  <2> QED
    BY <2>1 DEF Near
<1>12. Fits(fresh', used')
  BY Zenon, <1>1, <1>2, <1>3, Facts, GainFits
<1>13. Sound(Current)'
  BY <1>7, <1>8, <1>9, <1>10, <1>11, <1>12 DEF Sound, Current
<1>14. Untried' = Untried \cup {a} /\ Tried' = Tried /\ (a \in Untried <=> a \in known)
  BY <1>3, <1>5, <1>6 DEF Untried, Tried
<1>15. Cardinality(Untried') = IF a \in known THEN Cardinality(Untried) ELSE Cardinality(Untried) + 1
  BY <1>14, Facts, Finite, FS_AddElement
<1>16. totalFresh' = Cardinality(Untried') + (IF call'.new THEN 1 ELSE 0)
  BY <1>1, <1>3, <1>15, Facts DEF NoCall
<1>17. CallSound'
  BY Zenon, <1>3, AddrManAssumption DEF CallSound, Idle, NoCall, Nowhere
<1>18. FileSound' /\ ~aborted' /\ totalUsed' = Cardinality(Tried')
  BY <1>3, <1>14, Facts, FileKeeps
<1> QED
  BY <1>13, <1>16, <1>17, <1>18, Collect

-----------------------------------------------------------------------------
(* btc_addrman_mark_ack and btc_addrman_remove.                            *)

\* An address leaves all the fresh buckets.
LEMMA ClearKeeps ==
  ASSUME AddrInv, NEW a \in Addr
  PROVE  /\ Counted([refs EXCEPT ![a] = 0], [b \in Fresh |-> fresh[b] \ {a}])
         /\ Fits([b \in Fresh |-> fresh[b] \ {a}], used)
         /\ [b \in Fresh |-> fresh[b] \ {a}] \in [Fresh -> SUBSET Addr]
<1> DEFINE fs == [b \in Fresh |-> fresh[b] \ {a}]
           rg == [refs EXCEPT ![a] = 0]
<1>0. Counted(refs, fresh) /\ Fits(fresh, used) /\ fresh \in [Fresh -> SUBSET Addr]
  BY Facts
<1>1. ASSUME NEW x \in Addr PROVE rg[x] = Cardinality({c \in Fresh : x \in fs[c]})
  <2>1. CASE x = a
    <3>1. {c \in Fresh : x \in fs[c]} = {}
      BY <2>1
    <3> QED
      BY Zenon, <1>0, <2>1, <3>1, FS_EmptySet DEF Counted
  <2>2. CASE x # a
    <3>1. {c \in Fresh : x \in fs[c]} = {c \in Fresh : x \in fresh[c]}
      BY <2>2
    <3>2. rg[x] = refs[x] /\ refs[x] = Cardinality({c \in Fresh : x \in fresh[c]})
      BY <1>0, <2>2 DEF Counted
    <3> QED
      BY Zenon, <3>1, <3>2
  <2> QED
    BY <2>1, <2>2
<1>2. rg \in [Addr -> Int]
  BY <1>0 DEF Counted
<1>3. ASSUME NEW b \in Fresh PROVE Cardinality(fs[b]) <= FreshSize
  <2>1. IsFiniteSet(fresh[b]) /\ Cardinality(fresh[b]) \in Nat
    BY <1>0, Finite
  <2>2. fs[b] \subseteq fresh[b] /\ fs[b] \subseteq Addr
    BY <1>0
  <2>3. Cardinality(fs[b]) <= Cardinality(fresh[b]) /\ Cardinality(fs[b]) \in Nat
    BY <2>1, <2>2, FS_Subset, Finite
  <2>4. Cardinality(fresh[b]) <= FreshSize /\ FreshSize \in Nat
    BY <1>0, AddrManAssumption DEF Fits
  <2> QED
    BY <2>1, <2>3, <2>4
<1> QED
  BY Zenon, <1>0, <1>1, <1>2, <1>3 DEF Counted, Fits

\* An entry that is not tried has references, one that is tried has none.
LEMMA RefsOf ==
  ASSUME AddrInv, NEW a \in known
  PROVE  /\ refs[a] = Cardinality(Holders(a)) /\ refs[a] \in Nat
         /\ ~marked[a] => Holders(a) # {} /\ refs[a] > 0
         /\ marked[a] => Holders(a) = {} /\ refs[a] = 0
<1>1. a \in Addr /\ refs[a] = Cardinality(Holders(a))
  BY Facts DEF Counted, Holders
<1>2. IsFiniteSet(Holders(a)) /\ Cardinality(Holders(a)) \in Nat
  BY Finite DEF Holders
<1>3. Holders(a) # {} <=> ~marked[a]
  BY <1>1, Facts DEF Placed, Holders
<1>4. Cardinality(Holders(a)) = 0 <=> Holders(a) = {}
  BY <1>2, FS_EmptySet
<1> QED
  BY <1>1, <1>2, <1>3, <1>4

\* No call is in progress: that is all CallSound says.
LEMMA IdleCall ==
  ASSUME AddrInv, Idle, UNCHANGED call
  PROVE  CallSound' /\ ~call.new /\ call'.new = call.new
<1>1. CallSound
  BY DEF AddrInv
<1>2. call = NoCall /\ call' = NoCall
  BY <1>1 DEF CallSound
<1>3. Idle'
  BY <1>2 DEF Idle, NoCall
<1>4. CallSound'
  BY <1>1, <1>2, <1>3 DEF CallSound
<1> QED
  BY <1>2, <1>4 DEF NoCall

LEMMA MarkAckKeeps ==
  ASSUME AddrInv, NEW a \in Addr, MarkAck(a)
  PROVE  AddrInv'
<1> DEFINE u == UsedBucket[a]
<1>1. /\ Idle /\ a \in known /\ ~marked[a] /\ Cardinality(used[u]) < UsedSize
      /\ fresh' = [b \in Fresh |-> fresh[b] \ {a}]
      /\ refs' = [refs EXCEPT ![a] = @ - Cardinality(Holders(a))]
      /\ marked' = [marked EXCEPT ![a] = TRUE]
      /\ used' = [used EXCEPT ![u] = @ \cup {a}]
      /\ totalFresh' = totalFresh - 1 /\ totalUsed' = totalUsed + 1
      /\ aborted' = (aborted \/ Holders(a) = {} \/ refs[a] <= 0 \/ refs'[a] # 0)
      /\ UNCHANGED <<known, home, pos, rnd, call, file>>
  BY DEF MarkAck
<1>2. /\ fresh \in [Fresh -> SUBSET Addr] /\ used \in [Used -> SUBSET Addr]
      /\ known \subseteq Addr /\ marked \in [Addr -> BOOLEAN] /\ refs \in [Addr -> Int]
      /\ u \in Used
  BY Facts, AddrManAssumption
<1> HIDE DEF u
<1>3. Holders(a) # {} /\ refs[a] > 0 /\ refs[a] - Cardinality(Holders(a)) = 0
  <2>1. refs[a] = Cardinality(Holders(a)) /\ refs[a] \in Nat /\ Holders(a) # {} /\ refs[a] > 0
    BY <1>1, RefsOf
  <2> QED
    BY <2>1
<1>4. refs' = [refs EXCEPT ![a] = 0] /\ ~aborted'
  <2>1. refs' = [refs EXCEPT ![a] = 0]
    BY Zenon, <1>1, <1>3
  <2>2. refs'[a] = 0 /\ ~(refs[a] <= 0)
    BY <1>2, <1>3, <2>1
  <2>3. ~aborted
    BY Facts
  <2> QED
    BY Zenon, <1>1, <1>3, <2>1, <2>2, <2>3
<1>5. Counted(refs', fresh') /\ Fits(fresh', used) /\ fresh' \in [Fresh -> SUBSET Addr]
  BY Zenon, <1>1, <1>4, ClearKeeps
<1>6. Fits(fresh', used')
  <2>1. IsFiniteSet(used[u]) /\ Cardinality(used[u]) \in Nat /\ UsedSize \in Nat
    BY <1>2, Finite, AddrManAssumption
  <2>2. used'[u] = used[u] \cup {a}
    BY <1>1, <1>2
  <2>3. Cardinality(used'[u]) = IF a \in used[u] THEN Cardinality(used[u]) ELSE Cardinality(used[u]) + 1
    BY Zenon, <2>1, <2>2, FS_AddElement
  <2>4. Cardinality(used'[u]) <= UsedSize
    BY <1>1, <2>1, <2>3
  <2>5. \A c \in Used \ {u} : used'[c] = used[c]
    BY <1>1, <1>2
  <2> QED
    BY <1>5, <2>4, <2>5 DEF Fits
<1>7. Vector(known', pos', rnd')
  BY <1>1, Facts
<1>8. Entries(known', home', marked')
  <2>1. marked' \in [Addr -> BOOLEAN] /\ \A x \in Addr \ {a} : marked'[x] = marked[x]
    BY <1>1, <1>2
  <2> QED
    BY <1>1, <2>1, Facts DEF Entries
<1>9. Placed(known', marked', fresh', used')
  <2>1. ASSUME NEW x \in Addr
        PROVE  (\E c \in Fresh : x \in fresh'[c]) <=> (x \in known' /\ ~marked'[x])
    BY <1>1, <1>2, Facts DEF Placed
  <2>2. ASSUME NEW x \in Addr, NEW c \in Used
        PROVE  x \in used'[c] <=> (x \in known' /\ marked'[x] /\ c = UsedBucket[x])
    <3>1. x \in used[c] <=> (x \in known /\ marked[x] /\ c = UsedBucket[x])
      BY Facts DEF Placed
    <3>2. x \in used'[c] <=> x \in used[c] \/ (x = a /\ c = u)
      BY <1>1, <1>2
    <3> QED
      BY <1>1, <1>2, <3>1, <3>2 DEF u
  <2>3. used' \in [Used -> SUBSET Addr]
    BY <1>1, <1>2
  <2> QED
    BY <1>5, <2>1, <2>2, <2>3 DEF Placed
<1>10. Near(home', fresh')
  BY <1>1, <1>2, Facts DEF Near
<1>11. Sound(Current)'
  BY <1>5, <1>6, <1>7, <1>8, <1>9, <1>10 DEF Sound, Current
<1>12. /\ Untried' = Untried \ {a} /\ a \in Untried
       /\ Tried' = Tried \cup {a} /\ a \notin Tried
  BY <1>1, <1>2 DEF Untried, Tried
<1>13. /\ Cardinality(Untried') = Cardinality(Untried) - 1
       /\ Cardinality(Tried') = Cardinality(Tried) + 1
  BY Zenon, <1>12, Facts, Finite, OneMore
<1>14. CallSound' /\ ~call.new /\ call'.new = call.new
  BY <1>1, IdleCall
<1>15. /\ totalFresh' = Cardinality(Untried') + (IF call'.new THEN 1 ELSE 0)
       /\ totalUsed' = Cardinality(Tried')
  BY <1>1, <1>13, <1>14, Facts
<1> QED
  BY <1>1, <1>4, <1>11, <1>14, <1>15, Facts, FileKeeps, Collect

\* The loop over man->fresh leaves the last bucket it found the entry in.
LEMMA LastHolderHolds ==
  ASSUME NEW a, Holders(a) # {}
  PROVE  LastHolder(a) \in Holders(a)
<1> DEFINE D == {FreshCount - b : b \in Holders(a)}
<1>1. FreshCount \in Nat /\ Holders(a) \subseteq 1 .. FreshCount
  BY AddrManAssumption DEF Holders, Fresh
<1>2. D \subseteq Nat /\ D # {}
  BY <1>1
<1>3. PICK d \in D : \A e \in D : ~(<<e, d>> \in OpToRel(<, Nat))
  BY Zenon, <1>2, NatLessThanWellFounded, WFMin
<1>4. \A e \in D : d <= e
  <2>1. ASSUME NEW e \in D PROVE d <= e
    <3>1. <<e, d>> \in OpToRel(<, Nat) <=> e < d
      BY <1>2 DEF OpToRel
    <3>2. ~(e < d)
      BY <1>3, <3>1, Zenon
    <3> QED
      BY <1>2, <3>2
  <2> QED
    BY <2>1
<1>5. PICK b \in Holders(a) : d = FreshCount - b
  BY Zenon, <1>3
<1>6. \A c \in Holders(a) : c <= b
  BY <1>1, <1>4, <1>5
<1> QED
  BY <1>6 DEF LastHolder

LEMMA MarkAckEvictKeeps ==
  ASSUME AddrInv, NEW a \in Addr, NEW e \in Addr, MarkAckEvict(a, e)
  PROVE  AddrInv'
<1> DEFINE u == UsedBucket[a]
           without == [b \in Fresh |-> fresh[b] \ {a}]
           f == IF Cardinality(without[home[e]]) >= FreshSize THEN LastHolder(a) ELSE home[e]
<1>1. /\ Idle /\ a \in known /\ ~marked[a] /\ e \in used[u]
      /\ fresh' = [without EXCEPT ![f] = @ \cup {e}]
      /\ refs' = [refs EXCEPT ![a] = @ - Cardinality(Holders(a)), ![e] = @ + 1]
      /\ marked' = [marked EXCEPT ![a] = TRUE, ![e] = FALSE]
      /\ used' = [used EXCEPT ![u] = (@ \ {e}) \cup {a}]
      /\ aborted' = (aborted \/ Holders(a) = {} \/ refs[a] <= 0 \/ refs'[a] # 0 \/ refs[e] # 0)
      /\ UNCHANGED <<known, home, pos, rnd, totalFresh, totalUsed, call, file>>
  BY Zenon DEF MarkAckEvict
<1>2. /\ fresh \in [Fresh -> SUBSET Addr] /\ used \in [Used -> SUBSET Addr]
      /\ known \subseteq Addr /\ marked \in [Addr -> BOOLEAN] /\ refs \in [Addr -> Int]
      /\ \A x \in known : home[x] \in Fresh
      /\ u \in Used
  BY Facts, AddrManAssumption
<1>3. e \in known /\ marked[e] /\ UsedBucket[e] = u /\ e # a
  BY <1>1, <1>2, Facts DEF Placed
<1>4. /\ Counted([refs EXCEPT ![a] = 0], without) /\ Fits(without, used)
      /\ without \in [Fresh -> SUBSET Addr]
  BY Zenon, ClearKeeps
<1>5. refs[a] = Cardinality(Holders(a)) /\ refs[a] \in Nat /\ Holders(a) # {} /\ refs[a] > 0
  BY <1>1, RefsOf
<1>6. Holders(e) = {} /\ refs[e] = 0
  BY <1>3, RefsOf
<1>7. f \in Fresh /\ Cardinality(without[f]) < FreshSize
  <2>1. CASE Cardinality(without[home[e]]) >= FreshSize
    <3>1. f \in Holders(a)
      BY <1>5, <2>1, LastHolderHolds
    <3>2. f \in Fresh /\ a \in fresh[f] /\ without[f] = fresh[f] \ {a}
      BY <3>1 DEF Holders
    <3> HIDE DEF f, without
    <3>3. IsFiniteSet(fresh[f]) /\ Cardinality(fresh[f]) \in Nat
      BY <1>2, <3>2, Finite
    <3>4. Cardinality(without[f]) = Cardinality(fresh[f]) - 1
      BY Zenon, <3>2, <3>3, OneMore
    <3>5. Cardinality(fresh[f]) <= FreshSize /\ FreshSize \in Nat
      BY <3>2, Facts, AddrManAssumption DEF Fits
    <3> QED
      BY <3>2, <3>3, <3>4, <3>5
  <2>2. CASE ~(Cardinality(without[home[e]]) >= FreshSize)
    <3>1. f = home[e] /\ f \in Fresh
      BY <1>2, <1>3, <2>2
    <3>2. without[f] \subseteq Addr
      BY <1>4, <3>1
    <3>3. Cardinality(without[f]) \in Nat /\ FreshSize \in Nat
      BY <3>2, Finite, AddrManAssumption
    <3> QED
      BY <2>2, <3>1, <3>3
  <2> QED
    BY <2>1, <2>2
<1> DEFINE mid == [refs EXCEPT ![a] = 0]
<1>8. refs' = [mid EXCEPT ![e] = @ + 1] /\ refs'[a] = 0
  <2>1. refs[a] - Cardinality(Holders(a)) = 0
    BY <1>5
  <2>2. refs' = [[refs EXCEPT ![a] = refs[a] - Cardinality(Holders(a))] EXCEPT ![e] = @ + 1]
    BY <1>1, <1>2, <1>3
  <2> QED
    BY Zenon, <1>2, <1>3, <2>1, <2>2
<1>9. ~aborted'
  <2>1. ~(refs[a] <= 0)
    BY <1>5
  <2> QED
    BY <1>1, <1>5, <1>6, <1>8, <2>1, Facts
<1>10. \A b \in Fresh : e \notin without[b]
  BY <1>6 DEF Holders
<1> HIDE DEF f, u, mid
<1>11. Counted(refs', fresh')
  BY Zenon, <1>1, <1>4, <1>7, <1>8, <1>10, GainCounted DEF mid
<1>12. Fits(fresh', used)
  BY Zenon, <1>1, <1>4, <1>7, GainFits
<1>13. Fits(fresh', used')
  <2>1. IsFiniteSet(used[u]) /\ Cardinality(used[u]) \in Nat /\ a \notin used[u]
    BY Zenon, <1>1, <1>2, Finite, Facts DEF Placed
  <2>2. Cardinality(used[u] \ {e}) = Cardinality(used[u]) - 1 /\ IsFiniteSet(used[u] \ {e})
    BY Zenon, <1>1, <2>1, OneMore
  <2>3. Cardinality(used[u] \ {e}) \in Nat
    BY <2>2, FS_CardinalityType
  <2>4. used'[u] = (used[u] \ {e}) \cup {a} /\ a \notin used[u] \ {e}
    BY <1>1, <1>2, <2>1
  <2>5. Cardinality(used'[u]) = Cardinality(used[u] \ {e}) + 1
    BY Zenon, <2>2, <2>3, <2>4, OneMore
  <2>6. Cardinality(used'[u]) = Cardinality(used[u])
    <3>1. \A k, m \in Nat : m = k - 1 => m + 1 = k
      OBVIOUS
    <3> QED
      BY <2>1, <2>2, <2>3, <2>5, <3>1, Zenon
  <2>7. \A c \in Used \ {u} : used'[c] = used[c]
    BY <1>1, <1>2
  <2> QED
    BY <1>2, <1>12, <2>6, <2>7 DEF Fits
<1>14. Vector(known', pos', rnd')
  BY <1>1, Facts
<1>15. /\ marked' \in [Addr -> BOOLEAN] /\ marked'[a] /\ ~marked'[e]
       /\ \A x \in Addr \ {a, e} : marked'[x] = marked[x]
  BY Zenon, <1>1, <1>2, <1>3
<1>16. Entries(known', home', marked')
  BY Zenon, <1>1, <1>3, <1>15, Facts DEF Entries
<1>17. \A x \in Addr : \A b \in Fresh :
          x \in fresh'[b] <=> (x # a /\ x \in fresh[b]) \/ (x = e /\ b = f)
  BY Zenon, <1>1, <1>3, <1>4, <1>7
<1>18. Placed(known', marked', fresh', used')
  <2>1. ASSUME NEW x \in Addr
        PROVE  (\E c \in Fresh : x \in fresh'[c]) <=> (x \in known' /\ ~marked'[x])
    <3>1. (\E c \in Fresh : x \in fresh[c]) <=> (x \in known /\ ~marked[x])
      BY Zenon, Facts DEF Placed
    <3>2. known' = known
      BY <1>1
    <3> QED
      BY <1>3, <1>7, <1>15, <1>17, <3>1, <3>2
  <2>2. ASSUME NEW x \in Addr, NEW c \in Used
        PROVE  x \in used'[c] <=> (x \in known' /\ marked'[x] /\ c = UsedBucket[x])
    <3>1. x \in used[c] <=> (x \in known /\ marked[x] /\ c = UsedBucket[x])
      BY Zenon, Facts DEF Placed
    <3>2. x \in used'[c] <=> (x \in used[c] /\ ~(x = e /\ c = u)) \/ (x = a /\ c = u)
      BY <1>1, <1>2, <1>3
    <3>3. UsedBucket[a] = u /\ known' = known
      BY <1>1 DEF u
    <3> QED
      BY Zenon, <1>1, <1>3, <1>15, <3>1, <3>2, <3>3
  <2>3. used' \in [Used -> SUBSET Addr] /\ fresh' \in [Fresh -> SUBSET Addr]
    BY Zenon, <1>1, <1>2, <1>4
  <2> QED
    BY <2>1, <2>2, <2>3 DEF Placed
<1>19. Near(home', fresh')
  <2>1. ASSUME NEW x \in Addr
        PROVE  \E y \in Fresh : \A c \in Fresh : x \in fresh'[c] => c \in {home'[x], y}
    <3>1. CASE x = e
      <4>1. \A c \in Fresh : e \in fresh'[c] => c = f
        BY <1>6, <1>17 DEF Holders
      <4> QED
        BY <1>7, <3>1, <4>1
    <3>2. CASE x # e
      <4>1. PICK y \in Fresh : \A c \in Fresh : x \in fresh[c] => c \in {home[x], y}
        BY Facts DEF Near
      <4> QED
        BY Zenon, <1>1, <1>17, <3>2, <4>1
    <3> QED
      BY <3>1, <3>2
  <2> QED
    BY <2>1 DEF Near
<1>20. Sound(Current)'
  BY <1>11, <1>13, <1>14, <1>16, <1>18, <1>19 DEF Sound, Current
<1>21. /\ Untried' = (Untried \ {a}) \cup {e} /\ a \in Untried /\ e \notin Untried
       /\ Tried' = (Tried \ {e}) \cup {a} /\ a \notin Tried /\ e \in Tried
  BY Zenon, <1>1, <1>2, <1>3, <1>15 DEF Untried, Tried
<1>22. ASSUME NEW S, NEW x, NEW y, S \subseteq Addr, x \in S, y \notin S
       PROVE  Cardinality((S \ {x}) \cup {y}) = Cardinality(S)
  <2>1. IsFiniteSet(S) /\ Cardinality(S) \in Nat
    BY <1>22, Finite
  <2>2. Cardinality(S \ {x}) = Cardinality(S) - 1 /\ IsFiniteSet(S \ {x})
    BY Zenon, <1>22, <2>1, OneMore
  <2>3. Cardinality(S \ {x}) \in Nat
    BY <2>2, FS_CardinalityType
  <2>4. Cardinality((S \ {x}) \cup {y}) = Cardinality(S \ {x}) + 1
    BY <1>22, <2>2, <2>3, OneMore
  <2> QED
    BY <2>1, <2>2, <2>4
<1>23. Cardinality(Untried') = Cardinality(Untried) /\ Cardinality(Tried') = Cardinality(Tried)
  BY <1>21, <1>22, Facts
<1>24. CallSound' /\ ~call.new /\ call'.new = call.new
  BY <1>1, IdleCall
<1>25. /\ totalFresh' = Cardinality(Untried') + (IF call'.new THEN 1 ELSE 0)
       /\ totalUsed' = Cardinality(Tried')
  BY <1>1, <1>23, <1>24, Facts
<1> QED
  BY <1>1, <1>9, <1>20, <1>24, <1>25, Facts, FileKeeps, Collect

LEMMA RemoveKeeps ==
  ASSUME AddrInv, NEW a \in Addr, Remove(a)
  PROVE  AddrInv'
<1>1. /\ Idle /\ a \in known /\ Forget(a) /\ marked' = [marked EXCEPT ![a] = FALSE]
      /\ UNCHANGED <<call, file>>
  BY DEF Remove
<1>2. /\ fresh \in [Fresh -> SUBSET Addr] /\ used \in [Used -> SUBSET Addr]
      /\ known \subseteq Addr /\ marked \in [Addr -> BOOLEAN] /\ refs \in [Addr -> Int]
      /\ UsedBucket[a] \in Used
  BY Facts, AddrManAssumption
<1>3. known' = known \ {a} /\ \A x \in Addr \ {a} : home'[x] = home[x]
  BY Facts DEF Forget, Remove
<1>4. /\ marked' \in [Addr -> BOOLEAN] /\ ~marked'[a]
      /\ \A x \in Addr \ {a} : marked'[x] = marked[x]
  BY <1>1, <1>2
<1>5. Vector(known', pos', rnd') /\ Entries(known', home', marked')
  BY Zenon, <1>1, <1>2, <1>4, Facts, ForgetVector, ForgetEntries
<1>6. CallSound' /\ ~call.new /\ call'.new = call.new
  BY <1>1, IdleCall
<1>7. FileSound'
  BY <1>1, Facts, FileKeeps
<1>8. \A x \in Addr : x \in known' <=> x \in known /\ x # a
  BY <1>3
<1>9. CASE marked[a]
  <2>1. /\ used' = [b \in Used |-> used[b] \ {a}] /\ totalUsed' = totalUsed - 1
        /\ aborted' = (aborted \/ refs[a] # 0 \/ \A b \in Used : a \notin used[b])
        /\ UNCHANGED <<fresh, refs, totalFresh>>
    BY <1>9 DEF Remove
  <2>2. Holders(a) = {} /\ refs[a] = 0
    BY <1>1, <1>9, RefsOf
  <2>3. a \in used[UsedBucket[a]]
    BY <1>1, <1>2, <1>9, Facts DEF Placed
  <2>4. ~aborted'
    BY Zenon, <1>2, <2>1, <2>2, <2>3, Facts
  <2>5. \A c \in Fresh : a \notin fresh[c]
    BY <2>2 DEF Holders
  <2>6. Placed(known', marked', fresh', used')
    <3>1. ASSUME NEW x \in Addr
          PROVE  (\E c \in Fresh : x \in fresh'[c]) <=> (x \in known' /\ ~marked'[x])
      <4>1. (\E c \in Fresh : x \in fresh[c]) <=> (x \in known /\ ~marked[x])
        BY Facts DEF Placed
      <4> QED
        BY <1>4, <1>8, <2>1, <2>5, <4>1
    <3>2. ASSUME NEW x \in Addr, NEW c \in Used
          PROVE  x \in used'[c] <=> (x \in known' /\ marked'[x] /\ c = UsedBucket[x])
      <4>1. x \in used[c] <=> (x \in known /\ marked[x] /\ c = UsedBucket[x])
        BY Facts DEF Placed
      <4>2. x \in used'[c] <=> x \in used[c] /\ x # a
        BY <2>1
      <4> QED
        BY <1>4, <1>8, <4>1, <4>2
    <3>3. used' \in [Used -> SUBSET Addr] /\ fresh' \in [Fresh -> SUBSET Addr]
      BY <1>2, <2>1
    <3> QED
      BY <3>1, <3>2, <3>3 DEF Placed
  <2>7. Counted(refs', fresh')
    BY <2>1, Facts
  <2>8. Near(home', fresh')
    BY <1>3, <2>1, <2>5, Facts DEF Near
  <2>9. Fits(fresh', used')
    <3>1. ASSUME NEW c \in Used PROVE Cardinality(used'[c]) <= UsedSize
      <4>1. IsFiniteSet(used[c]) /\ Cardinality(used[c]) \in Nat
        BY <1>2, Finite
      <4>2. used'[c] \subseteq used[c] /\ used'[c] \subseteq Addr
        BY <1>2, <2>1
      <4>3. Cardinality(used'[c]) <= Cardinality(used[c]) /\ Cardinality(used'[c]) \in Nat
        BY Zenon, <4>1, <4>2, FS_Subset, Finite
      <4>4. Cardinality(used[c]) <= UsedSize /\ UsedSize \in Nat
        BY Facts, AddrManAssumption DEF Fits
      <4> QED
        BY <4>1, <4>3, <4>4
    <3> QED
      BY <2>1, <3>1, Facts DEF Fits
  <2>10. Sound(Current)'
    BY <1>5, <2>6, <2>7, <2>8, <2>9 DEF Sound, Current
  <2>11. Untried' = Untried /\ Tried' = Tried \ {a} /\ a \in Tried
    BY <1>1, <1>2, <1>3, <1>4, <1>9 DEF Untried, Tried
  <2>12. Cardinality(Tried') = Cardinality(Tried) - 1
    BY Zenon, <2>11, Facts, Finite, OneMore
  <2>13. /\ totalFresh' = Cardinality(Untried') + (IF call'.new THEN 1 ELSE 0)
         /\ totalUsed' = Cardinality(Tried')
    BY <1>6, <2>1, <2>11, <2>12, Facts
  <2> QED
    BY <1>6, <1>7, <2>4, <2>10, <2>13, Collect
<1>10. CASE ~marked[a]
  <2>1. /\ fresh' = [b \in Fresh |-> fresh[b] \ {a}] /\ refs' = [refs EXCEPT ![a] = 0]
        /\ totalFresh' = totalFresh - 1
        /\ aborted' = (aborted \/ refs[a] # Cardinality(Holders(a)))
        /\ UNCHANGED <<used, totalUsed>>
    BY <1>10 DEF Remove
  <2>2. refs[a] = Cardinality(Holders(a))
    BY <1>1, RefsOf
  <2>3. ~aborted'
    BY Zenon, <2>1, <2>2, Facts
  <2>4. Counted(refs', fresh') /\ Fits(fresh', used') /\ fresh' \in [Fresh -> SUBSET Addr]
    BY Zenon, <2>1, ClearKeeps
  <2>5. Placed(known', marked', fresh', used')
    <3>1. ASSUME NEW x \in Addr
          PROVE  (\E c \in Fresh : x \in fresh'[c]) <=> (x \in known' /\ ~marked'[x])
      <4>1. (\E c \in Fresh : x \in fresh[c]) <=> (x \in known /\ ~marked[x])
        BY Facts DEF Placed
      <4> QED
        BY Zenon, <1>4, <1>8, <2>1, <4>1
    <3>2. ASSUME NEW x \in Addr, NEW c \in Used
          PROVE  x \in used'[c] <=> (x \in known' /\ marked'[x] /\ c = UsedBucket[x])
      <4>1. x \in used[c] <=> (x \in known /\ marked[x] /\ c = UsedBucket[x])
        BY Facts DEF Placed
      <4> QED
        BY <1>4, <1>8, <1>10, <2>1, <4>1
    <3> QED
      BY Zenon, <1>2, <2>1, <2>4, <3>1, <3>2 DEF Placed
  <2>6. Near(home', fresh')
    <3>1. ASSUME NEW x \in Addr
          PROVE  \E y \in Fresh : \A c \in Fresh : x \in fresh'[c] => c \in {home'[x], y}
      <4>1. PICK y \in Fresh : \A c \in Fresh : x \in fresh[c] => c \in {home[x], y}
        BY Facts DEF Near
      <4>2. \A c \in Fresh : x \in fresh'[c] => x # a /\ x \in fresh[c]
        BY <2>1
      <4> QED
        BY <1>3, <4>1, <4>2
    <3> QED
      BY <3>1 DEF Near
  <2>7. Sound(Current)'
    BY <1>5, <2>4, <2>5, <2>6 DEF Sound, Current
  <2>8. Tried' = Tried /\ Untried' = Untried \ {a} /\ a \in Untried
    BY Zenon, <1>1, <1>2, <1>3, <1>4, <1>10 DEF Untried, Tried
  <2>9. Cardinality(Untried') = Cardinality(Untried) - 1
    BY Zenon, <2>8, Facts, Finite, OneMore
  <2>10. /\ totalFresh' = Cardinality(Untried') + (IF call'.new THEN 1 ELSE 0)
         /\ totalUsed' = Cardinality(Tried')
    BY <1>6, <2>1, <2>8, <2>9, Facts
  <2> QED
    BY <1>6, <1>7, <2>3, <2>7, <2>10, Collect
<1> QED
  BY <1>9, <1>10

-----------------------------------------------------------------------------
(* btc_addrman_getaddr, and the file.                                      *)

\* A shuffle takes every value.
LEMMA ShuffleOnto ==
  ASSUME NEW n \in Nat, NEW p \in Shuffles(n)
  PROVE  \A k \in 1 .. n : \E i \in 1 .. n : p[i] = k
<1>1. p \in Injection(1 .. n, 1 .. n)
  BY DEF Shuffles, Injection, IsInjective
<1>2. IsFiniteSet(1 .. n)
  BY FS_Interval
<1>3. p \in Surjection(1 .. n, 1 .. n)
  BY <1>1, <1>2, FS_Injection
<1> QED
  BY <1>3 DEF Surjection

LEMMA GetAddrKeeps ==
  ASSUME AddrInv, GetAddr
  PROVE  AddrInv'
<1> DEFINE n == Len(rnd)
<1>1. PICK p \in Shuffles(n) :
        /\ rnd' = [i \in 1 .. n |-> rnd[p[i]]]
        /\ pos' = [a \in Addr |-> IF a \in known THEN CHOOSE i \in 1 .. n : p[i] = pos[a]
                                  ELSE pos[a]]
  BY Zenon DEF GetAddr
<1>2. /\ Idle
      /\ UNCHANGED <<known, home, marked, refs, fresh, used, totalFresh, totalUsed, dirty,
                     call, file, aborted>>
  BY DEF GetAddr
<1>3. /\ known \subseteq Addr /\ pos \in [Addr -> Nat] /\ rnd \in Seq(Addr)
      /\ n \in Nat
      /\ \A x \in known : pos[x] \in 1 .. n /\ rnd[pos[x]] = x
      /\ \A i \in 1 .. n : rnd[i] \in known /\ pos[rnd[i]] = i
      /\ \A x \in Addr \ known : pos[x] = 0
  BY Zenon, Facts, LenProperties DEF Vector
<1> HIDE DEF n
<1>4. /\ p \in [1 .. n -> 1 .. n] /\ \A i, j \in 1 .. n : p[i] = p[j] => i = j
      /\ \A k \in 1 .. n : \E i \in 1 .. n : p[i] = k
  <2>1. \A k \in 1 .. n : \E i \in 1 .. n : p[i] = k
    BY Zenon, <1>3, ShuffleOnto
  <2> QED
    BY <2>1 DEF Shuffles
<1>5. \A x \in known : pos'[x] \in 1 .. n /\ p[pos'[x]] = pos[x]
  BY Zenon, <1>1, <1>3, <1>4
<1>6. \A x \in Addr \ known : pos'[x] = 0
  BY <1>1, <1>3
<1>7. pos' \in [Addr -> Nat]
  <2>1. \A x \in Addr : pos'[x] \in Nat
    BY <1>3, <1>5, <1>6
  <2> QED
    BY <1>1, <2>1
<1>8. rnd' \in Seq(Addr) /\ Len(rnd') = n
  <2>1. rnd' \in [1 .. n -> Addr]
    BY <1>1, <1>3, <1>4
  <2> QED
    BY <1>3, <2>1, FunctionIsSeq
<1>9. \A x \in known : rnd'[pos'[x]] = x
  BY Zenon, <1>1, <1>3, <1>5
<1>10. ASSUME NEW i \in 1 .. n PROVE rnd'[i] \in known /\ pos'[rnd'[i]] = i
  <2>1. rnd'[i] = rnd[p[i]] /\ p[i] \in 1 .. n
    BY <1>1, <1>4
  <2>2. rnd'[i] \in known /\ pos[rnd'[i]] = p[i]
    BY <1>3, <2>1
  <2> QED
    BY <1>4, <1>5, <2>2
<1>11. Vector(known', pos', rnd')
  BY <1>2, <1>3, <1>5, <1>6, <1>7, <1>8, <1>9, <1>10 DEF Vector
<1>12. Sound(Current)'
  BY <1>2, <1>11, Facts DEF Sound, Current
<1>13. Untried' = Untried /\ Tried' = Tried
  BY <1>2 DEF Untried, Tried
<1>14. CallSound' /\ ~call.new /\ call'.new = call.new /\ FileSound'
  BY <1>2, IdleCall, FileKeeps, Facts
<1> QED
  BY <1>2, <1>12, <1>13, <1>14, Facts, Collect

\* Entries and their positions are as many.
LEMMA PosCard ==
  ASSUME Vector(known, pos, rnd), NEW S, S \subseteq known
  PROVE  Cardinality({pos[a] : a \in S}) = Cardinality(S)
<1> DEFINE T == {pos[a] : a \in S}
           f == [a \in S |-> pos[a]]
<1>1. \A x, y \in known : pos[x] = pos[y] => x = y
  BY DEF Vector
<1>2. f \in [S -> T] /\ \A x, y \in S : f[x] = f[y] => x = y
  BY <1>1
<1>3. \A t \in T : \E x \in S : f[x] = t
  OBVIOUS
<1>4. f \in Bijection(S, T)
  BY <1>2, <1>3 DEF Bijection, Injection, Surjection, IsInjective
<1>5. ExistsBijection(S, T)
  BY <1>4 DEF ExistsBijection
<1>6. IsFiniteSet(S)
  BY Finite DEF Vector
<1> QED
  BY Zenon, <1>5, <1>6, FS_Bijection

\* btc_addrman_read accepts what btc_addrman_write has written, and builds
\* the same tables.
LEMMA RoundTrip ==
  ASSUME AddrInv, Idle
  PROVE  Readable(Snapshot) /\ Loaded(Snapshot) = Current
<1> DEFINE s == Snapshot
           n == Len(rnd)
<1>1. /\ known \subseteq Addr /\ pos \in [Addr -> Nat] /\ rnd \in Seq(Addr)
      /\ n \in Nat /\ DOMAIN rnd = 1 .. n /\ rnd \in [1 .. n -> Addr]
      /\ \A x \in known : pos[x] \in 1 .. n /\ rnd[pos[x]] = x
      /\ \A i \in 1 .. n : rnd[i] \in known /\ pos[rnd[i]] = i
      /\ \A x \in Addr \ known : pos[x] = 0
  BY Facts, LenProperties DEF Vector
<1>2. /\ s.state = "whole" /\ s.rnd = rnd
      /\ s.home = [i \in DOMAIN rnd |-> home[rnd[i]]]
      /\ s.fresh = [b \in Fresh |-> {pos[a] : a \in fresh[b]}]
      /\ s.used = [b \in Used |-> {pos[a] : a \in used[b]}]
  BY Zenon DEF Snapshot
<1> HIDE DEF s, n
<1>3. /\ fresh \in [Fresh -> SUBSET Addr] /\ used \in [Used -> SUBSET Addr]
      /\ \A b \in Fresh : fresh[b] \subseteq Untried
      /\ \A b \in Used : used[b] \subseteq Tried
      /\ \A x \in Untried : \E b \in Fresh : x \in fresh[b]
      /\ \A x \in Tried : x \in used[UsedBucket[x]] /\ UsedBucket[x] \in Used
      /\ \A b \in Used : \A x \in used[b] : b = UsedBucket[x]
  <2>1. /\ fresh \in [Fresh -> SUBSET Addr] /\ used \in [Used -> SUBSET Addr]
        /\ \A x \in Addr : (\E b \in Fresh : x \in fresh[b]) <=> (x \in known /\ ~marked[x])
        /\ \A x \in Addr : \A b \in Used :
              x \in used[b] <=> (x \in known /\ marked[x] /\ b = UsedBucket[x])
    BY Facts DEF Placed
  <2>2. \A x \in Addr : UsedBucket[x] \in Used
    BY AddrManAssumption
  <2> QED
    BY <1>1, <2>1, <2>2 DEF Untried, Tried
<1>4. Untried \subseteq known /\ Tried \subseteq known /\ Untried \cap Tried = {}
      /\ known \subseteq Untried \cup Tried
  BY DEF Untried, Tried
<1>5. InFresh(s) = {pos[x] : x \in Untried}
  <2>1. ASSUME NEW i \in InFresh(s) PROVE i \in {pos[x] : x \in Untried}
    <3>1. PICK b \in Fresh : i \in s.fresh[b]
      BY <2>1 DEF InFresh
    <3>2. PICK x \in fresh[b] : i = pos[x]
      BY <1>2, <3>1
    <3> QED
      BY <1>3, <3>2
  <2>2. ASSUME NEW x \in Untried PROVE pos[x] \in InFresh(s)
    <3>1. PICK b \in Fresh : x \in fresh[b]
      BY <1>3, <2>2
    <3> QED
      BY <1>2, <3>1 DEF InFresh
  <2> QED
    BY <2>1, <2>2
<1>6. InUsed(s) = {pos[x] : x \in Tried}
  BY <1>2, <1>3 DEF InUsed
<1>7. \A x, y \in known : pos[x] = pos[y] => x = y
  BY <1>1
<1>8. Readable(s)
  <2>1. \A i, j \in DOMAIN s.rnd : s.rnd[i] = s.rnd[j] => i = j
    <3>1. DOMAIN s.rnd = 1 .. n /\ s.rnd = rnd /\ \A i \in 1 .. n : pos[rnd[i]] = i
      BY Zenon, <1>1, <1>2
    <3> QED
      BY <3>1, Zenon
  <2>2. ASSUME NEW b \in Fresh
        PROVE  s.fresh[b] \subseteq DOMAIN s.rnd /\ Cardinality(s.fresh[b]) <= FreshSize
    <3>1. s.fresh[b] = {pos[a] : a \in fresh[b]} /\ fresh[b] \subseteq known
      BY <1>2, <1>3, <1>4
    <3>2. Cardinality(s.fresh[b]) = Cardinality(fresh[b])
      BY <3>1, Facts, PosCard
    <3>3. Cardinality(fresh[b]) <= FreshSize
      BY Facts DEF Fits
    <3>4. s.fresh[b] \subseteq DOMAIN s.rnd
      BY <1>1, <1>2, <3>1
    <3> QED
      BY <3>2, <3>3, <3>4, Zenon
  <2>3. ASSUME NEW b \in Used
        PROVE  s.used[b] \subseteq DOMAIN s.rnd /\ Cardinality(s.used[b]) <= UsedSize
    <3>1. s.used[b] = {pos[a] : a \in used[b]} /\ used[b] \subseteq known
      BY <1>2, <1>3, <1>4
    <3>2. Cardinality(s.used[b]) = Cardinality(used[b])
      BY <3>1, Facts, PosCard
    <3>3. Cardinality(used[b]) <= UsedSize
      BY Facts DEF Fits
    <3>4. s.used[b] \subseteq DOMAIN s.rnd
      BY <1>1, <1>2, <3>1
    <3> QED
      BY <3>2, <3>3, <3>4, Zenon
  <2>4. InFresh(s) \cap InUsed(s) = {}
    BY <1>4, <1>5, <1>6, <1>7
  <2>5. \A b, c \in Used : b # c => s.used[b] \cap s.used[c] = {}
    <3>1. ASSUME NEW b \in Used, NEW c \in Used, NEW i, i \in s.used[b], i \in s.used[c]
          PROVE  b = c
      <4>1. PICK x \in used[b] : i = pos[x]
        BY <1>2, <3>1
      <4>2. PICK y \in used[c] : i = pos[y]
        BY <1>2, <3>1
      <4>3. x = y
        BY Zenon, <1>3, <1>4, <1>7, <4>1, <4>2
      <4> QED
        BY <1>3, <4>1, <4>2, <4>3
    <3> QED
      BY <3>1
  <2>6. DOMAIN s.rnd \subseteq InFresh(s) \cup InUsed(s)
    <3>1. ASSUME NEW i \in 1 .. n PROVE i \in InFresh(s) \cup InUsed(s)
      <4>1. rnd[i] \in known /\ pos[rnd[i]] = i
        BY <1>1
      <4> QED
        BY <1>4, <1>5, <1>6, <4>1
    <3> QED
      BY <1>1, <1>2, <3>1
  <2> QED
    BY Zenon, <1>2, <2>1, <2>2, <2>3, <2>4, <2>5, <2>6 DEF Readable
<1>9. ASSUME NEW x \in Addr PROVE Place(s, x) = pos[x]
  <2>1. CASE x \in known
    <3>1. pos[x] \in DOMAIN s.rnd /\ s.rnd[pos[x]] = x
      BY <1>1, <1>2, <2>1
    <3>2. \A i \in DOMAIN s.rnd : s.rnd[i] = x => i = pos[x]
      BY <1>1, <1>2
    <3> QED
      BY <3>1, <3>2 DEF Place
  <2>2. CASE x \notin known
    <3>1. ~ \E i \in DOMAIN s.rnd : s.rnd[i] = x
      BY <1>1, <1>2, <2>2
    <3> QED
      BY <1>1, <2>2, <3>1 DEF Place
  <2> QED
    BY <2>1, <2>2
<1>10. ASSUME NEW x \in Addr, NEW S, S \subseteq known
       PROVE  pos[x] \in {pos[y] : y \in S} <=> x \in S
  <2>1. CASE x \in known
    BY <1>7, <1>10, <2>1
  <2>2. CASE x \notin known
    BY <1>1, <1>10, <2>2
  <2> QED
    BY <2>1, <2>2
<1>11. known = {s.rnd[i] : i \in DOMAIN s.rnd}
  BY <1>1, <1>2
<1>12. home = [x \in Addr |-> IF Place(s, x) = 0 THEN Nowhere ELSE s.home[Place(s, x)]]
  <2>1. ASSUME NEW x \in Addr
        PROVE  home[x] = IF Place(s, x) = 0 THEN Nowhere ELSE s.home[Place(s, x)]
    <3>1. CASE x \in known
      <4>1. pos[x] \in DOMAIN rnd /\ pos[x] # 0 /\ rnd[pos[x]] = x
        BY <1>1, <3>1
      <4> QED
        BY <1>2, <1>9, <4>1
    <3>2. CASE x \notin known
      BY Zenon, <1>1, <1>9, <3>2, Facts DEF Entries
    <3> QED
      BY <3>1, <3>2
  <2> QED
    BY <2>1, Facts
<1>13. marked = [x \in Addr |-> Place(s, x) \in InUsed(s)]
  <2>1. ASSUME NEW x \in Addr PROVE marked[x] <=> Place(s, x) \in InUsed(s)
    <3>1. Place(s, x) \in InUsed(s) <=> x \in Tried
      BY <1>4, <1>6, <1>9, <1>10
    <3>2. x \notin known => ~marked[x]
      BY Facts DEF Entries
    <3> QED
      BY <3>1, <3>2 DEF Tried
  <2>2. marked \in [Addr -> BOOLEAN]
    BY Facts
  <2> QED
    BY <2>1, <2>2
<1>14. refs = [x \in Addr |-> Refs(s, Place(s, x))]
  <2>1. ASSUME NEW x \in Addr PROVE refs[x] = Refs(s, Place(s, x))
    <3>1. ASSUME NEW b \in Fresh PROVE pos[x] \in s.fresh[b] <=> x \in fresh[b]
      <4>1. s.fresh[b] = {pos[a] : a \in fresh[b]} /\ fresh[b] \subseteq known
        BY <1>2, <1>3, <1>4
      <4> QED
        BY <1>10, <4>1, Zenon
    <3>2. {b \in Fresh : pos[x] \in s.fresh[b]} = {b \in Fresh : x \in fresh[b]}
      BY <3>1
    <3>3. refs[x] = Cardinality({b \in Fresh : x \in fresh[b]})
      BY Facts DEF Counted
    <3> QED
      BY <1>9, <3>2, <3>3 DEF Refs
  <2>2. refs \in [Addr -> Int]
    BY Facts
  <2> QED
    BY <2>1, <2>2
<1>15. pos = [x \in Addr |-> Place(s, x)]
  BY <1>1, <1>9
<1>16. fresh = [b \in Fresh |-> {s.rnd[i] : i \in s.fresh[b]}]
  <2>1. ASSUME NEW b \in Fresh PROVE fresh[b] = {s.rnd[i] : i \in s.fresh[b]}
    <3>1. s.fresh[b] = {pos[a] : a \in fresh[b]} /\ fresh[b] \subseteq known
      BY <1>2, <1>3, <1>4
    <3> QED
      BY <1>1, <1>2, <3>1
  <2> QED
    BY <1>3, <2>1
<1>17. used = [b \in Used |-> {s.rnd[i] : i \in s.used[b]}]
  <2>1. ASSUME NEW b \in Used PROVE used[b] = {s.rnd[i] : i \in s.used[b]}
    <3>1. s.used[b] = {pos[a] : a \in used[b]} /\ used[b] \subseteq known
      BY <1>2, <1>3, <1>4
    <3> QED
      BY <1>1, <1>2, <3>1
  <2> QED
    BY <1>3, <2>1
<1>18. totalFresh = Cardinality(InFresh(s)) /\ totalUsed = Cardinality(InUsed(s))
  <2>1. ~call.new
    <3>1. call = NoCall
      BY DEF AddrInv, CallSound
    <3> QED
      BY <3>1 DEF NoCall
  <2>2. /\ Cardinality(InFresh(s)) = Cardinality(Untried)
        /\ Cardinality(InUsed(s)) = Cardinality(Tried)
    BY Zenon, <1>4, <1>5, <1>6, Facts, PosCard
  <2> QED
    BY <2>1, <2>2, Facts
<1>19. Loaded(s) = Current
  BY Zenon, <1>2, <1>11, <1>12, <1>13, <1>14, <1>15, <1>16, <1>17, <1>18 DEF Loaded, Current
<1> QED
  BY <1>8, <1>19 DEF s

LEMMA FlushKeeps ==
  ASSUME AddrInv, Flush
  PROVE  AddrInv'
<1>1. Idle /\ UNCHANGED <<tables, call, aborted>> /\ (file' = Snapshot \/ file' = Torn)
  BY Zenon DEF Flush
<1>2. CallSound' /\ ~call.new /\ call'.new = call.new
  BY <1>1, IdleCall
<1>3. FileSound'
  <2>1. CASE file' = Snapshot
    <3>1. Loaded(file') = Current
      BY <1>1, <2>1, RoundTrip
    <3>2. /\ Current.known = known /\ Current.marked = marked
          /\ Current.totalFresh = totalFresh /\ Current.totalUsed = totalUsed
      BY DEF Current
    <3>3. Totals(known, marked, totalFresh, totalUsed, 0) /\ Sound(Current)
      BY <1>2 DEF AddrInv
    <3> QED
      BY <3>1, <3>2, <3>3 DEF FileSound
  <2>2. CASE file' = Torn
    BY <2>2 DEF FileSound, Readable, Torn
  <2> QED
    BY <1>1, <2>1, <2>2
<1>4. Untried' = Untried /\ Tried' = Tried /\ UNCHANGED <<totalFresh, totalUsed>>
  BY <1>1 DEF Untried, Tried, tables
<1>5. Sound(Current)'
  BY <1>1, TablesKeep DEF AddrInv
<1> QED
  BY <1>1, <1>2, <1>3, <1>4, <1>5, Facts, Collect

\* A new manager is in order.
LEMMA EmptySound ==
  /\ Sound(Empty)
  /\ Totals(Empty.known, Empty.marked, Empty.totalFresh, Empty.totalUsed, 0)
<1>1. Cardinality({}) = 0 /\ 1 \in Fresh
  BY FS_EmptySet, AddrManAssumption DEF Fresh
<1>2. Vector(Empty.known, Empty.pos, Empty.rnd)
  <2>1. << >> \in Seq(Addr) /\ Len(<< >>) = 0
    OBVIOUS
  <2>2. /\ Empty.known = {} /\ Empty.rnd = << >> /\ Empty.pos = [a \in Addr |-> 0]
    BY DEF Empty
  <2> QED
    BY <2>1, <2>2 DEF Vector
<1>3. Entries(Empty.known, Empty.home, Empty.marked)
  BY DEF Entries, Empty, Nowhere
<1>4. Placed(Empty.known, Empty.marked, Empty.fresh, Empty.used)
  BY DEF Placed, Empty
<1>5. Counted(Empty.refs, Empty.fresh)
  <2>1. ASSUME NEW a \in Addr PROVE {b \in Fresh : a \in Empty.fresh[b]} = {}
    BY DEF Empty
  <2> QED
    BY <1>1, <2>1 DEF Counted, Empty
<1>6. Near(Empty.home, Empty.fresh)
  BY <1>1 DEF Near, Empty
<1>7. Fits(Empty.fresh, Empty.used)
  BY <1>1, AddrManAssumption DEF Fits, Empty
<1>8. Totals(Empty.known, Empty.marked, Empty.totalFresh, Empty.totalUsed, 0)
  <2>1. Empty.known = {} /\ Empty.totalFresh = 0 /\ Empty.totalUsed = 0
    BY DEF Empty
  <2>2. /\ {a \in Empty.known : ~Empty.marked[a]} = {}
        /\ {a \in Empty.known : Empty.marked[a]} = {}
    BY <2>1
  <2> QED
    BY <1>1, <2>1, <2>2 DEF Totals
<1> QED
  BY <1>2, <1>3, <1>4, <1>5, <1>6, <1>7, <1>8 DEF Sound

\* No call is in progress in a process that has just started.
LEMMA NoCallSound ==
  ASSUME call = NoCall
  PROVE  CallSound /\ ~call.new
  BY DEF CallSound, Idle, NoCall, Nowhere

LEMMA RestartKeeps ==
  ASSUME AddrInv, Restart
  PROVE  AddrInv'
<1> DEFINE t == IF Readable(file) THEN Loaded(file) ELSE Empty
<1>1. Become(t) /\ call' = NoCall /\ UNCHANGED <<file, aborted>>
  BY DEF Restart
<1>2. Sound(t) /\ Totals(t.known, t.marked, t.totalFresh, t.totalUsed, 0)
  BY EmptySound DEF AddrInv, FileSound
<1> HIDE DEF t
<1>3. Sound(Current)'
  BY <1>1, <1>2 DEF Sound, Current, Become
<1>4. CallSound' /\ ~call'.new
  BY Zenon, <1>1, NoCallSound DEF CallSound, Idle, NoCall, Nowhere
<1>5. Totals(known', marked', totalFresh', totalUsed', 0)
  BY <1>1, <1>2 DEF Become
<1>6. FileSound' /\ ~aborted'
  BY <1>1, FileKeeps, Facts
<1> QED
  BY <1>3, <1>4, <1>5, <1>6 DEF AddrInv

LEMMA InitAddrInv == Init => AddrInv
<1> SUFFICES ASSUME Init PROVE AddrInv
  OBVIOUS
<1>1. /\ known = Empty.known /\ home = Empty.home /\ marked = Empty.marked
      /\ refs = Empty.refs /\ pos = Empty.pos /\ rnd = Empty.rnd
      /\ fresh = Empty.fresh /\ used = Empty.used
      /\ totalFresh = Empty.totalFresh /\ totalUsed = Empty.totalUsed
      /\ call = NoCall /\ file = NoFile /\ aborted = FALSE
  BY DEF Init
<1>2. Sound(Current)
  BY Zenon, <1>1, EmptySound DEF Sound, Current
<1>3. CallSound /\ ~call.new
  BY <1>1, NoCallSound
<1>4. Totals(known, marked, totalFresh, totalUsed, 0)
  BY <1>1, EmptySound
<1>5. FileSound
  BY <1>1 DEF FileSound, Readable, NoFile
<1> QED
  BY <1>1, <1>2, <1>3, <1>4, <1>5 DEF AddrInv

-----------------------------------------------------------------------------
(* The theorems.                                                           *)

LEMMA AddrInvHolds == Spec => []AddrInv
<1>1. AddrInv /\ [Next]_vars => AddrInv'
  <2> SUFFICES ASSUME AddrInv, [Next]_vars PROVE AddrInv'
    OBVIOUS
  <2>1. CASE \E a \in Addr : (\E b \in Fresh : AddNew(a, b)) \/ AddRefresh(a) \/ AddKnown(a)
    BY <2>1, AddKeeps
  <2>2. CASE (\E a \in Addr : EvictStale(a) \/ EvictPass(a)) \/ EvictOld
    BY <2>2, EvictKeeps
  <2>3. CASE \E a \in Addr : MarkAck(a)
    BY <2>3, MarkAckKeeps
  <2>4. CASE \E a \in Addr : \E e \in Addr : MarkAckEvict(a, e)
    BY <2>4, MarkAckEvictKeeps
  <2>5. CASE \E a \in Addr : Remove(a)
    BY <2>5, RemoveKeeps
  <2>6. CASE Insert
    BY <2>6, InsertKeeps
  <2>7. CASE GetAddr
    BY <2>7, GetAddrKeeps
  <2>8. CASE Flush
    BY <2>8, FlushKeeps
  <2>9. CASE Restart
    BY <2>9, RestartKeeps
  <2>10. CASE UNCHANGED vars
    <3>1. UNCHANGED <<tables, call, file, aborted>>
      BY <2>10 DEF vars
    <3> QED
      BY Zenon, <3>1, TablesKeep, FileKeeps DEF AddrInv, CallSound, Idle, tables
  <2> QED
    BY <2>1, <2>2, <2>3, <2>4, <2>5, <2>6, <2>7, <2>8, <2>9, <2>10 DEF Next
<1> QED
  BY <1>1, InitAddrInv, PTL DEF Spec

\* For every set of addresses and every number and size of buckets: the map,
\* the buckets, the reference counts and the totals agree, and no CHECK of
\* addrman.c fails, also after an eviction, a swap in btc_addrman_mark_ack, a
\* crash or a restart.
THEOREM TablesAlwaysAgree == Spec => []TablesAgree
<1>1. AddrInv => TablesAgree
  <2> SUFFICES ASSUME AddrInv PROVE TablesAgree
    OBVIOUS
  <2>1. ASSUME NEW a \in Addr
        PROVE  /\ refs[a] = Cardinality(Holders(a))
               /\ a \in Untried => refs[a] > 0
               /\ a \notin Untried => refs[a] = 0
               /\ {b \in Used : a \in used[b]} = IF a \in Tried THEN {UsedBucket[a]} ELSE {}
    <3>1. refs[a] = Cardinality(Holders(a)) /\ (Holders(a) # {} <=> a \in Untried)
      BY Zenon, Facts DEF Counted, Placed, Holders, Untried
    <3>2. IsFiniteSet(Holders(a)) /\ Cardinality(Holders(a)) \in Nat
      BY Finite DEF Holders
    <3>3. Cardinality(Holders(a)) = 0 <=> Holders(a) = {}
      BY <3>2, FS_EmptySet
    <3>4. \A b \in Used : a \in used[b] <=> (a \in Tried /\ b = UsedBucket[a])
      BY Zenon, Facts DEF Placed, Tried
    <3>5. UsedBucket[a] \in Used
      BY AddrManAssumption
    <3>6. {b \in Used : a \in used[b]} = IF a \in Tried THEN {UsedBucket[a]} ELSE {}
      BY <3>4, <3>5
    <3> QED
      BY <3>1, <3>2, <3>3, <3>6
  <2>2. Fits(fresh, used) /\ ~aborted
    BY Facts
  <2>3. totalFresh = Cardinality(Untried) + (IF call.new THEN 1 ELSE 0)
    BY Facts
  <2>4. totalUsed = Cardinality(Tried)
    BY Facts
  <2> QED
    BY <2>1, <2>2, <2>3, <2>4 DEF TablesAgree, Fits
<1> QED
  BY <1>1, AddrInvHolds, PTL

\* In every state: what btc_addrman_write would write, btc_addrman_read
\* accepts, and it builds the same tables from it.
THEOREM AlwaysReadsBack == Spec => []ReadsBack
<1>1. AddrInv => ReadsBack
  BY RoundTrip DEF ReadsBack
<1> QED
  BY <1>1, AddrInvHolds, PTL

\* However many fresh buckets there are and however many sources tell of an
\* address, it is in at most two of them.
THEOREM AlwaysFewRefs == Spec => []FewRefs
<1>1. AddrInv => FewRefs
  <2> SUFFICES ASSUME AddrInv, NEW a \in Addr
               PROVE  refs[a] <= 2 /\ Cardinality(Holders(a) \ {home[a]}) <= 1
    BY DEF FewRefs
  <2>1. PICK x \in Fresh : \A b \in Fresh : a \in fresh[b] => b \in {home[a], x}
    BY Facts DEF Near
  <2>2. IsFiniteSet({x}) /\ Cardinality({x}) = 1
    BY Zenon, FS_Singleton
  <2>3. Holders(a) \ {home[a]} \subseteq {x} /\ Holders(a) \subseteq {x} \cup {home[a]}
    BY <2>1 DEF Holders
  <2>4. /\ IsFiniteSet({x} \cup {home[a]})
        /\ Cardinality({x} \cup {home[a]}) \in {1, 2}
    BY <2>2, FS_AddElement
  <2>5. Cardinality(Holders(a) \ {home[a]}) <= 1
    BY <2>2, <2>3, FS_Subset
  <2>6. Cardinality(Holders(a)) <= Cardinality({x} \cup {home[a]})
    BY <2>3, <2>4, FS_Subset
  <2>7. refs[a] = Cardinality(Holders(a)) /\ refs[a] \in Int
    BY Facts DEF Counted, Holders
  <2> QED
    BY <2>4, <2>5, <2>6, <2>7
<1> QED
  BY <1>1, AddrInvHolds, PTL
=============================================================================
