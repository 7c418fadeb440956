-------------------------- MODULE BlockFiles_proofs -------------------------
(***************************************************************************)
(* Proofs about the flat files: what a committed position leads to, which  *)
(* files pruning takes, and that a crash does no harm to older records,    *)
(* for every tree of blocks, size of records and limit on files.           *)
(***************************************************************************)
EXTENDS BlockFiles, SequenceTheorems, TLAPS

LEMMA SizeType == \A k \in Kind, e \in Entry : Size[k][e] \in 0 .. MaxFileSize /\ Size[k][e] \in Nat
  BY FilesAssumption

LEMMA RecordType ==
  ASSUME NEW k \in Kind, NEW e \in Entry
  PROVE  /\ Record(k, e) \in Seq(Unit)
         /\ Len(Record(k, e)) = Size[k][e]
         /\ \A i \in 1 .. Size[k][e] : Record(k, e)[i] = [of |-> e, at |-> i]
<1> DEFINE n == Size[k][e]
           u(i) == [of |-> e, at |-> i]
<1>1. n \in Nat
  BY SizeType
<1>2. \A i \in 1 .. n : u(i) \in Unit
  BY <1>1 DEF Unit
<1>3. Record(k, e) = [i \in 1 .. n |-> u(i)]
  BY Zenon DEF Record
<1> HIDE DEF n, u
<1>4. Record(k, e) \in Seq(Unit) /\ Len(Record(k, e)) = n
  BY <1>1, <1>2, <1>3
<1>5. \A i \in 1 .. n : Record(k, e)[i] = u(i)
  BY <1>3
<1> QED
  BY <1>4, <1>5 DEF n, u

\* btc_chaindb_read finds a record that is whole, and no other.
LEMMA ReadsHeld ==
  ASSUME NEW k \in Kind, NEW e \in Entry, TypeOK, Present(k, e)
  PROVE  Read(k, e) = {e} <=> Holds(data[k][mem.at[e][k].id], mem.at[e][k].pos, k, e)
<1> DEFINE w == mem.at[e][k]
           f == data[k][w.id]
<1>1. w.id \in Nat /\ w.pos \in Nat /\ f \in Seq(Unit)
  BY DEF TypeOK, Present, Db, Place
<1>2. ASSUME NEW r \in Entry, Size[k][r] > 0, w.pos + Size[k][r] <= Len(f)
      PROVE  SubSeq(f, w.pos + 1, w.pos + Size[k][r]) = Record(k, r)
                <=> \A i \in 1 .. Size[k][r] : f[w.pos + i] = [of |-> r, at |-> i]
  <2> DEFINE p == w.pos
             n == Size[k][r]
             s == SubSeq(f, p + 1, p + n)
  <2>1. n \in Nat /\ p \in Nat /\ p + n <= Len(f) /\ n > 0 /\ f \in Seq(Unit)
    BY <1>1, <1>2, SizeType
  <2> HIDE DEF p, n, w, f
  <2>2. s \in Seq(Unit) /\ Len(s) = n
    BY <2>1, SubSeqProperties
  <2>3. \A i \in 1 .. n : s[i] = f[p + i]
    BY <2>1, SubSeqProperties
  <2>4. /\ Record(k, r) \in Seq(Unit) /\ Len(Record(k, r)) = n
        /\ \A i \in 1 .. n : Record(k, r)[i] = [of |-> r, at |-> i]
    BY RecordType DEF n
  <2> HIDE DEF s
  <2>5. s = Record(k, r) <=> \A i \in 1 .. n : s[i] = Record(k, r)[i]
    BY <2>2, <2>4, SeqEqual
  <2>6. s = Record(k, r) <=> \A i \in 1 .. n : f[p + i] = [of |-> r, at |-> i]
    BY <2>3, <2>4, <2>5
  <2> QED
    BY Zenon, <2>6 DEF s, p, n
<1>3. ASSUME NEW r \in Entry
      PROVE  r \in Read(k, e) <=> Holds(f, w.pos, k, r)
  BY Zenon, <1>2 DEF Read, Holds
<1>4. ASSUME NEW r \in Entry, Holds(f, w.pos, k, r)
      PROVE  f[w.pos + 1].of = r
  <2>1. Size[k][r] \in Nat /\ Size[k][r] > 0
    BY Zenon, <1>4, SizeType DEF Holds
  <2>2. 1 \in 1 .. Size[k][r]
    BY <2>1
  <2>3. f[w.pos + 1] = [of |-> r, at |-> 1]
    BY Zenon, <1>4, <2>2 DEF Holds
  <2> QED
    BY <2>3
<1>5. Read(k, e) \subseteq Entry
  BY DEF Read
<1> HIDE DEF w, f
<1>6. Read(k, e) = {e} <=> Holds(f, w.pos, k, e)
  BY <1>3, <1>4, <1>5
<1> QED
  BY <1>6 DEF w, f

\* What is appended to a file leaves what was in it where it was.
LEMMA Grown ==
  ASSUME NEW k \in Kind, NEW e \in Entry, NEW f \in Seq(Unit), NEW g \in Seq(Unit), NEW p \in Nat,
         Holds(f, p, k, e)
  PROVE  Holds(f \o g, p, k, e)
<1>1. Size[k][e] \in Nat
  BY SizeType
<1>2. Len(f \o g) = Len(f) + Len(g) /\ \A i \in 1 .. Len(f) : (f \o g)[i] = f[i]
  OBVIOUS
<1> QED
  BY <1>1, <1>2 DEF Holds

\* btc_fs_append opens or creates one file and touches no other.
LEMMA Appended ==
  ASSUME TypeOK, NEW k \in Kind, NEW i \in Nat, NEW units \in Seq(Unit)
  PROVE  /\ DOMAIN AppendTo(k, i, units) = DOMAIN data[k] \cup {i}
         /\ \A j \in DOMAIN data[k] \ {i} : AppendTo(k, i, units)[j] = data[k][j]
         /\ i \in DOMAIN data[k] => AppendTo(k, i, units)[i] = data[k][i] \o units
         /\ i \notin DOMAIN data[k] => AppendTo(k, i, units)[i] = units
         /\ \A j \in DOMAIN data[k] \cup {i} : AppendTo(k, i, units)[j] \in Seq(Unit)
         /\ \A j \in DOMAIN data[k] : \E g \in Seq(Unit) : AppendTo(k, i, units)[j] = data[k][j] \o g
<1>1. \A j \in DOMAIN data[k] : data[k][j] \in Seq(Unit)
  BY DEF TypeOK
<1>2. \A f \in Seq(Unit) : f \o << >> = f /\ << >> \o f = f /\ f \o units \in Seq(Unit)
  OBVIOUS
<1>3. << >> \in Seq(Unit) /\ << >> \o << >> = << >>
  OBVIOUS
<1>4. DOMAIN AppendTo(k, i, units) = DOMAIN data[k] \cup {i}
  BY DEF AppendTo
<1>5. \A j \in DOMAIN data[k] \ {i} : AppendTo(k, i, units)[j] = data[k][j]
  BY <1>1, <1>2 DEF AppendTo
<1>6. i \in DOMAIN data[k] => AppendTo(k, i, units)[i] = data[k][i] \o units
  BY Zenon DEF AppendTo
<1>7. i \notin DOMAIN data[k] => AppendTo(k, i, units)[i] = units
  BY <1>2 DEF AppendTo
<1>8. \A j \in DOMAIN data[k] \cup {i} : AppendTo(k, i, units)[j] \in Seq(Unit)
  BY Zenon, <1>1, <1>2, <1>5, <1>6, <1>7
<1>9. \A j \in DOMAIN data[k] : \E g \in Seq(Unit) : AppendTo(k, i, units)[j] = data[k][j] \o g
  BY Zenon, <1>1, <1>2, <1>3, <1>5, <1>6
<1> QED
  BY Zenon, <1>4, <1>5, <1>6, <1>7, <1>8, <1>9

\* btc_chaindb_alloc leaves every position where it is and keeps numbers apart.
LEMMA Allocated ==
  ASSUME TypeOK, Numbered(mem), NEW k \in Kind, NEW len \in Nat, NEW m, m = Alloc(k, len)
  PROVE  /\ m \in Db /\ Numbered(m) /\ m.at = mem.at
         /\ \A j \in Kind \ {k} : m.file[j] = mem.file[j] /\ m.files[j] = mem.files[j]
         /\ \/ m = mem
            \/ /\ m.files[k] = mem.files[k] \cup {mem.file[k]}
               /\ m.file[k] = [id |-> mem.file[k].id + 1, pos |-> 0, max |-> -1]
<1>1. CASE m = mem
  BY <1>1 DEF TypeOK
<1>2. CASE m # mem
  <2> DEFINE new == [id |-> mem.file[k].id + 1, pos |-> 0, max |-> -1]
  <2>1. mem \in Db /\ mem.file[k] \in File /\ mem.files[k] \in SUBSET File
    BY DEF TypeOK, Db
  <2>2. m = [mem EXCEPT !.files[k] = @ \cup {mem.file[k]}, !.file[k] = new]
    BY <1>2 DEF Alloc
  <2>3. new \in File
    BY <2>1 DEF File
  <2> HIDE DEF new
  <2>4. m \in Db
    <3>1. [mem.file EXCEPT ![k] = new] \in [Kind -> File]
      BY <2>1, <2>3 DEF Db
    <3>2. [mem.files EXCEPT ![k] = @ \cup {mem.file[k]}] \in [Kind -> SUBSET File]
      BY <2>1 DEF Db
    <3>3. m = [[mem EXCEPT !.files = [mem.files EXCEPT ![k] = @ \cup {mem.file[k]}]]
                    EXCEPT !.file = [mem.file EXCEPT ![k] = new]]
      BY <2>1, <2>2 DEF Db
    <3> QED
      BY Zenon, <2>1, <3>1, <3>2, <3>3 DEF Db
  <2>5. /\ m.at = mem.at /\ m.file[k] = new /\ m.files[k] = mem.files[k] \cup {mem.file[k]}
        /\ \A j \in Kind \ {k} : m.file[j] = mem.file[j] /\ m.files[j] = mem.files[j]
    BY <2>1, <2>2 DEF Db
  <2>6. new.id = mem.file[k].id + 1 /\ new.max = -1
    BY DEF new
  <2>7. Numbered(m)
    <3>1. \A j \in Kind : \A f \in m.files[j] : f.id < m.file[j].id
      BY <2>1, <2>5, <2>6 DEF Numbered, File
    <3>2. \A j \in Kind : \A f, g \in m.files[j] : f.id = g.id => f = g
      BY <2>1, <2>5, <2>6 DEF Numbered, File
    <3>3. \A j \in Kind, e \in Entry : mem.at[e][j].id \in Int /\ mem.file[j].id \in Nat
      BY <2>1 DEF Db, Place, Nowhere, File
    <3>4. \A j \in Kind, e \in Entry : m.at[e][j].id <= m.file[j].id
      BY <2>1, <2>5, <2>6, <3>3 DEF Numbered
    <3>5. ASSUME NEW j \in Kind, NEW e \in Entry, NEW f \in m.files[j] \cup {m.file[j]},
                 f.id = m.at[e][j].id
          PROVE  Height[e] <= f.max
      <4>1. CASE j = k
        <5>1. mem.at[e][k].id <= mem.file[k].id
          BY DEF Numbered
        <5>2. f # new
          BY <2>5, <2>6, <3>3, <3>5, <4>1, <5>1
        <5>3. f \in mem.files[k] \cup {mem.file[k]}
          BY <2>5, <3>5, <4>1, <5>2
        <5> QED
          BY <2>5, <3>5, <4>1, <5>3 DEF Numbered
      <4>2. CASE j # k
        BY <2>5, <3>5, <4>2 DEF Numbered
      <4> QED
        BY <4>1, <4>2
    <3> QED
      BY <3>1, <3>2, <3>4, <3>5 DEF Numbered
  <2> QED
    BY <2>4, <2>5, <2>7 DEF new
<1> QED
  BY <1>1, <1>2

\* btc_chainfile_update raises max_height to the height of the block.
LEMMA Updated ==
  ASSUME NEW f \in File, NEW e \in Entry, NEW len \in Nat
  PROVE  /\ Update(f, e, len) \in File
         /\ Update(f, e, len).id = f.id
         /\ Update(f, e, len).pos = f.pos + len
         /\ Update(f, e, len).max >= Height[e]
         /\ Update(f, e, len).max >= f.max
<1> DEFINE g == Update(f, e, len)
<1>1. Height[e] \in Nat /\ f.id \in Nat /\ f.pos \in Nat /\ f.max \in Int
  BY FilesAssumption DEF File
<1>2. /\ g.id = f.id /\ g.pos = f.pos + len
      /\ g.max = IF Height[e] > f.max THEN Height[e] ELSE f.max
  BY DEF Update, File
<1>3. \A x \in Nat, y \in Int : [f EXCEPT !.pos = x, !.max = y] \in File
  BY Zenon DEF File
<1>4. g = [f EXCEPT !.pos = f.pos + len, !.max = IF Height[e] > f.max THEN Height[e] ELSE f.max]
  BY Zenon DEF Update
<1>5. g \in File
  <2>1. f.pos + len \in Nat /\ (IF Height[e] > f.max THEN Height[e] ELSE f.max) \in Int
    BY <1>1
  <2> HIDE DEF g
  <2> QED
    BY Zenon, <1>3, <1>4, <2>1
<1> HIDE DEF g
<1>6. g.max >= Height[e] /\ g.max >= f.max
  BY <1>1, <1>2
<1> QED
  BY Zenon, <1>2, <1>5, <1>6 DEF g

\* Writing a record that has no position yet gives it one, moves no other,
\* and only appends to a file.
LEMMA Written ==
  ASSUME TypeOK, Numbered(mem), NEW k \in Kind, NEW e \in Entry,
         mem.at[e][k] = Nowhere, Size[k][e] > 0, Write(k, e)
  PROVE  /\ data' = [j \in Kind |-> data'[j]]
         /\ \A j \in Kind : /\ DOMAIN data'[j] \subseteq Nat
                            /\ \A i \in DOMAIN data'[j] : data'[j][i] \in Seq(Unit)
         /\ \A j \in Kind : \A i \in DOMAIN data[j] :
                i \in DOMAIN data'[j] /\ \E g \in Seq(Unit) : data'[j][i] = data[j][i] \o g
         /\ mem' \in Db /\ Numbered(mem')
         /\ \A j \in Kind, r \in Entry : r # e \/ j # k => mem'.at[r][j] = mem.at[r][j]
         /\ InPlace => InPlace'
<1> DEFINE len == Size[k][e]
           m == Alloc(k, len)
           id == m.file[k].id
           units == Record(k, e)
           at == [id |-> id, pos |-> m.file[k].pos]
           file == Update(m.file[k], e, len)
<1>1. len \in Nat /\ units \in Seq(Unit) /\ Len(units) = len
  BY SizeType, RecordType
<1>2. /\ data' = [data EXCEPT ![k] = AppendTo(k, id, units)]
      /\ mem' = [m EXCEPT !.at[e][k] = at, !.file[k] = file]
  BY Zenon DEF Write
<1> HIDE DEF len, m, units
<1>3. /\ m \in Db /\ Numbered(m) /\ m.at = mem.at
      /\ \A j \in Kind \ {k} : m.file[j] = mem.file[j] /\ m.files[j] = mem.files[j]
      /\ \/ m = mem
         \/ /\ m.files[k] = mem.files[k] \cup {mem.file[k]}
            /\ m.file[k] = [id |-> mem.file[k].id + 1, pos |-> 0, max |-> -1]
  BY <1>1, Allocated DEF m
<1>4. m.file[k] \in File /\ id \in Nat /\ m.file[k].pos \in Nat /\ m.file[k].max \in Int
  BY <1>3 DEF Db, File
<1>5. Height[e] \in Nat
  BY FilesAssumption
<1>6. /\ file \in File /\ file.id = id /\ file.pos = m.file[k].pos + len
      /\ file.max >= Height[e] /\ file.max >= m.file[k].max
  BY Zenon, <1>1, <1>4, Updated
<1>7. at \in Place /\ at.id = id /\ at.pos = m.file[k].pos
  BY <1>4 DEF Place
<1> HIDE DEF id, at, file
<1>8. mem' \in Db
  <2>1. [m.file EXCEPT ![k] = file] \in [Kind -> File]
    BY <1>3, <1>6 DEF Db
  <2>2. [m.at[e] EXCEPT ![k] = at] \in [Kind -> Place]
    BY <1>3, <1>7 DEF Db
  <2>3. [m.at EXCEPT ![e] = [m.at[e] EXCEPT ![k] = at]] \in [Entry -> [Kind -> Place]]
    BY <1>3, <2>2 DEF Db
  <2>4. mem' = [[m EXCEPT !.at = [m.at EXCEPT ![e] = [m.at[e] EXCEPT ![k] = at]]]
                    EXCEPT !.file = [m.file EXCEPT ![k] = file]]
    BY Zenon, <1>2, <1>3 DEF Db
  <2> QED
    BY Zenon, <1>3, <2>1, <2>3, <2>4 DEF Db
<1>9. /\ mem'.files = m.files /\ mem'.file[k] = file /\ mem'.at[e][k] = at
      /\ \A j \in Kind \ {k} : mem'.file[j] = m.file[j]
      /\ \A j \in Kind, r \in Entry : r # e \/ j # k => mem'.at[r][j] = mem.at[r][j]
  BY <1>2, <1>3 DEF Db
<1>10. Numbered(mem')
  <2>1. \A j \in Kind : mem'.file[j].id = m.file[j].id
    BY <1>6, <1>9 DEF id
  <2>2. \A j \in Kind : \A f \in mem'.files[j] : f.id < mem'.file[j].id
    BY <1>3, <1>9, <2>1 DEF Numbered
  <2>3. \A j \in Kind : \A f, g \in mem'.files[j] : f.id = g.id => f = g
    BY <1>3, <1>9 DEF Numbered
  <2>4. \A j \in Kind, r \in Entry : mem'.at[r][j].id <= mem'.file[j].id
    BY <1>3, <1>4, <1>6, <1>7, <1>9, <2>1 DEF Numbered
  <2>5. ASSUME NEW j \in Kind, NEW r \in Entry, NEW f \in mem'.files[j] \cup {mem'.file[j]},
               f.id = mem'.at[r][j].id
        PROVE  Height[r] <= f.max
    <3>1. CASE j = k /\ r = e
      <4>1. f.id = id
        BY <1>7, <1>9, <2>5, <3>1
      <4>2. ASSUME f \in m.files[k] PROVE FALSE
        <5>1. f.id < m.file[k].id /\ f.id \in Nat /\ m.file[k].id \in Nat
          BY <1>3, <4>2 DEF Numbered, Db, File
        <5> QED
          BY <4>1, <5>1 DEF id
      <4> QED
        BY <1>5, <1>6, <1>9, <2>5, <3>1, <4>2
    <3>2. CASE j = k /\ r # e /\ f = file
      <4>1. Height[r] <= m.file[k].max /\ Height[r] \in Nat
        BY <1>3, <1>6, <1>9, <2>5, <3>2, FilesAssumption DEF Numbered, id
      <4> QED
        BY <1>4, <1>6, <3>2, <4>1 DEF File
    <3>3. CASE j # k \/ (r # e /\ f # file)
      BY <1>3, <1>9, <2>5, <3>3 DEF Numbered
    <3> QED
      BY <3>1, <3>2, <3>3
  <2> QED
    BY <2>2, <2>3, <2>4, <2>5 DEF Numbered
<1>11. /\ data' = [j \in Kind |-> data'[j]]
       /\ data'[k] = AppendTo(k, id, units)
       /\ \A j \in Kind \ {k} : data'[j] = data[j]
  BY <1>2 DEF TypeOK
<1>12. /\ DOMAIN data'[k] = DOMAIN data[k] \cup {id}
       /\ \A i \in DOMAIN data[k] \ {id} : data'[k][i] = data[k][i]
       /\ id \in DOMAIN data[k] => data'[k][id] = data[k][id] \o units
       /\ id \notin DOMAIN data[k] => data'[k][id] = units
       /\ \A i \in DOMAIN data[k] \cup {id} : data'[k][i] \in Seq(Unit)
       /\ \A i \in DOMAIN data[k] : \E g \in Seq(Unit) : data'[k][i] = data[k][i] \o g
  <2>1. id \in Nat
    BY <1>4 DEF id
  <2> DEFINE new == AppendTo(k, id, units)
  <2>2. /\ DOMAIN new = DOMAIN data[k] \cup {id}
        /\ \A i \in DOMAIN data[k] \ {id} : new[i] = data[k][i]
        /\ id \in DOMAIN data[k] => new[id] = data[k][id] \o units
        /\ id \notin DOMAIN data[k] => new[id] = units
        /\ \A i \in DOMAIN data[k] \cup {id} : new[i] \in Seq(Unit)
        /\ \A i \in DOMAIN data[k] : \E g \in Seq(Unit) : new[i] = data[k][i] \o g
    BY Zenon, <1>1, <2>1, Appended
  <2>3. data'[k] = new
    BY Zenon, <1>11
  <2> HIDE DEF new
  <2> QED
    BY Zenon, <2>2, <2>3
<1>13. \A j \in Kind : /\ DOMAIN data'[j] \subseteq Nat
                       /\ \A i \in DOMAIN data'[j] : data'[j][i] \in Seq(Unit)
  BY <1>4, <1>11, <1>12 DEF TypeOK, id
<1>14. \A j \in Kind : \A i \in DOMAIN data[j] :
            i \in DOMAIN data'[j] /\ \E g \in Seq(Unit) : data'[j][i] = data[j][i] \o g
  <2>1. \A j \in Kind \ {k} : \A i \in DOMAIN data[j] :
            << >> \in Seq(Unit) /\ data'[j][i] = data[j][i] \o << >>
    BY <1>11 DEF TypeOK
  <2> QED
    BY Zenon, <1>11, <1>12, <2>1
<1>15. ASSUME InPlace PROVE InPlace'
  <2> DEFINE p == m.file[k].pos
             f == data'[k][id]
  <2>1. /\ DOMAIN data[k] \subseteq 0 .. mem.file[k].id
        /\ mem.file[k].id \in DOMAIN data[k]
        /\ Len(data[k][mem.file[k].id]) = mem.file[k].pos
        /\ mem.file[k].id \in Nat /\ data[k][mem.file[k].id] \in Seq(Unit)
    BY <1>15 DEF InPlace, TypeOK
  <2>2. /\ p \in Nat /\ Len(f) = p + len
        /\ \A i \in 1 .. len : f[p + i] = units[i]
        /\ DOMAIN data'[k] \subseteq 0 .. id
    <3>1. CASE m = mem
      <4>1. id = mem.file[k].id /\ p = mem.file[k].pos
        BY <3>1 DEF id
      <4>2. f = data[k][id] \o units
        BY Zenon, <1>12, <2>1, <4>1
      <4>3. Len(f) = p + len /\ p \in Nat /\ \A i \in 1 .. len : f[p + i] = units[i]
        <5>1. data[k][id] \in Seq(Unit) /\ Len(data[k][id]) = p
          BY <2>1, <4>1
        <5> HIDE DEF f, p
        <5>2. /\ Len(data[k][id] \o units) = p + len
              /\ \A i \in 1 .. p + len :
                    (data[k][id] \o units)[i] = IF i <= p THEN data[k][id][i] ELSE units[i - p]
          BY Zenon, <1>1, <5>1, ConcatProperties
        <5>3. p \in Nat /\ \A i \in 1 .. len : p + i \in 1 .. p + len /\ ~(p + i <= p) /\ (p + i) - p = i
          BY <1>1, <5>1
        <5> QED
          BY Zenon, <4>2, <5>2, <5>3
      <4>4. DOMAIN data'[k] \subseteq 0 .. id
        BY Zenon, <1>12, <2>1, <4>1
      <4> QED
        BY <4>3, <4>4
    <3>2. CASE m # mem
      <4>1. id = mem.file[k].id + 1 /\ p = 0
        BY <1>3, <3>2 DEF id
      <4>2. id \notin DOMAIN data[k] /\ 0 .. mem.file[k].id \subseteq 0 .. id /\ id \in 0 .. id
        BY <2>1, <4>1
      <4>3. f = units /\ DOMAIN data'[k] \subseteq 0 .. id
        BY Zenon, <1>12, <2>1, <4>2
      <4> QED
        BY <1>1, <4>1, <4>3
    <3> QED
      BY <3>1, <3>2
  <2>3. \A g \in mem'.files[k] : g.id \in DOMAIN data'[k]
    BY Zenon, <1>3, <1>9, <1>12, <1>15 DEF InPlace
  <2>4. Holds(f, p, k, e)
    <3>1. \A i \in 1 .. len : units[i] = [of |-> e, at |-> i]
      BY RecordType DEF len, units
    <3>2. len > 0
      BY DEF len
    <3> HIDE DEF f, p
    <3> QED
      BY <1>1, <2>2, <3>1, <3>2 DEF Holds, len
  <2>5. ASSUME NEW r \in Entry, r # e, Present(k, r)'
        PROVE  Holds(data'[k][mem'.at[r][k].id], mem'.at[r][k].pos, k, r)
    <3> DEFINE w == mem.at[r][k]
    <3>1. mem'.at[r][k] = w /\ w # Nowhere /\ w \in Place
      BY <1>9, <2>5 DEF Present, TypeOK, Db
    <3>2. w.id \in DOMAIN data[k]
      <4>1. CASE w.id = id
        <5>1. w.id <= mem.file[k].id
          BY DEF Numbered
        <5>2. id = mem.file[k].id
          BY <1>3, <2>1, <4>1, <5>1 DEF id
        <5> QED
          BY <2>1, <4>1, <5>2
      <4>2. CASE w.id # id
        BY <1>12, <2>5, <3>1, <4>2 DEF Present
      <4> QED
        BY <4>1, <4>2
    <3>3. Holds(data[k][w.id], w.pos, k, r)
      BY <1>15, <3>1, <3>2 DEF InPlace, Present
    <3>4. data[k][w.id] \in Seq(Unit) /\ w.pos \in Nat
      BY <3>1, <3>2 DEF TypeOK, Place
    <3>5. PICK g \in Seq(Unit) : data'[k][w.id] = data[k][w.id] \o g
      BY Zenon, <1>12, <3>2
    <3> HIDE DEF w
    <3>6. Holds(data'[k][w.id], w.pos, k, r)
      BY <3>3, <3>4, <3>5, Grown
    <3> QED
      BY <3>1, <3>6
  <2>6. ASSUME NEW r \in Entry, Present(k, r)'
        PROVE  Holds(data'[k][mem'.at[r][k].id], mem'.at[r][k].pos, k, r)
    <3>1. CASE r = e
      BY Zenon, <1>7, <1>9, <2>4, <3>1
    <3> QED
      BY <2>5, <2>6, <3>1
  <2>7. /\ DOMAIN data'[k] \subseteq 0 .. mem'.file[k].id
        /\ mem'.file[k].id \in DOMAIN data'[k]
        /\ Len(data'[k][mem'.file[k].id]) = mem'.file[k].pos
    BY <1>6, <1>9, <1>12, <2>2
  <2>8. ASSUME NEW j \in Kind \ {k}
        PROVE  /\ data'[j] = data[j] /\ mem'.file[j] = mem.file[j] /\ mem'.files[j] = mem.files[j]
               /\ \A r \in Entry : mem'.at[r][j] = mem.at[r][j]
    BY <1>3, <1>9, <1>11
  <2>9. ASSUME NEW j \in Kind
        PROVE  /\ DOMAIN data'[j] \subseteq 0 .. mem'.file[j].id
               /\ mem'.file[j].id \in DOMAIN data'[j]
               /\ Len(data'[j][mem'.file[j].id]) = mem'.file[j].pos
               /\ \A g \in mem'.files[j] : g.id \in DOMAIN data'[j]
               /\ \A r \in Entry : Present(j, r)' =>
                    Holds(data'[j][mem'.at[r][j].id], mem'.at[r][j].pos, j, r)
    <3>1. CASE j = k
      BY Zenon, <2>3, <2>6, <2>7, <3>1
    <3>2. CASE j # k
      BY Zenon, <1>15, <2>8, <3>2 DEF InPlace, Present
    <3> QED
      BY <3>1, <3>2
  <2> QED
    BY Zenon, <2>9 DEF InPlace
<1> QED
  BY <1>8, <1>9, <1>10, <1>11, <1>13, <1>14, <1>15

LEMMA InitInv == Init => FilesInv
<1> SUFFICES ASSUME Init PROVE FilesInv
  OBVIOUS
<1> USE DEF Init
<1>1. Genesis \in Entry /\ Size["block"][Genesis] \in Nat /\ Size["block"][Genesis] > 0
  BY FilesAssumption, SizeType DEF Kind
<1> DEFINE file == Update(EmptyFile, Genesis, Size["block"][Genesis])
<1>2. EmptyFile \in File /\ EmptyFile.id = 0 /\ EmptyFile.pos = 0
  BY DEF EmptyFile, File
<1>3. /\ file \in File /\ file.id = 0 /\ file.pos = Size["block"][Genesis]
      /\ file.max >= Height[Genesis]
  <2>1. /\ file \in File /\ file.id = EmptyFile.id
        /\ file.pos = EmptyFile.pos + Size["block"][Genesis]
        /\ file.max >= Height[Genesis]
    BY Zenon, <1>1, <1>2, Updated
  <2> HIDE DEF file
  <2> QED
    BY <1>1, <1>2, <2>1
<1> HIDE DEF file
<1>4. /\ mem = stored
      /\ mem.file = [k \in Kind |-> IF k = "block" THEN file ELSE EmptyFile]
      /\ mem.files = [k \in Kind |-> {}]
      /\ mem.at = [e \in Entry |-> [k \in Kind |->
                        IF e = Genesis /\ k = "block" THEN [id |-> 0, pos |-> 0] ELSE Nowhere]]
      /\ mem.main = <<Genesis>>
  BY DEF file, Kind
<1>5. mem \in Db
  <2>1. mem.file \in [Kind -> File] /\ mem.files \in [Kind -> SUBSET File]
    BY Zenon, <1>2, <1>3, <1>4
  <2>2. mem.at \in [Entry -> [Kind -> Place]]
    BY <1>4 DEF Place
  <2>3. mem.main \in Seq(Entry)
    BY <1>1, <1>4
  <2>4. mem = [file |-> mem.file, files |-> mem.files, at |-> mem.at, main |-> mem.main]
    OBVIOUS
  <2> QED
    BY <2>1, <2>2, <2>3, <2>4 DEF Db
<1>6. Numbered(mem)
  <2>1. \A k \in Kind : mem.files[k] = {} /\ mem.file[k].id = 0
    BY <1>2, <1>3, <1>4
  <2>2. \A k \in Kind, e \in Entry :
            \/ mem.at[e][k] = Nowhere
            \/ e = Genesis /\ k = "block" /\ mem.at[e][k] = [id |-> 0, pos |-> 0]
    BY <1>4
  <2>3. mem.file["block"].max >= Height[Genesis] /\ Height[Genesis] \in Nat
        /\ mem.file["block"].max \in Int
    BY <1>1, <1>3, <1>4, FilesAssumption DEF Kind, File
  <2> QED
    BY <2>1, <2>2, <2>3 DEF Numbered, Nowhere
<1>7. /\ \A k \in Kind : DOMAIN data[k] = {0} /\ data[k][0] = Record(k, Genesis)
      /\ data = [k \in Kind |-> data[k]]
  OBVIOUS
<1>8. TypeOK
  <2>1. \A k \in Kind : /\ DOMAIN data[k] \subseteq Nat
                        /\ \A i \in DOMAIN data[k] : data[k][i] \in Seq(Unit)
    BY <1>1, <1>7, RecordType
  <2> QED
    BY <1>1, <1>4, <1>5, <1>7, <2>1 DEF TypeOK, Idle
<1>9. InPlace
  <2>1. \A k \in Kind : /\ mem.file[k].id = 0 /\ mem.files[k] = {}
                        /\ mem.file[k].pos = Len(Record(k, Genesis))
    <3>1. Size["undo"][Genesis] = 0
      BY FilesAssumption
    <3> QED
      BY <1>1, <1>2, <1>3, <1>4, <3>1, RecordType DEF Kind
  <2>2. ASSUME NEW k \in Kind, NEW e \in Entry, Present(k, e)
        PROVE  Holds(data[k][mem.at[e][k].id], mem.at[e][k].pos, k, e)
    <3>1. e = Genesis /\ k = "block" /\ mem.at[e][k] = [id |-> 0, pos |-> 0]
      BY <1>4, <2>2 DEF Present
    <3>2. mem.at[e][k].id = 0 /\ mem.at[e][k].pos = 0
      BY <3>1
    <3>3. Holds(Record(k, e), 0, k, e)
      BY <1>1, <3>1, RecordType DEF Holds
    <3> QED
      BY <1>7, <3>1, <3>2, <3>3
  <2>3. \A k \in Kind : /\ DOMAIN data[k] \subseteq 0 .. mem.file[k].id
                        /\ mem.file[k].id \in DOMAIN data[k]
                        /\ Len(data[k][mem.file[k].id]) = mem.file[k].pos
                        /\ \A f \in mem.files[k] : f.id \in DOMAIN data[k]
    <3>1. 0 \in 0 .. 0
      OBVIOUS
    <3> QED
      BY Zenon, <1>7, <2>1, <3>1
  <2> QED
    BY Zenon, <2>2, <2>3 DEF InPlace
<1> QED
  BY <1>4, <1>6, <1>8, <1>9 DEF FilesInv

\* Unlinking the files that hold old blocks only, and taking them off the list.
LEMMA PrunedKeeps == FilesInv /\ PruneFiles => FilesInv'
<1> SUFFICES ASSUME FilesInv, PruneFiles PROVE FilesInv'
  OBVIOUS
<1> USE DEF FilesInv
<1>1. job.entry \in Entry /\ job' = [job EXCEPT !.pc = "commit"] /\ UNCHANGED <<stored, crashes>>
  BY DEF PruneFiles, TypeOK
<1>2. job' # Idle /\ job' \in [pc : {"idle", "undo", "prune", "commit"}, entry : Entry, connect : BOOLEAN]
  BY <1>1 DEF TypeOK, Idle
<1>3. CASE UNCHANGED <<data, mem>>
  BY Zenon, <1>1, <1>2, <1>3 DEF TypeOK, Orderly, InPlace, Present
<1>4. CASE /\ data' = [k \in Kind |->
                        Restrict(data[k], DOMAIN data[k] \ {f.id : f \in Prunable(k)})]
           /\ mem' = [mem EXCEPT !.files = [k \in Kind |-> Remaining(k)]]
  <2>1. /\ mem'.file = mem.file /\ mem'.at = mem.at /\ mem'.main = mem.main
        /\ \A k \in Kind : mem'.files[k] = Remaining(k)
    BY <1>4 DEF TypeOK, Db
  <2>2. \A k \in Kind : /\ Remaining(k) = mem.files[k] \ Prunable(k)
                        /\ Prunable(k) \subseteq mem.files[k]
    BY DEF Remaining, Prunable
  <2>3. mem' \in Db
    <3>1. [k \in Kind |-> Remaining(k)] \in [Kind -> SUBSET File]
      BY <2>2 DEF TypeOK, Db
    <3> QED
      BY Zenon, <1>4, <3>1 DEF TypeOK, Db
  <2>4. Numbered(mem')
    BY <2>1, <2>2 DEF Numbered
  <2>5. /\ data' = [k \in Kind |-> data'[k]]
        /\ \A k \in Kind : /\ DOMAIN data'[k] = DOMAIN data[k] \ {f.id : f \in Prunable(k)}
                           /\ \A i \in DOMAIN data'[k] : data'[k][i] = data[k][i]
    BY <1>4 DEF Restrict
  <2>6. TypeOK'
    <3>1. \A k \in Kind : /\ DOMAIN data'[k] \subseteq Nat
                          /\ \A i \in DOMAIN data'[k] : data'[k][i] \in Seq(Unit)
      BY Zenon, <2>5 DEF TypeOK
    <3> QED
      BY <1>1, <1>2, <2>3, <2>5, <3>1 DEF TypeOK
  <2>7. ASSUME InPlace PROVE InPlace'
    <3>1. ASSUME NEW k \in Kind
          PROVE  /\ DOMAIN data'[k] \subseteq 0 .. mem'.file[k].id
                 /\ mem'.file[k].id \in DOMAIN data'[k]
                 /\ Len(data'[k][mem'.file[k].id]) = mem'.file[k].pos
      <4>1. mem.file[k].id \notin {f.id : f \in Prunable(k)}
        BY <2>2 DEF Numbered, TypeOK, Db, File
      <4> QED
        BY <2>1, <2>5, <2>7, <4>1 DEF InPlace
    <3>2. ASSUME NEW k \in Kind, NEW f \in mem'.files[k]
          PROVE  f.id \in DOMAIN data'[k]
      BY <2>1, <2>2, <2>5, <2>7 DEF Numbered, InPlace
    <3>3. ASSUME NEW k \in Kind, NEW e \in Entry, Present(k, e)'
          PROVE  Holds(data'[k][mem'.at[e][k].id], mem'.at[e][k].pos, k, e)
      BY Zenon, <2>1, <2>5, <2>7, <3>3 DEF InPlace, Present
    <3> QED
      BY Zenon, <3>1, <3>2, <3>3 DEF InPlace
  <2> QED
    BY <1>1, <1>2, <2>4, <2>6, <2>7 DEF Orderly
<1> QED
  BY Zenon, <1>3, <1>4 DEF PruneFiles

LEMMA WriteKeeps ==
  ASSUME FilesInv, NEW k \in Kind, NEW e \in Entry, mem.at[e][k] = Nowhere, Size[k][e] > 0,
         Write(k, e), UNCHANGED <<stored, crashes>>, job' # Idle,
         job' \in [pc : {"idle", "undo", "prune", "commit"}, entry : Entry, connect : BOOLEAN]
  PROVE  FilesInv'
<1> USE DEF FilesInv
<1>1. /\ data' = [j \in Kind |-> data'[j]]
      /\ \A j \in Kind : /\ DOMAIN data'[j] \subseteq Nat
                         /\ \A i \in DOMAIN data'[j] : data'[j][i] \in Seq(Unit)
      /\ mem' \in Db /\ Numbered(mem') /\ (InPlace => InPlace')
  BY Zenon, Written
<1>2. TypeOK'
  BY <1>1 DEF TypeOK
<1> QED
  BY Zenon, <1>1, <1>2 DEF Orderly

\* The main chain and lcdb's copy of it are no part of where the records are.
LEMMA MainMoved ==
  ASSUME FilesInv, NEW main \in Seq(Entry), mem' = [mem EXCEPT !.main = main],
         stored' = mem', job' \in {job, Idle}, UNCHANGED <<data, crashes>>
  PROVE  FilesInv'
<1> USE DEF FilesInv
<1>1. mem' \in Db /\ mem'.file = mem.file /\ mem'.files = mem.files /\ mem'.at = mem.at
  BY Zenon DEF TypeOK, Db
<1>2. Idle \in [pc : {"idle", "undo", "prune", "commit"}, entry : Entry, connect : BOOLEAN]
  BY FilesAssumption DEF Idle
<1>3. TypeOK'
  BY <1>1, <1>2 DEF TypeOK
<1>4. Numbered(mem')
  BY Zenon, <1>1 DEF Numbered
<1>5. InPlace => InPlace'
  BY Zenon, <1>1 DEF InPlace, Present
<1> QED
  BY <1>3, <1>4, <1>5 DEF Orderly

\* Opening the files again creates the current ones if need be.
LEMMA Reopened ==
  ASSUME TypeOK, Reopen
  PROVE  /\ data' = [k \in Kind |-> data'[k]]
         /\ \A k \in Kind : /\ DOMAIN data'[k] = DOMAIN data[k] \cup {stored.file[k].id}
                            /\ DOMAIN data'[k] \subseteq Nat
                            /\ \A i \in DOMAIN data'[k] : data'[k][i] \in Seq(Unit)
                            /\ \A i \in DOMAIN data[k] : data'[k][i] = data[k][i]
<1>1. ASSUME NEW k \in Kind
      PROVE  /\ DOMAIN data'[k] = DOMAIN data[k] \cup {stored.file[k].id}
             /\ DOMAIN data'[k] \subseteq Nat
             /\ \A i \in DOMAIN data'[k] : data'[k][i] \in Seq(Unit)
             /\ \A i \in DOMAIN data[k] : data'[k][i] = data[k][i]
  <2> DEFINE id == stored.file[k].id
             none == << >>
             new == AppendTo(k, id, none)
  <2>1. id \in Nat /\ none \in Seq(Unit)
    BY DEF TypeOK, Db, File
  <2>2. \A f \in Seq(Unit) : f \o none = f
    OBVIOUS
  <2>3. data'[k] = new
    BY Zenon DEF Reopen
  <2> HIDE DEF new, id, none
  <2>4. /\ DOMAIN new = DOMAIN data[k] \cup {id}
        /\ \A j \in DOMAIN data[k] \ {id} : new[j] = data[k][j]
        /\ id \in DOMAIN data[k] => new[id] = data[k][id] \o none
        /\ \A j \in DOMAIN data[k] \cup {id} : new[j] \in Seq(Unit)
    BY Zenon, <2>1, Appended DEF new
  <2>5. DOMAIN data[k] \subseteq Nat /\ \A j \in DOMAIN data[k] : data[k][j] \in Seq(Unit)
    BY Zenon DEF TypeOK
  <2>6. \A j \in DOMAIN data[k] : new[j] = data[k][j]
    BY Zenon, <2>4, <2>5, <2>2
  <2> QED
    BY Zenon, <2>1, <2>4, <2>5, <2>3, <2>6 DEF id
<1>2. data' = [k \in Kind |-> data'[k]]
  BY Zenon DEF Reopen
<1> QED
  BY Zenon, <1>1, <1>2

LEMMA ReopenKeeps ==
  ASSUME FilesInv, Reopen, \/ job = Idle /\ UNCHANGED crashes
                           \/ crashes' = crashes + 1
  PROVE  FilesInv'
<1> USE DEF FilesInv
<1>1. mem' = stored /\ stored' = stored /\ job' = Idle
  BY DEF Reopen
<1>2. Idle \in [pc : {"idle", "undo", "prune", "commit"}, entry : Entry, connect : BOOLEAN]
  BY FilesAssumption DEF Idle
<1>3. crashes' \in Nat /\ (Orderly' => Orderly /\ job = Idle)
  BY DEF TypeOK, Orderly
<1>4. TypeOK'
  BY <1>1, <1>2, <1>3, Reopened DEF TypeOK
<1>5. ASSUME InPlace, job = Idle PROVE InPlace'
  <2>1. mem' = mem /\ stored = mem /\ \A k \in Kind : mem.file[k].id \in DOMAIN data[k]
    BY Zenon, <1>1, <1>5 DEF InPlace
  <2>2. \A k \in Kind : /\ DOMAIN data'[k] = DOMAIN data[k]
                        /\ \A i \in DOMAIN data[k] : data'[k][i] = data[k][i]
    BY Zenon, <2>1, Reopened
  <2> QED
    BY Zenon, <1>5, <2>1, <2>2 DEF InPlace, Present
<1> QED
  BY <1>1, <1>3, <1>4, <1>5

LEMMA NextInv == FilesInv /\ [Next]_vars => FilesInv'
<1> SUFFICES ASSUME FilesInv, [Next]_vars PROVE FilesInv'
  OBVIOUS
<1> DEFINE Job == [pc : {"idle", "undo", "prune", "commit"}, entry : Entry, connect : BOOLEAN]
<1>1. job \in Job /\ mem \in Db
  BY DEF FilesInv, TypeOK
<1>2. ASSUME UNCHANGED <<data, stored, mem, crashes>>, job' \in Job, job' = Idle => job = Idle
      PROVE  FilesInv'
  BY Zenon, <1>2 DEF FilesInv, TypeOK, Orderly, InPlace, Present
<1>3. ASSUME NEW e \in Entry \ {Genesis}, NEW connect \in BOOLEAN, SaveBlock(e, connect)
      PROVE  FilesInv'
  <2>1. job' = [pc |-> IF connect THEN "undo" ELSE "commit", entry |-> e, connect |-> connect]
    BY Zenon, <1>3 DEF SaveBlock
  <2>2. job' # Idle /\ job' \in Job
    BY <2>1 DEF Idle
  <2>3. /\ Write("block", e) /\ UNCHANGED <<stored, crashes>>
        /\ mem.at[e]["block"] = Nowhere /\ Size["block"][e] > 0 /\ "block" \in Kind
    BY Zenon, <1>3, FilesAssumption DEF SaveBlock, Saved, Kind
  <2> QED
    BY <2>2, <2>3, WriteKeeps
<1>4. ASSUME NEW e \in Entry \ {Genesis}, Reconnect(e) PROVE FilesInv'
  <2>1. job' = [pc |-> "undo", entry |-> e, connect |-> TRUE] /\ UNCHANGED <<data, stored, mem, crashes>>
    BY <1>4 DEF Reconnect
  <2>2. job' # Idle /\ job' \in Job
    BY <2>1 DEF Idle
  <2> QED
    BY <1>2, <2>1, <2>2
<1>5. CASE WriteUndo
  <2>1. job' = [job EXCEPT !.pc = "prune"] /\ UNCHANGED <<stored, crashes>>
    BY <1>5 DEF WriteUndo
  <2>2. job' # Idle /\ job' \in Job /\ job.entry \in Entry
    BY <1>1, <2>1 DEF Idle
  <2>3. CASE /\ Size["undo"][job.entry] # 0 /\ mem.at[job.entry]["undo"] = Nowhere
             /\ Write("undo", job.entry)
    <3>1. "undo" \in Kind /\ Size["undo"][job.entry] > 0
      BY <2>2, <2>3, SizeType DEF Kind
    <3> QED
      BY <2>1, <2>2, <2>3, <3>1, WriteKeeps
  <2>4. CASE UNCHANGED <<data, mem>>
    BY <1>2, <2>1, <2>2, <2>4
  <2> QED
    BY <1>5, <2>3, <2>4 DEF WriteUndo
<1>6. CASE Commit
  <2>1. job.entry \in Entry /\ mem.main \in Seq(Entry)
    BY <1>1 DEF Db
  <2>2. Append(mem.main, job.entry) \in Seq(Entry)
    BY <2>1
  <2>3. mem = [mem EXCEPT !.main = mem.main]
    BY <1>1 DEF Db
  <2>4. \E main \in Seq(Entry) : mem' = [mem EXCEPT !.main = main]
    BY Zenon, <1>6, <2>1, <2>2, <2>3 DEF Commit
  <2> QED
    BY <1>6, <2>4, MainMoved DEF Commit
<1>7. CASE Disconnect
  <2>1. Front(mem.main) \in Seq(Entry)
    BY <1>1, <1>7 DEF Disconnect, Front, Db
  <2> QED
    BY <1>7, <2>1, MainMoved DEF Disconnect
<1>8. CASE Restart \/ Crash
  BY <1>8, ReopenKeeps DEF Restart, Crash
<1>9. CASE UNCHANGED vars
  BY <1>1, <1>2, <1>9 DEF vars
<1> QED
  BY <1>3, <1>4, <1>5, <1>6, <1>7, <1>8, <1>9, PrunedKeeps DEF Next

\* The inductive invariant of the files: the numbers in memory and in lcdb are
\* in order whatever crashes there were, both are the same between two calls,
\* and until the first crash in a call the files hold what memory says.
THEOREM FilesInvariance == Spec => []FilesInv
  BY InitInv, NextInv, PTL DEF Spec

\* As long as the process is not killed in a call, every position in lcdb
\* leads to the record of its own block: for every tree of blocks, every size
\* of records and files, and with or without pruning.
THEOREM PositionsCorrect == Spec => []ReadsOwn
<1>1. FilesInv => ReadsOwn
  BY ReadsHeld DEF FilesInv, ReadsOwn, InPlace
<1> QED
  BY <1>1, FilesInvariance, PTL

\* As long as the process is not killed in a call, the list of full files
\* names files that are there.
THEOREM ListedFilesExist == Spec => []IndexedFilesExist
<1>1. FilesInv => IndexedFilesExist
  BY DEF FilesInv, IndexedFilesExist, InPlace
<1> QED
  BY <1>1, FilesInvariance, PTL

\* A record that has a position keeps it, unless a crash goes back to the one
\* in lcdb; files only grow, except that pruning unlinks whole ones.
LEMMA Steps ==
  ASSUME FilesInv, [Next]_vars
  PROVE  /\ \A k \in Kind, e \in Entry : mem.at[e][k] # Nowhere =>
                mem'.at[e][k] \in {mem.at[e][k], stored.at[e][k]}
         /\ \/ \A k \in Kind : \A i \in DOMAIN data[k] :
                  i \in DOMAIN data'[k] /\ \E g \in Seq(Unit) : data'[k][i] = data[k][i] \o g
            \/ \A k \in Kind : /\ DOMAIN data'[k] = DOMAIN data[k] \ {f.id : f \in Prunable(k)}
                               /\ \A i \in DOMAIN data'[k] : data'[k][i] = data[k][i]
<1> DEFINE AtKept == \A k \in Kind, e \in Entry : mem.at[e][k] # Nowhere =>
                        mem'.at[e][k] \in {mem.at[e][k], stored.at[e][k]}
           Grows == \A k \in Kind : \A i \in DOMAIN data[k] :
                        i \in DOMAIN data'[k] /\ \E g \in Seq(Unit) : data'[k][i] = data[k][i] \o g
<1>1. /\ TypeOK /\ Numbered(mem) /\ mem \in Db /\ job.entry \in Entry
      /\ \A k \in Kind : \A i \in DOMAIN data[k] : data[k][i] \in Seq(Unit)
  BY DEF FilesInv, TypeOK
<1>2. \A f \in Seq(Unit) : << >> \in Seq(Unit) /\ f \o << >> = f
  OBVIOUS
<1>3. ASSUME UNCHANGED data PROVE Grows
  BY Zenon, <1>1, <1>2, <1>3
<1>4. ASSUME NEW k \in Kind, NEW e \in Entry, mem.at[e][k] = Nowhere, Size[k][e] > 0, Write(k, e)
      PROVE  AtKept /\ Grows
  <2>1. \A j \in Kind, r \in Entry : r # e \/ j # k => mem'.at[r][j] = mem.at[r][j]
    BY Zenon, <1>1, <1>4, Written
  <2>2. Grows
    BY Zenon, <1>1, <1>4, Written
  <2> QED
    BY Zenon, <1>4, <2>1, <2>2
<1>5. ASSUME NEW e \in Entry \ {Genesis}, NEW connect \in BOOLEAN, SaveBlock(e, connect)
      PROVE  AtKept /\ Grows
  <2>1. /\ Write("block", e) /\ mem.at[e]["block"] = Nowhere
        /\ Size["block"][e] > 0 /\ "block" \in Kind
    BY Zenon, <1>5, FilesAssumption DEF SaveBlock, Saved, Kind
  <2> QED
    BY Zenon, <1>4, <2>1
<1>6. CASE WriteUndo
  <2>1. CASE /\ Size["undo"][job.entry] # 0 /\ mem.at[job.entry]["undo"] = Nowhere
             /\ Write("undo", job.entry)
    <3>1. "undo" \in Kind /\ Size["undo"][job.entry] > 0
      BY <1>1, <2>1, SizeType DEF Kind
    <3> QED
      BY Zenon, <1>1, <1>4, <2>1, <3>1
  <2>2. CASE UNCHANGED <<data, mem>>
    BY <1>3, <2>2
  <2> QED
    BY Zenon, <1>6, <2>1, <2>2 DEF WriteUndo
<1>7. CASE PruneFiles
  <2>1. CASE UNCHANGED <<data, mem>>
    BY <1>3, <2>1
  <2>2. CASE /\ data' = [k \in Kind |->
                          Restrict(data[k], DOMAIN data[k] \ {f.id : f \in Prunable(k)})]
             /\ mem' = [mem EXCEPT !.files = [k \in Kind |-> Remaining(k)]]
    <3>1. AtKept
      BY <1>1, <2>2 DEF Db
    <3>2. \A k \in Kind : /\ DOMAIN data'[k] = DOMAIN data[k] \ {f.id : f \in Prunable(k)}
                          /\ \A i \in DOMAIN data'[k] : data'[k][i] = data[k][i]
      BY <2>2 DEF Restrict
    <3> QED
      BY Zenon, <3>1, <3>2
  <2> QED
    BY Zenon, <1>7, <2>1, <2>2 DEF PruneFiles
<1>8. CASE Commit \/ Disconnect
  <2>1. UNCHANGED data /\ mem'.at = mem.at
    BY <1>1, <1>8 DEF Commit, Disconnect, Db
  <2> QED
    BY Zenon, <1>3, <2>1
<1>9. CASE Restart \/ Crash
  <2>1. Reopen /\ mem' = stored
    BY <1>9 DEF Restart, Crash, Reopen
  <2>2. \A k \in Kind : \A i \in DOMAIN data[k] : i \in DOMAIN data'[k] /\ data'[k][i] = data[k][i]
    BY Zenon, <1>1, <2>1, Reopened
  <2>3. Grows
    BY Zenon, <1>1, <1>2, <2>2
  <2> QED
    BY Zenon, <2>1, <2>3
<1>10. CASE UNCHANGED <<data, mem>>
  BY <1>3, <1>10
<1> HIDE DEF AtKept, Grows
<1>11. \/ AtKept /\ Grows
       \/ AtKept /\ \A k \in Kind : /\ DOMAIN data'[k] = DOMAIN data[k] \ {f.id : f \in Prunable(k)}
                                    /\ \A i \in DOMAIN data'[k] : data'[k][i] = data[k][i]
  BY Zenon, <1>5, <1>6, <1>7, <1>8, <1>9, <1>10 DEF Next, vars, Reconnect, AtKept, Grows
<1> QED
  BY Zenon, <1>11 DEF AtKept, Grows

\* Pruning never takes a block or undo record of the last KeepBlocks heights,
\* whatever crashes there were before.
THEOREM PruningCorrect == Spec => PrunesOldOnly
<1>1. ASSUME FilesInv, [Next]_vars, NEW e \in Entry, NEW k \in Kind,
             Present(k, e), mem.at[e][k].id \notin DOMAIN data'[k]
      PROVE  Height[e] < Height[job.entry] - KeepBlocks
  <2>1. DOMAIN data'[k] = DOMAIN data[k] \ {f.id : f \in Prunable(k)}
    BY <1>1, Steps DEF Present
  <2>2. PICK f \in Prunable(k) : f.id = mem.at[e][k].id
    BY <1>1, <2>1 DEF Present
  <2>3. f \in mem.files[k] /\ f.max < Height[job.entry] - KeepBlocks
    BY <2>2 DEF Prunable, Target
  <2>4. Height[e] <= f.max
    BY <1>1, <2>2, <2>3 DEF FilesInv, Numbered
  <2>5. Height[e] \in Int /\ Height[job.entry] \in Int /\ KeepBlocks \in Int /\ f.max \in Int
    BY <1>1, <2>3, FilesAssumption DEF FilesInv, TypeOK, Db, File
  <2> QED
    BY <2>3, <2>4, <2>5
<1>2. FilesInv /\ [Next]_vars =>
        \A e \in Entry, k \in Kind :
            Present(k, e) /\ mem.at[e][k].id \notin DOMAIN data'[k]
                => Height[e] < Height[job.entry] - KeepBlocks
  BY <1>1
<1> QED
  BY <1>2, FilesInvariance, PTL DEF Spec, PrunesOldOnly

\* A crash in a call leaves what was committed before it readable.
THEOREM CommittedCorrect == Spec => CommittedStays
<1>1. ASSUME FilesInv, [Next]_vars, NEW e \in Entry, NEW k \in Kind, Present(k, e),
             stored.at[e][k] = mem.at[e][k], Read(k, e) = {e}, Present(k, e)'
      PROVE  Read(k, e)' = {e}
  <2> DEFINE w == mem.at[e][k]
  <2>1. w # Nowhere /\ w \in Place /\ w.pos \in Nat
    BY <1>1 DEF FilesInv, TypeOK, Db, Place, Present
  <2>2. mem'.at[e][k] = w
    BY Zenon, <1>1, <2>1, Steps
  <2>3. w.id \in DOMAIN data[k] /\ w.id \in DOMAIN data'[k]
    BY Zenon, <1>1, <2>2 DEF Present
  <2>4. data[k][w.id] \in Seq(Unit) /\ Holds(data[k][w.id], w.pos, k, e)
    BY Zenon, <1>1, <2>3, ReadsHeld DEF FilesInv, TypeOK
  <2>5. Holds(data'[k][w.id], w.pos, k, e)
    <3>1. CASE data'[k][w.id] = data[k][w.id]
      BY <2>4, <3>1
    <3>2. CASE \E g \in Seq(Unit) : data'[k][w.id] = data[k][w.id] \o g
      BY Zenon, <2>1, <2>4, <3>2, Grown
    <3> QED
      BY Zenon, <1>1, <2>3, <3>1, <3>2, Steps
  <2>6. TypeOK'
    BY <1>1, NextInv DEF FilesInv
  <2>7. (Read(k, e) = {e} <=> Holds(data[k][mem.at[e][k].id], mem.at[e][k].pos, k, e))'
    BY <1>1, <2>6, ReadsHeld, PTL
  <2> QED
    BY <2>2, <2>5, <2>7
<1>2. FilesInv /\ [Next]_vars =>
        \A e \in Entry, k \in Kind :
            (/\ Present(k, e)
             /\ stored.at[e][k] = mem.at[e][k]
             /\ Read(k, e) = {e}
             /\ Present(k, e)')
            => Read(k, e)' = {e}
  BY <1>1
<1> QED
  BY <1>2, FilesInvariance, PTL DEF Spec, CommittedStays

=============================================================================
