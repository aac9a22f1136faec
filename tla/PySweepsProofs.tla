--------------------------- MODULE PySweepsProofs ---------------------------
(***************************************************************************)
(* Proofs about PySweeps, for any numbers of processes, sweeps and threads,*)
(* any archives, any limit and ceiling of a table and any chunks of it:    *)
(* the table first, then the sweeps.                                       *)
(***************************************************************************)
EXTENDS PySweeps, ListsProofs

-----------------------------------------------------------------------------
(* The table (scan_table, build_batches).  What a recursive function comes *)
(* to: the sums of a column and lists one after the other.                 *)

Values == Nat \union {NoValue}

(* The sums of values, from none of them on.                               *)
SumsUp(f, values) ==
    /\ f \in [0..Len(values) -> Nat] /\ f[0] = 0
    /\ \A r \in 1..Len(values) : f[r] = f[r - 1] + Bytes(values[r])

LEMMA SumsAre ==
  ASSUME NEW values \in Seq(Values)
  PROVE  SumsUp(Sums(values), values)
<1> DEFINE l == Len(values)
           g == [r \in 1..l |-> [n \in Nat |-> n + Bytes(values[r])]]
           Right(G) == G = [r \in 0..Len(values) |->
                              IF r = 0 THEN 0 ELSE G[r - 1] + Bytes(values[r])]
           G == CHOOSE G : Right(G)
<1>1. l \in Nat /\ \A r \in 1..l : Bytes(values[r]) \in Nat
  BY DEF Values, Bytes
<1>2. g \in [1..l -> [Nat -> Nat]]
  BY <1>1
<1>3. PICK h \in [0..l -> Nat] : h[0] = 0 /\ \A i \in 1..l : h[i] = g[i][h[i - 1]]
  <2>1. l \in Nat /\ 0 \in Nat
    BY <1>1
  <2> HIDE DEF g, l
  <2>2. PICK h : Iterate(h, Nat, 0, l, g)
    BY <1>2, <2>1, Iterates
  <2> QED
    BY <2>2 DEF Iterate
<1>4. ASSUME NEW i \in 1..l
      PROVE  h[i] = h[i - 1] + Bytes(values[i])
  <2>1. h[i - 1] \in Nat
    BY <1>1, SMTT(30)
  <2> QED
    BY <1>3, <2>1
<1>5. Right(h)
  <2> DEFINE R == [r \in 0..l |-> IF r = 0 THEN 0 ELSE h[r - 1] + Bytes(values[r])]
  <2>1. ASSUME NEW r \in 0..l PROVE h[r] = R[r]
    <3>1. CASE r = 0
      BY <1>3, <3>1
    <3>2. CASE r # 0
      <4>1. r \in 1..l
        BY <1>1, <3>2
      <4> QED
        BY <1>4, <3>2, <4>1
    <3> QED
      BY <3>1, <3>2
  <2>2. h = R
    BY <2>1
  <2> QED
    BY <2>2
<1>6. Right(G)
  <2> HIDE DEF Right
  <2> QED
    BY <1>5
<1>7. DOMAIN G = 0..l /\ G[0] = 0 /\ \A r \in 1..l : G[r] = G[r - 1] + Bytes(values[r])
  <2> DEFINE R == [r \in 0..l |-> IF r = 0 THEN 0 ELSE G[r - 1] + Bytes(values[r])]
  <2>1. /\ DOMAIN R = 0..l /\ R[0] = 0
        /\ \A r \in 1..l : R[r] = G[r - 1] + Bytes(values[r])
    BY <1>1
  <2>2. G = R
    BY <1>6
  <2> HIDE DEF R, G
  <2> QED
    BY <2>1, <2>2
<1>8. Sums(values) = G
  BY DEF Sums
<1> HIDE DEF G
<1> DEFINE T == {r \in Nat : r \in 0..l /\ G[r] # h[r]}
<1>9. T = {}
  <2>1. SUFFICES ASSUME T # {} PROVE FALSE
    OBVIOUS
  <2>2. PICK m \in T : \A n \in T : m <= n
    <3>1. T \in SUBSET Nat
      OBVIOUS
    <3> HIDE DEF T
    <3> QED
      BY <2>1, <3>1, Least
  <2>3. m \in 1..l /\ G[m] # h[m] /\ m - 1 \in 0..l /\ ~(m <= m - 1)
    BY <1>1, <1>3, <1>7
  <2>4. G[m - 1] = h[m - 1]
    BY <2>2, <2>3
  <2> QED
    BY <1>4, <1>7, <2>3, <2>4
<1>10. G = h
  <2>1. \A r \in 0..l : r \in Nat /\ G[r] = h[r]
    BY <1>1, <1>9
  <2>2. G = [r \in 0..l |-> G[r]]
    <3> DEFINE R == [r \in 0..l |-> IF r = 0 THEN 0 ELSE G[r - 1] + Bytes(values[r])]
    <3>1. G = R
      BY <1>6 DEF G
    <3>2. R = [r \in 0..l |-> R[r]]
      OBVIOUS
    <3> HIDE DEF R
    <3> QED
      BY <3>1, <3>2
  <2>3. h = [r \in 0..l |-> h[r]]
    BY <1>3
  <2> QED
    BY <2>1, <2>2, <2>3
<1> QED
  BY <1>3, <1>4, <1>8, <1>10 DEF SumsUp

-----------------------------------------------------------------------------
(* What append_col does to a column.                                       *)
LEMMA ChunkValues ==
  ASSUME NEW chunk \in Chunks, NEW name \in Names
  PROVE  /\ ValuesOf(chunk, name) \in Seq(Values)
         /\ Len(ValuesOf(chunk, name)) = Len(chunk.rows) /\ Len(chunk.rows) \in Nat
<1> DEFINE l == Len(chunk.rows)
           v == ValuesOf(chunk, name)
           R == [text : Values, attr : Values]
<1>1. chunk.rows \in Seq(R) /\ chunk.meta \in Values /\ KeyLength \in Values
  <2>1. Chunks \subseteq [rows : Seq(R), meta : Values]
    BY ScanTableAssumption DEF Values
  <2>2. KeyLength \in Values
    BY ScanTableAssumption DEF Values
  <2> HIDE DEF R
  <2> QED
    BY <2>1, <2>2
<1>2. /\ l \in Nat /\ DOMAIN chunk.rows = 1..l
      /\ \A r \in 1..l : chunk.rows[r].text \in Values /\ chunk.rows[r].attr \in Values
  <2>1. \A x \in R : x.text \in Values /\ x.attr \in Values
    OBVIOUS
  <2> HIDE DEF R
  <2>2. l \in Nat /\ DOMAIN chunk.rows = 1..l /\ \A r \in 1..l : chunk.rows[r] \in R
    BY <1>1
  <2> QED
    BY <2>1, <2>2
<1>3. v = [r \in 1..l |-> v[r]]
  <2> DEFINE e(r) == CASE name = "key" -> KeyLength
                       [] name = "text" -> chunk.rows[r].text
                       [] name = "attr" -> chunk.rows[r].attr
                       [] name = "meta" -> chunk.meta
  <2>1. v = [r \in DOMAIN chunk.rows |-> e(r)]
    BY DEF ValuesOf
  <2> HIDE DEF v, e
  <2> QED
    BY <1>2, <2>1
<1>4. \A r \in 1..l : v[r] \in Values
  BY <1>1, <1>2 DEF ValuesOf, Names
<1> HIDE DEF v
<1>5. v \in [1..l -> Values]
  BY <1>3, <1>4
<1>6. v \in Seq(Values) /\ Len(v) = l
  <2> HIDE DEF l
  <2> QED
    BY <1>2, <1>5
<1> QED
  BY <1>2, <1>6 DEF v

(* What a reader takes for the values of one column.                       *)
Reads(col) == [r \in DOMAIN col.valid |->
                 IF col.valid[r] THEN col.ends[r + 1] - col.ends[r] ELSE NoValue]

(* A list of some values and n more.                                       *)
Parts(list, s, t, n, S) ==
    /\ \A r \in 1..Len(s) : list[r] = s[r]
    /\ \A r \in 1..n : list[Len(s) + r] = t[r]
    /\ list \in Seq(S) /\ Len(list) = Len(s) + n

LEMMA ConcatParts ==
  ASSUME NEW S, NEW s \in Seq(S), NEW t \in Seq(S), NEW n, Len(t) = n
  PROVE  Parts(s \o t, s, t, n, S)
  BY DEF Parts

(* A column with more values, field by field.                              *)
Extends(full, col, values, sums) ==
    /\ full = [data |-> full.data, ends |-> full.ends, valid |-> full.valid]
    /\ full.data = col.data + sums[Len(values)]
    /\ full.ends \in Seq(Nat) /\ full.valid \in Seq(BOOLEAN)
    /\ Len(full.ends) = Len(col.ends) + Len(values)
    /\ Len(full.valid) = Len(col.valid) + Len(values)
    /\ \A r \in 1..Len(col.ends) : full.ends[r] = col.ends[r]
    /\ \A r \in 1..Len(col.valid) : full.valid[r] = col.valid[r]
    /\ \A r \in 1..Len(values) :
          /\ full.ends[Len(col.ends) + r] = col.data + sums[r]
          /\ full.valid[Len(col.valid) + r] = (values[r] # NoValue)

LEMMA AppendExtends ==
  ASSUME NEW col, ColWhole(col), NEW values \in Seq(Values)
  PROVE  Extends(AppendCol(col, values), col, values, Sums(values))
<1> DEFINE l == Len(values)
           sums == Sums(values)
           ends == [r \in DOMAIN values |-> col.data + EndsOf(values)[r]]
           valid == [r \in DOMAIN values |-> values[r] # NoValue]
           full == AppendCol(col, values)
<1>1. /\ l \in Nat /\ DOMAIN values = 1..l /\ sums \in [0..l -> Nat] /\ col.data \in Nat
      /\ col.ends \in Seq(Nat) /\ col.valid \in Seq(BOOLEAN)
  BY SumsAre DEF SumsUp, ColWhole
<1>2. /\ full.data = col.data + sums[l] /\ full.ends = col.ends \o ends
      /\ full.valid = col.valid \o valid
      /\ full = [data |-> full.data, ends |-> full.ends, valid |-> full.valid]
  BY DEF AppendCol, Total
<1>3. ends \in [1..l -> Nat] /\ \A r \in 1..l : ends[r] = col.data + sums[r]
  <2> HIDE DEF sums
  <2>1. \A r \in 1..l : EndsOf(values)[r] = sums[r]
    BY <1>1 DEF EndsOf, sums
  <2>2. \A r \in 1..l : sums[r] \in Nat
    BY <1>1
  <2> QED
    BY <1>1, <2>1, <2>2
<1>4. valid \in [1..l -> BOOLEAN] /\ \A r \in 1..l : valid[r] = (values[r] # NoValue)
  <2>1. valid = [r \in 1..l |-> values[r] # NoValue]
    BY <1>1
  <2> HIDE DEF valid
  <2> QED
    BY <2>1, Zenon
<1> HIDE DEF ends, valid, full, sums, l
<1>5. /\ ends \in Seq(Nat) /\ Len(ends) = l /\ DOMAIN ends = 1..l
      /\ valid \in Seq(BOOLEAN) /\ Len(valid) = l /\ DOMAIN valid = 1..l
  <2>1. ends \in Seq(Nat) /\ Len(ends) = l
    BY <1>1, <1>3, IsASeq
  <2> DEFINE B == BOOLEAN
  <2>2. valid \in [1..l -> B]
    BY <1>4
  <2> HIDE DEF B
  <2>3. valid \in Seq(B) /\ Len(valid) = l
    BY <1>1, <2>2, IsASeq
  <2> QED
    BY <1>3, <1>4, <2>1, <2>3 DEF B
<1>6. /\ full.ends \in Seq(Nat) /\ Len(full.ends) = Len(col.ends) + l
      /\ \A r \in 1..Len(col.ends) : full.ends[r] = col.ends[r]
      /\ \A r \in 1..l : full.ends[Len(col.ends) + r] = col.data + sums[r]
  <2>1. Parts(col.ends \o ends, col.ends, ends, l, Nat)
    BY <1>1, <1>5, ConcatParts
  <2>3. \A r \in 1..l : (col.ends \o ends)[Len(col.ends) + r] = col.data + sums[r]
    BY <1>3, <2>1, Zenon DEF Parts
  <2> QED
    BY <1>2, <2>1, <2>3, Zenon DEF Parts
<1>7. /\ full.valid \in Seq(BOOLEAN) /\ Len(full.valid) = Len(col.valid) + l
      /\ \A r \in 1..Len(col.valid) : full.valid[r] = col.valid[r]
      /\ \A r \in 1..l : full.valid[Len(col.valid) + r] = (values[r] # NoValue)
  <2>1. Parts(col.valid \o valid, col.valid, valid, l, BOOLEAN)
    BY <1>1, <1>5, ConcatParts, Zenon
  <2>3. \A r \in 1..l : (col.valid \o valid)[Len(col.valid) + r] = (values[r] # NoValue)
    BY <1>4, <2>1, Zenon DEF Parts
  <2> QED
    BY <1>2, <2>1, <2>3, Zenon DEF Parts
<1> QED
  BY <1>2, <1>6, <1>7 DEF Extends, full, l, sums

LEMMA ExtendedWhole ==
  ASSUME NEW col, ColWhole(col), NEW values \in Seq(Values), NEW full, NEW sums,
         SumsUp(sums, values), Extends(full, col, values, sums)
  PROVE  ColWhole(full)
<1> DEFINE n == Len(col.valid)
           l == Len(values)
<1>1. /\ n \in Nat /\ l \in Nat /\ Len(col.ends) = n + 1 /\ col.data \in Nat
      /\ col.ends[1] = 0 /\ col.ends[n + 1] = col.data
  BY DEF ColWhole
<1>2. /\ sums \in [0..l -> Nat] /\ sums[0] = 0 /\ sums[l] \in Nat
  BY <1>1 DEF SumsUp
<1>3. /\ Len(full.ends) = (n + 1) + l /\ Len(full.valid) = n + l
      /\ full.ends[1] = col.ends[1]
      /\ full.ends[n + 1] = col.ends[n + 1]
      /\ \A r \in 1..l : full.ends[(n + 1) + r] = col.data + sums[r]
      /\ full.data = col.data + sums[l]
  <2>1. 1 \in 1..(n + 1) /\ n + 1 \in 1..(n + 1)
    BY <1>1
  <2> QED
    BY <1>1, <2>1 DEF Extends
<1> HIDE DEF n, l
<1>4. full.ends[(n + 1) + l] = full.data
  <2>1. CASE l = 0
    <3>1. (n + 1) + l = n + 1
      BY <1>1, <2>1
    <3> QED
      BY <1>1, <1>2, <1>3, <2>1, <3>1
  <2>2. CASE l # 0
    <3>1. l \in 1..l
      BY <1>1, <2>2
    <3> QED
      BY <1>3, <3>1
  <2> QED
    BY <2>1, <2>2
<1>5. full.data \in Nat /\ Len(full.ends) = Len(full.valid) + 1
  BY <1>1, <1>2, <1>3, SMTT(30)
<1>6. /\ full = [data |-> full.data, ends |-> full.ends, valid |-> full.valid]
      /\ full.ends \in Seq(Nat) /\ full.valid \in Seq(BOOLEAN)
  BY DEF Extends
<1>7. full.ends[1] = 0 /\ full.ends[Len(full.ends)] = full.data
  BY <1>1, <1>3, <1>4
<1> QED
  BY <1>5, <1>6, <1>7 DEF ColWhole

LEMMA ExtendedReads ==
  ASSUME NEW col, ColWhole(col), NEW values \in Seq(Values), NEW full, NEW sums,
         SumsUp(sums, values), Extends(full, col, values, sums)
  PROVE  Reads(full) = Reads(col) \o values
<1> DEFINE n == Len(col.valid)
           l == Len(values)
<1>1. /\ n \in Nat /\ l \in Nat /\ Len(col.ends) = n + 1 /\ col.data \in Nat
      /\ col.ends[n + 1] = col.data /\ DOMAIN col.valid = 1..n
      /\ DOMAIN full.valid = 1..(n + l)
  BY DEF ColWhole, Extends
<1>2. /\ sums[0] = 0 /\ \A r \in 0..l : sums[r] \in Nat
      /\ \A r \in 1..l : sums[r] = sums[r - 1] + Bytes(values[r])
  BY <1>1 DEF SumsUp
<1>3. /\ \A r \in 1..(n + 1) : full.ends[r] = col.ends[r]
      /\ \A r \in 1..n : full.valid[r] = col.valid[r]
      /\ \A r \in 1..l : full.ends[(n + 1) + r] = col.data + sums[r]
      /\ \A r \in 1..l : full.valid[n + r] = (values[r] # NoValue)
  BY <1>1 DEF Extends
<1>4. \A r \in 1..l : values[r] \in Nat \union {NoValue}
  BY DEF Values
<1> DEFINE told == Reads(col)
<1>5. told = [r \in 1..n |-> told[r]] /\ Len(told) = n
  BY <1>1 DEF Reads
<1>6. \A r \in 1..n : told[r] = IF col.valid[r] THEN col.ends[r + 1] - col.ends[r] ELSE NoValue
  BY <1>1 DEF Reads
<1>7. /\ DOMAIN Reads(full) = 1..(n + l)
      /\ Reads(full) = [r \in 1..(n + l) |-> Reads(full)[r]]
      /\ \A r \in 1..(n + l) : Reads(full)[r] =
            IF full.valid[r] THEN full.ends[r + 1] - full.ends[r] ELSE NoValue
  BY <1>1 DEF Reads
<1> DEFINE both == told \o values
<1>8. /\ both = [r \in 1..(n + l) |-> both[r]]
      /\ \A r \in 1..n : both[r] = told[r]
      /\ \A r \in 1..l : both[n + r] = values[r]
  <2> HIDE DEF told
  <2>1. told \in Seq({told[r] : r \in 1..n})
    BY <1>1, <1>5
  <2>2. values \in Seq(Values)
    OBVIOUS
  <2>3. \A r \in 1..(n + l) : both[r] = IF r <= n THEN told[r] ELSE values[r - n]
    BY <1>1, <1>5, <2>1
  <2>4. both = [r \in 1..(n + l) |-> both[r]]
    BY <1>1, <1>5, <2>1
  <2> HIDE DEF both
  <2>5. ASSUME NEW r \in 1..l PROVE both[n + r] = values[r]
    <3>1. n + r \in 1..(n + l) /\ ~(n + r <= n) /\ (n + r) - n = r
      BY <1>1
    <3> QED
      BY <2>3, <3>1
  <2>6. ASSUME NEW r \in 1..n PROVE both[r] = told[r]
    <3>1. r \in 1..(n + l) /\ r <= n
      BY <1>1
    <3> QED
      BY <2>3, <3>1
  <2> QED
    BY <2>4, <2>5, <2>6
<1> HIDE DEF n, l, told, both
<1>9. ASSUME NEW r \in 1..n PROVE Reads(full)[r] = both[r]
  <2>1. r \in 1..(n + l) /\ r \in 1..(n + 1) /\ r + 1 \in 1..(n + 1)
    BY <1>1
  <2>2. /\ full.ends[r] = col.ends[r] /\ full.ends[r + 1] = col.ends[r + 1]
        /\ full.valid[r] = col.valid[r]
    BY <1>3, <2>1
  <2>3. Reads(full)[r] = IF full.valid[r] THEN full.ends[r + 1] - full.ends[r] ELSE NoValue
    BY <1>7, <2>1
  <2>4. told[r] = IF col.valid[r] THEN col.ends[r + 1] - col.ends[r] ELSE NoValue
    BY <1>6
  <2>5. both[r] = told[r]
    BY <1>8
  <2> QED
    BY ONLY <2>2, <2>3, <2>4, <2>5
<1>10. ASSUME NEW r \in 1..l PROVE Reads(full)[n + r] = both[n + r]
  <2>1. /\ n + r \in 1..(n + l) /\ (n + r) + 1 = (n + 1) + r /\ r - 1 \in 0..l
        /\ r \in 0..l /\ n + 1 \in 1..(n + 1)
    BY <1>1
  <2>2. full.ends[n + r] = col.data + sums[r - 1]
    <3>1. CASE r = 1
      BY <1>1, <1>2, <1>3, <2>1, <3>1, SMTT(30)
    <3>2. CASE r # 1
      <4>1. r - 1 \in 1..l /\ (n + 1) + (r - 1) = n + r
        BY <1>1, <3>2
      <4>2. full.ends[(n + 1) + (r - 1)] = col.data + sums[r - 1]
        BY <1>3, <4>1
      <4> QED
        BY <4>1, <4>2
    <3> QED
      BY <3>1, <3>2
  <2>3. full.ends[(n + r) + 1] = col.data + sums[r]
    BY <1>3, <2>1
  <2>4. /\ sums[r] = sums[r - 1] + Bytes(values[r]) /\ sums[r - 1] \in Nat
        /\ sums[r] \in Nat
    BY <1>2, <2>1
  <2>5. Reads(full)[n + r] = IF values[r] # NoValue THEN full.ends[(n + r) + 1] - full.ends[n + r]
                                                  ELSE NoValue
    BY <1>3, <1>7, <2>1
  <2>6. values[r] \in Nat \union {NoValue} /\ both[n + r] = values[r]
    BY <1>4, <1>8
  <2>7. CASE values[r] = NoValue
    BY <2>5, <2>6, <2>7
  <2>8. CASE values[r] # NoValue
    <3>1. values[r] \in Nat /\ Bytes(values[r]) = values[r]
      BY <2>6, <2>8 DEF Bytes
    <3>2. (col.data + sums[r]) - (col.data + sums[r - 1]) = values[r]
      BY ONLY <1>1, <2>4, <3>1, SMTT(30)
    <3> QED
      BY <2>2, <2>3, <2>5, <2>6, <2>8, <3>2
  <2> QED
    BY <2>7, <2>8
<1>11. ASSUME NEW r \in 1..(n + l) PROVE Reads(full)[r] = both[r]
  <2>1. CASE r <= n
    <3>1. r \in 1..n
      BY <1>1, <2>1
    <3> QED
      BY <1>9, <3>1
  <2>2. CASE ~(r <= n)
    <3>1. r - n \in 1..l /\ n + (r - n) = r
      BY <1>1, <2>2
    <3>2. Reads(full)[n + (r - n)] = both[n + (r - n)]
      BY <1>10, <3>1
    <3> QED
      BY <3>1, <3>2
  <2> QED
    BY <2>1, <2>2
<1>12. Reads(full) = both
  BY <1>7, <1>8, <1>11
<1> QED
  BY <1>12 DEF both, told

Grown(full, col, values) ==
    /\ ColWhole(full) /\ Reads(full) = Reads(col) \o values
    /\ full.data = col.data + Total(values) /\ Total(values) \in Nat
    /\ Len(full.valid) = Len(col.valid) + Len(values)

LEMMA AppendsCol ==
  ASSUME NEW col, ColWhole(col), NEW values \in Seq(Values)
  PROVE  Grown(AppendCol(col, values), col, values)
<1>1. SumsUp(Sums(values), values)
  BY SumsAre
<1>2. Extends(AppendCol(col, values), col, values, Sums(values))
  BY AppendExtends
<1>3. Total(values) = Sums(values)[Len(values)] /\ Total(values) \in Nat
  <2>1. Len(values) \in 0..Len(values)
    OBVIOUS
  <2> QED
    BY <1>1, <2>1 DEF SumsUp, Total
<1>4. /\ AppendCol(col, values).data = col.data + Total(values)
      /\ Len(AppendCol(col, values).valid) = Len(col.valid) + Len(values)
  BY <1>2, <1>3 DEF Extends
<1> QED
  BY <1>1, <1>2, <1>3, <1>4, ExtendedWhole, ExtendedReads DEF Grown

LEMMA ReadsType ==
  ASSUME NEW col, ColWhole(col)
  PROVE  Reads(col) \in Seq(Int) /\ Len(Reads(col)) = Len(col.valid) /\ Len(col.valid) \in Nat
<1> DEFINE n == Len(col.valid)
<1>1. /\ n \in Nat /\ DOMAIN col.valid = 1..n /\ col.ends \in Seq(Nat)
      /\ Len(col.ends) = n + 1
  BY DEF ColWhole
<1>2. ASSUME NEW r \in 1..n PROVE Reads(col)[r] \in Int
  <2>1. col.ends[r] \in Nat /\ col.ends[r + 1] \in Nat
    BY <1>1, SMTT(30)
  <2>2. NoValue \in Int
    BY ScanTableAssumption
  <2> QED
    BY <1>1, <2>1, <2>2 DEF Reads
<1>3. Reads(col) = [r \in 1..n |-> Reads(col)[r]]
  BY <1>1 DEF Reads
<1>4. Reads(col) \in [1..n -> Int]
  BY <1>2, <1>3
<1> HIDE DEF n
<1>5. Reads(col) \in Seq(Int) /\ Len(Reads(col)) = n
  BY <1>1, <1>4
<1> QED
  BY <1>1, <1>5 DEF n

LEMMA EmptyBatch ==
  /\ BatchWhole(NewCols)
  /\ \A name \in Names : Told(NewCols, name) = <<>> /\ NewCols[name].data = 0
<1>1. ColWhole(NewCol) /\ Reads(NewCol) = <<>> /\ Len(NewCol.valid) = 0 /\ NewCol.data = 0
  BY DEF ColWhole, NewCol, Reads
<1>2. \A name \in Names : NewCols[name] = NewCol
  BY DEF NewCols
<1>3. NewCols = [name \in Names |-> NewCols[name]] /\ "key" \in Names
  BY DEF NewCols, Names
<1> QED
  BY <1>1, <1>2, <1>3 DEF BatchWhole, Told, Reads

(* A batch without rows has no data.                                       *)
LEMMA NoRows ==
  ASSUME NEW batch, BatchWhole(batch), Len(batch["key"].valid) = 0, NEW name \in Names
  PROVE  Told(batch, name) = <<>> /\ batch[name].data = 0
<1>1. ColWhole(batch[name]) /\ Len(batch[name].valid) = 0
  BY DEF BatchWhole
<1>2. batch[name].data = 0
  BY <1>1 DEF ColWhole
<1>3. Reads(batch[name]) = <<>>
  BY <1>1, ReadsType
<1> QED
  BY <1>2, <1>3 DEF Told, Reads

-----------------------------------------------------------------------------
(* What a reader takes for a column, when a batch or a chunk is added.     *)
ValuesFrom(chunks, name) == Joined([d \in DOMAIN chunks |-> ValuesOf(chunks[d], name)])

(* The elements of a list and one more.                                    *)
OneLonger(more, lists, list, n) ==
    /\ more = [b \in 1..(n + 1) |-> more[b]] /\ more[n + 1] = list
    /\ \A b \in 1..n : more[b] = lists[b]

LEMMA OneMore ==
  ASSUME NEW S, NEW lists \in Seq(S), NEW list \in S, NEW n, Len(lists) = n, NEW more,
         OneLonger(more, lists, list, n)
  PROVE  more = Append(lists, list)
<1> USE DEF OneLonger
<1>1. /\ n \in Nat /\ Append(lists, list) \in Seq(S) /\ Len(Append(lists, list)) = n + 1
      /\ Append(lists, list)[n + 1] = list /\ \A b \in 1..n : Append(lists, list)[b] = lists[b]
  BY AppendProperties
<1>2. Append(lists, list) = [b \in 1..(n + 1) |-> Append(lists, list)[b]]
  <2> DEFINE s == Append(lists, list)
  <2> HIDE DEF s
  <2>1. s \in Seq(S) /\ Len(s) = n + 1
    BY <1>1 DEF s
  <2>2. s = [b \in 1..(n + 1) |-> s[b]]
    BY <2>1
  <2> QED
    BY <2>2 DEF s
<1>3. ASSUME NEW b \in 1..(n + 1) PROVE more[b] = Append(lists, list)[b]
  <2>1. CASE b = n + 1
    BY <1>1, <2>1
  <2>2. CASE b # n + 1
    <3>1. b \in 1..n
      BY <1>1, <2>2
    <3> QED
      BY <1>1, <3>1
  <2> QED
    BY <2>1, <2>2
<1> QED
  BY <1>2, <1>3

LEMMA ReadMore ==
  ASSUME NEW S, NEW tables \in Seq(S), \A b \in DOMAIN tables : BatchWhole(tables[b]),
         NEW batch, BatchWhole(batch), NEW name \in Names
  PROVE  /\ ReadFrom(Append(tables, batch), name) = ReadFrom(tables, name) \o Told(batch, name)
         /\ ReadFrom(tables, name) \in Seq(Int) /\ Told(batch, name) \in Seq(Int)
<1> DEFINE n == Len(tables)
           lists == [b \in DOMAIN tables |-> Told(tables[b], name)]
           more == [b \in DOMAIN Append(tables, batch) |-> Told(Append(tables, batch)[b], name)]
           list == Told(batch, name)
<1>1. n \in Nat /\ DOMAIN tables = 1..n
  OBVIOUS
<1>2. \A b \in 1..n : Told(tables[b], name) \in Seq(Int)
  BY <1>1, ReadsType DEF BatchWhole, Told, Reads
<1>3. list \in Seq(Int)
  BY ReadsType DEF BatchWhole, Told, Reads
<1>4. lists \in Seq(Seq(Int)) /\ Len(lists) = n
  <2>1. lists \in [1..n -> Seq(Int)]
    BY <1>1, <1>2
  <2> HIDE DEF lists, n
  <2> QED
    BY <1>1, <2>1
<1>5. more = Append(lists, list)
  <2> DEFINE longer == Append(tables, batch)
  <2>1. /\ DOMAIN longer = 1..(n + 1) /\ longer[n + 1] = batch
        /\ \A b \in 1..n : longer[b] = tables[b]
    BY <1>1
  <2>2. DOMAIN more = 1..(n + 1) /\ more = [b \in 1..(n + 1) |-> Told(longer[b], name)]
    BY <2>1
  <2>3. \A b \in 1..n : lists[b] = Told(tables[b], name)
    BY <1>1
  <2> HIDE DEF longer, more, lists, n
  <2>4. more[n + 1] = list /\ \A b \in 1..n : more[b] = lists[b]
    <3>1. n + 1 \in 1..(n + 1) /\ \A b \in 1..n : b \in 1..(n + 1)
      BY <1>1
    <3> QED
      BY <2>1, <2>2, <2>3, <3>1
  <2>5. more = [b \in 1..(n + 1) |-> more[b]]
    BY <2>2
  <2>6. OneLonger(more, lists, list, n)
    BY <2>4, <2>5, Zenon DEF OneLonger
  <2> HIDE DEF list
  <2> QED
    BY <1>3, <1>4, <2>6, OneMore
<1> HIDE DEF lists, list, more
<1>6. Joined(more) = Joined(lists) \o list /\ Joined(lists) \in Seq(Int)
  BY <1>3, <1>4, <1>5, JoinedMore
<1> QED
  BY <1>3, <1>6 DEF ReadFrom, lists, list, more

LEMMA ValuesMore ==
  ASSUME NEW chunks \in Seq(Chunks), NEW chunk \in Chunks, NEW name \in Names
  PROVE  ValuesFrom(Append(chunks, chunk), name) = ValuesFrom(chunks, name) \o ValuesOf(chunk, name)
<1> DEFINE n == Len(chunks)
           lists == [d \in DOMAIN chunks |-> ValuesOf(chunks[d], name)]
           more == [d \in DOMAIN Append(chunks, chunk) |-> ValuesOf(Append(chunks, chunk)[d], name)]
           list == ValuesOf(chunk, name)
<1>1. n \in Nat /\ DOMAIN chunks = 1..n
  OBVIOUS
<1>2. \A d \in 1..n : ValuesOf(chunks[d], name) \in Seq(Values)
  BY <1>1, ChunkValues
<1>3. list \in Seq(Values)
  BY ChunkValues
<1>4. lists \in Seq(Seq(Values)) /\ Len(lists) = n
  <2>1. lists \in [1..n -> Seq(Values)]
    BY <1>1, <1>2
  <2> HIDE DEF lists, n
  <2> QED
    BY <1>1, <2>1
<1>5. more = Append(lists, list)
  <2> DEFINE longer == Append(chunks, chunk)
  <2>1. /\ DOMAIN longer = 1..(n + 1) /\ longer[n + 1] = chunk
        /\ \A b \in 1..n : longer[b] = chunks[b]
    BY <1>1
  <2>2. DOMAIN more = 1..(n + 1) /\ more = [d \in 1..(n + 1) |-> ValuesOf(longer[d], name)]
    BY <2>1
  <2>3. \A b \in 1..n : lists[b] = ValuesOf(chunks[b], name)
    BY <1>1
  <2> HIDE DEF longer, more, lists, n
  <2>4. more[n + 1] = list /\ \A b \in 1..n : more[b] = lists[b]
    <3>1. n + 1 \in 1..(n + 1) /\ \A b \in 1..n : b \in 1..(n + 1)
      BY <1>1
    <3> QED
      BY <2>1, <2>2, <2>3, <3>1
  <2>5. more = [b \in 1..(n + 1) |-> more[b]]
    BY <2>2
  <2>6. OneLonger(more, lists, list, n)
    BY <2>4, <2>5, Zenon DEF OneLonger
  <2> HIDE DEF list
  <2> QED
    BY <1>3, <1>4, <2>6, OneMore
<1> HIDE DEF lists, list, more
<1>6. Joined(more) = Joined(lists) \o list
  BY <1>3, <1>4, <1>5, JoinedMore
<1> QED
  BY <1>6 DEF ValuesFrom, lists, list, more

-----------------------------------------------------------------------------
(* The table, step by step.                                                *)

(* The chunk's values at the end of every column.                          *)
FullOf(base, chunk) == [name \in Names |-> AppendCol(base[name], ValuesOf(chunk, name))]

LEMMA FullWhole ==
  ASSUME NEW base, BatchWhole(base), NEW chunk \in Chunks
  PROVE  /\ BatchWhole(FullOf(base, chunk))
         /\ \A name \in Names :
              /\ Told(FullOf(base, chunk), name) = Told(base, name) \o ValuesOf(chunk, name)
              /\ FullOf(base, chunk)[name].data = base[name].data + Total(ValuesOf(chunk, name))
              /\ Total(ValuesOf(chunk, name)) \in Nat
<1> DEFINE full == FullOf(base, chunk)
<1>1. ASSUME NEW name \in Names
      PROVE  /\ ColWhole(full[name]) /\ Reads(full[name]) = Reads(base[name]) \o ValuesOf(chunk, name)
             /\ full[name].data = base[name].data + Total(ValuesOf(chunk, name))
             /\ Total(ValuesOf(chunk, name)) \in Nat
             /\ Len(full[name].valid) = Len(base["key"].valid) + Len(chunk.rows)
  <2>1. /\ ColWhole(base[name]) /\ Len(base[name].valid) = Len(base["key"].valid)
        /\ full[name] = AppendCol(base[name], ValuesOf(chunk, name))
    BY DEF BatchWhole, FullOf
  <2>2. ValuesOf(chunk, name) \in Seq(Values) /\ Len(ValuesOf(chunk, name)) = Len(chunk.rows)
    BY ChunkValues
  <2> HIDE DEF full
  <2>3. Grown(full[name], base[name], ValuesOf(chunk, name))
    BY <2>1, <2>2, AppendsCol
  <2> QED
    BY <2>1, <2>2, <2>3 DEF Grown
<1>2. full = [name \in Names |-> full[name]] /\ "key" \in Names
  BY DEF FullOf, Names
<1> HIDE DEF full
<1>3. BatchWhole(full)
  BY <1>1, <1>2 DEF BatchWhole
<1> QED
  BY <1>1, <1>3 DEF full, Told, Reads

(* What an appended chunk leaves of the limit: it has the batch alone, or   *)
(* the columns kept to the limit with it, and metadata without it.         *)
Roomed(name, d, t) ==
    d \in Nat /\ t \in Nat /\ (d = 0 \/ (IF name = "meta" THEN d <= Limit ELSE d + t <= Limit))

LEMMA CutLeaves ==
  ASSUME BatchWhole(cols), NEW chunk \in Chunks, NEW name \in Names,
         NEW base, base = (IF Cuts(chunk) THEN NewCols ELSE cols)
  PROVE  Roomed(name, base[name].data, Total(ValuesOf(chunk, name)))
<1> DEFINE t == Total(ValuesOf(chunk, name))
           d == base[name].data
<1>1. t \in Nat /\ Limit \in Nat
  BY FullWhole, ScanTableAssumption
<1>2. d \in Nat /\ (d = 0 \/ (IF name = "meta" THEN d <= Limit ELSE d + t <= Limit))
  <2>1. CASE Cuts(chunk)
    BY <2>1, EmptyBatch
  <2>2. CASE ~Cuts(chunk)
    <3>1. /\ d = cols[name].data /\ d \in Nat
          /\ Len(cols["key"].valid) \in Nat /\ RowsInBatch = Len(cols["key"].valid)
      BY <2>2 DEF BatchWhole, ColWhole, RowsInBatch, Names
    <3>2. CASE RowsInBatch = 0
      BY <3>1, <3>2, NoRows
    <3>3. CASE RowsInBatch # 0
      <4>1. RowsInBatch > 0
        BY <3>1, <3>3
      <4>2. ~(\E other \in Names \ {"meta"} :
                cols[other].data + Total(ValuesOf(chunk, other)) > Limit)
        BY <2>2, <4>1 DEF Cuts
      <4>3. ~(cols["meta"].data > Limit)
        BY <2>2, <4>1 DEF Cuts
      <4>4. CASE name = "meta"
        <5>1. ~(d > Limit)
          BY <3>1, <4>3, <4>4
        <5> QED
          BY <1>1, <3>1, <4>4, <5>1
      <4>5. CASE name # "meta"
        <5>1. ~(d + t > Limit)
          BY <3>1, <4>2, <4>5
        <5> HIDE DEF d, t
        <5>2. d + t <= Limit
          BY ONLY <1>1, <3>1, <5>1
        <5> QED
          BY <3>1, <4>5, <5>2
      <4> QED
        BY <4>4, <4>5
    <3> QED
      BY <3>2, <3>3
  <2> QED
    BY <2>1, <2>2
<1> QED
  BY <1>1, <1>2 DEF Roomed

(* A chunk in a batch of its own, and one that the cut let in.             *)
LEMMA FullBounded ==
  ASSUME BatchWhole(cols), NEW chunk \in Chunks,
         NEW base, base = (IF Cuts(chunk) THEN NewCols ELSE cols)
  PROVE  /\ \/ \A name \in Names \ {"meta"} : FullOf(base, chunk)[name].data <= Limit
            \/ OfOne(FullOf(base, chunk), chunk)
         /\ FullOf(base, chunk)["meta"].data <= Limit + Total(ValuesOf(chunk, "meta"))
<1> DEFINE full == FullOf(base, chunk)
           t(name) == Total(ValuesOf(chunk, name))
<1>1. /\ BatchWhole(base) /\ Limit \in Nat /\ "meta" \in Names
      /\ Len(cols["key"].valid) \in Nat /\ RowsInBatch = Len(cols["key"].valid)
  <2>1. BatchWhole(base)
    BY EmptyBatch
  <2>2. "key" \in Names /\ "meta" \in Names
    BY DEF Names
  <2>3. ColWhole(cols["key"])
    BY <2>2 DEF BatchWhole
  <2> QED
    BY <2>1, <2>2, <2>3, ScanTableAssumption DEF ColWhole, RowsInBatch
<1>2. ASSUME NEW name \in Names
      PROVE  /\ Told(full, name) = Told(base, name) \o ValuesOf(chunk, name)
             /\ full[name].data = base[name].data + t(name) /\ t(name) \in Nat
             /\ base[name].data \in Nat /\ ValuesOf(chunk, name) \in Seq(Values)
  <2>1. ColWhole(base[name])
    BY <1>1 DEF BatchWhole
  <2>2. base[name].data \in Nat
    BY <2>1 DEF ColWhole
  <2> QED
    BY <1>1, <2>2, FullWhole, ChunkValues
<1> HIDE DEF full, t
<1>3. CASE Cuts(chunk) \/ ~(RowsInBatch > 0)
  <2>1. \A name \in Names : Told(base, name) = <<>> /\ base[name].data = 0
    <3>1. CASE Cuts(chunk)
      BY <3>1, EmptyBatch
    <3>2. CASE ~Cuts(chunk)
      <4>1. Len(cols["key"].valid) = 0 /\ base = cols
        BY <1>1, <1>3, <3>2
      <4> QED
        BY <4>1, NoRows
    <3> QED
      BY <3>1, <3>2
  <2>2. ASSUME NEW name \in Names PROVE Told(full, name) = ValuesOf(chunk, name)
    <3>1. Told(full, name) = <<>> \o ValuesOf(chunk, name) /\ ValuesOf(chunk, name) \in Seq(Values)
      BY <1>2, <2>1
    <3> QED
      BY <3>1
  <2>3. full["meta"].data <= Limit + t("meta")
    <3> DEFINE d == full["meta"].data
               m == t("meta")
    <3>1. d = 0 + m /\ m \in Nat
      BY <1>1, <1>2, <2>1
    <3> HIDE DEF d, m
    <3>2. d <= Limit + m
      BY <1>1, <3>1
    <3> QED
      BY <3>2 DEF d, m
  <2> QED
    BY <2>2, <2>3 DEF OfOne, full, t
<1>4. CASE ~Cuts(chunk) /\ RowsInBatch > 0
  <2>1. base = cols /\ ~(cols["meta"].data > Limit)
    BY <1>4 DEF Cuts
  <2>2. ASSUME NEW name \in Names \ {"meta"} PROVE full[name].data <= Limit
    <3> DEFINE d == base[name].data
               m == t(name)
    <3>1. ~(d + m > Limit)
      BY <1>4, <2>1 DEF Cuts, t
    <3>2. full[name].data = d + m /\ d \in Nat /\ m \in Nat
      BY <1>2
    <3> HIDE DEF d, m
    <3>3. d + m <= Limit
      BY <1>1, <3>1, <3>2
    <3> QED
      BY <3>2, <3>3
  <2>3. full["meta"].data <= Limit + t("meta")
    BY <1>1, <1>2, <2>1
  <2> QED
    BY <2>2, <2>3 DEF full, t
<1> QED
  BY <1>3, <1>4

(* Why a document may fail a scan.                                         *)
LEMMA FailsRight ==
  ASSUME NEW chunk, NEW name \in Names, NEW d,
         Roomed(name, d, Total(ValuesOf(chunk, name))),
         d + Total(ValuesOf(chunk, name)) > Ceiling
  PROVE  FailsFor(chunk)
<1> DEFINE t == Total(ValuesOf(chunk, name))
<1>1. /\ t \in Nat /\ d \in Nat /\ Limit \in Nat /\ Ceiling \in Nat /\ d + t > Ceiling
      /\ d = 0 \/ (IF name = "meta" THEN d <= Limit ELSE d + t <= Limit)
  BY ScanTableAssumption DEF Roomed
<1> HIDE DEF t
<1>2. CASE d = 0
  <2>1. t > Ceiling
    BY ONLY <1>1, <1>2
  <2> QED
    BY <2>1 DEF FailsFor, t
<1>3. CASE d # 0 /\ name = "meta"
  <2>1. d <= Limit
    BY ONLY <1>1, <1>3
  <2>2. Limit + t > Ceiling
    BY ONLY <1>1, <2>1
  <2> QED
    BY <1>3, <2>2 DEF FailsFor, t
<1>4. CASE d # 0 /\ name # "meta"
  <2>1. d + t <= Limit
    BY ONLY <1>1, <1>4
  <2>2. Limit > Ceiling
    BY ONLY <1>1, <2>1
  <2> QED
    BY <2>2 DEF FailsFor
<1> QED
  BY <1>2, <1>3, <1>4

(* What was within bounds stays so when a document more is appended.       *)
LEMMA StaysBounded ==
  ASSUME NEW batch, NEW chunks \in Seq(Chunks), NEW chunk \in Chunks, Bounded(batch, chunks)
  PROVE  Bounded(batch, Append(chunks, chunk))
<1> DEFINE more == Append(chunks, chunk)
<1>1. \A d \in DOMAIN chunks : d \in DOMAIN more /\ more[d] = chunks[d]
  OBVIOUS
<1> HIDE DEF more
<1>2. \/ \A name \in Names \ {"meta"} : batch[name].data <= Limit
      \/ \E d \in DOMAIN more : OfOne(batch, more[d])
  BY <1>1, Zenon DEF Bounded
<1>3. \E d \in DOMAIN more : batch["meta"].data <= Limit + Total(ValuesOf(more[d], "meta"))
  BY <1>1, Zenon DEF Bounded
<1> QED
  BY <1>2, <1>3 DEF Bounded, more

(* The invariant but for the failure, with what is told so far.            *)
TableTypes == BatchWhole(cols) /\ BatchesWhole(batches) /\ appended \in Seq(Chunks)

LEMMA BatchAdded ==
  ASSUME NEW tables, NEW batch, BatchWhole(batch), BatchesWhole(tables)
  PROVE  BatchesWhole(Append(tables, batch))
<1> DEFINE S == {tables[b] : b \in DOMAIN tables}
           T == S \union {batch}
           more == Append(tables, batch)
           n == Len(tables)
<1>1. tables \in Seq(T)
  <2>1. tables \in Seq(S) /\ S \subseteq T
    BY DEF BatchesWhole
  <2> HIDE DEF S, T
  <2> QED
    BY <2>1
<1>2. /\ n \in Nat /\ DOMAIN tables = 1..n /\ more \in Seq(T) /\ DOMAIN more = 1..(n + 1)
      /\ more[n + 1] = batch /\ \A b \in 1..n : more[b] = tables[b]
      /\ Len(more) = n + 1
  <2>1. batch \in T
    OBVIOUS
  <2> HIDE DEF T
  <2> QED
    BY <1>1, <2>1
<1>3. ASSUME NEW b \in DOMAIN more PROVE BatchWhole(more[b])
  <2>1. CASE b = n + 1
    BY <1>2, <2>1
  <2>2. CASE b # n + 1
    <3>1. b \in 1..n
      BY <1>2, <2>2
    <3> QED
      BY <1>2, <3>1 DEF BatchesWhole
  <2> QED
    BY <2>1, <2>2
<1>4. more \in Seq({more[b] : b \in DOMAIN more})
  <2> HIDE DEF more, T, S
  <2>1. more = [b \in 1..(n + 1) |-> more[b]] /\ n + 1 \in Nat
    BY <1>2
  <2> DEFINE R == {more[b] : b \in DOMAIN more}
  <2>2. \A b \in 1..(n + 1) : more[b] \in R
    BY <1>2
  <2> HIDE DEF R
  <2>3. more \in [1..(n + 1) -> R]
    BY <2>1, <2>2
  <2>4. more \in Seq(R)
    BY <2>1, <2>3
  <2> QED
    BY <2>4 DEF R
<1> QED
  BY <1>3, <1>4 DEF BatchesWhole

LEMMA WiderSeq ==
  ASSUME NEW S, NEW T, S \subseteq T, NEW s \in Seq(S)
  PROVE  s \in Seq(T)
  OBVIOUS

LEMMA AppendKeeps ==
  ASSUME TableInv, AppendChunk
  PROVE  TableInv'
<1>1. PICK chunk \in Chunks :
        /\ batches' = IF Cuts(chunk) THEN Append(batches, cols) ELSE batches
        /\ cols' = FullOf(IF Cuts(chunk) THEN NewCols ELSE cols, chunk)
        /\ appended' = Append(appended, chunk)
        /\ scan' = IF \E name \in Names :
                        FullOf(IF Cuts(chunk) THEN NewCols ELSE cols, chunk)[name].data > Ceiling
                    THEN "failed" ELSE scan
  BY Zenon DEF AppendChunk, FullOf
<1> DEFINE base == IF Cuts(chunk) THEN NewCols ELSE cols
           full == FullOf(base, chunk)
           late == IF Cuts(chunk) THEN Append(batches, cols) ELSE batches
           v(name) == ValuesOf(chunk, name)
<1>2. /\ scan = "building" /\ TableTypes
      /\ \A name \in Names : ReadFrom(batches, name) \o Told(cols, name) = ValuesFrom(appended, name)
  BY DEF TableInv, TableTypes, AppendChunk, Expected, ValuesFrom
<1>3. BatchWhole(base) /\ BatchWhole(cols)
  BY <1>2, EmptyBatch DEF TableTypes
<1> HIDE DEF base
<1>4. /\ BatchWhole(full)
      /\ \A name \in Names :
            /\ Told(full, name) = Told(base, name) \o ValuesOf(chunk, name)
            /\ full[name].data = base[name].data + Total(ValuesOf(chunk, name))
            /\ Total(ValuesOf(chunk, name)) \in Nat
  BY <1>3, FullWhole
<1>5. BatchesWhole(late)
  <2>1. CASE Cuts(chunk)
    BY <1>2, <2>1, BatchAdded DEF TableTypes
  <2>2. CASE ~Cuts(chunk)
    BY <1>2, <2>2 DEF TableTypes
  <2> QED
    BY <2>1, <2>2
<1>6. ASSUME NEW name \in Names
      PROVE  ReadFrom(late, name) \o Told(full, name) = ValuesFrom(Append(appended, chunk), name)
  <2> DEFINE S == {batches[b] : b \in DOMAIN batches}
             read == ReadFrom(batches, name)
             now == Told(cols, name)
             w == v(name)
  <2>1. /\ ReadFrom(Append(batches, cols), name) = read \o now
        /\ read \in Seq(Int) /\ now \in Seq(Int)
    <3>1. batches \in Seq(S) /\ \A b \in DOMAIN batches : BatchWhole(batches[b])
      BY <1>2 DEF TableTypes, BatchesWhole
    <3> HIDE DEF S
    <3> QED
      BY <1>3, <3>1, ReadMore
  <2>2. w \in Seq(Int)
    <3>1. w \in Seq(Values) /\ Values \subseteq Int
      BY ChunkValues, ScanTableAssumption DEF Values
    <3> HIDE DEF w
    <3> QED
      BY <3>1, WiderSeq
  <2>3. ValuesFrom(Append(appended, chunk), name) = (read \o now) \o w
    <3>1. ValuesFrom(Append(appended, chunk), name) = ValuesFrom(appended, name) \o w
      BY <1>2, ValuesMore DEF TableTypes
    <3> QED
      BY <1>2, <3>1
  <2>4. Told(full, name) = Told(base, name) \o w
    BY <1>4
  <2> HIDE DEF read, now, w, full, late
  <2>5. CASE Cuts(chunk)
    <3>1. ReadFrom(late, name) = read \o now /\ Told(base, name) = <<>>
      BY <2>1, <2>5, EmptyBatch DEF late, base
    <3>2. <<>> \o w = w
      BY <2>2
    <3> QED
      BY <2>3, <2>4, <3>1, <3>2
  <2>6. CASE ~Cuts(chunk)
    <3>1. ReadFrom(late, name) = read /\ Told(base, name) = now
      BY <2>6 DEF late, base, read, now
    <3>2. read \o (now \o w) = (read \o now) \o w
      BY ONLY <2>1, <2>2, ConcatAssociative, SMTT(30)
    <3> QED
      BY <2>3, <2>4, <3>1, <3>2
  <2> QED
    BY <2>5, <2>6
<1>7. /\ Append(appended, chunk) \in Seq(Chunks) /\ Last(Append(appended, chunk)) = chunk
  BY <1>2 DEF TableTypes, Last
<1>8. /\ (\E name \in Names : full[name].data > Ceiling) => FailsFor(chunk)
      /\ \A name \in Names : Roomed(name, base[name].data, Total(v(name)))
  <2>1. \A name \in Names : Roomed(name, base[name].data, Total(ValuesOf(chunk, name)))
    BY <1>3, CutLeaves DEF base
  <2> HIDE DEF full
  <2> QED
    BY <1>4, <2>1, FailsRight
<1>9. /\ batches' = late /\ cols' = full /\ appended' = Append(appended, chunk)
      /\ scan' \in {"building", "failed"}
      /\ scan' = "failed" => \E name \in Names : full[name].data > Ceiling
  BY <1>1, <1>2 DEF base
<1> HIDE DEF full, late
<1>10. BatchWhole(cols)' /\ BatchesWhole(batches)' /\ (appended \in Seq(Chunks))'
  BY <1>4, <1>5, <1>7, <1>9, ZenonT(40) DEF BatchesWhole, BatchWhole, ColWhole
<1>11. (\A name \in Names : ReadFrom(batches, name) \o Told(cols, name) = Expected(name))'
  BY <1>6, <1>9, Zenon DEF ReadFrom, Told, Expected, ValuesFrom
<1>12. (scan = "failed" => FailsFor(Last(appended)))'
  BY <1>7, <1>8, <1>9 DEF FailsFor
<1>13. Bounded(full, Append(appended, chunk))
  <2>1. /\ \/ \A name \in Names \ {"meta"} : full[name].data <= Limit
           \/ OfOne(full, chunk)
        /\ full["meta"].data <= Limit + Total(ValuesOf(chunk, "meta"))
    BY <1>3, FullBounded DEF base, full
  <2> DEFINE more == Append(appended, chunk)
             n == Len(appended) + 1
  <2>2. n \in DOMAIN more /\ more[n] = chunk
    BY <1>2, AppendProperties DEF TableTypes
  <2> HIDE DEF more, n
  <2> QED
    BY <2>1, <2>2, Zenon DEF Bounded, more
<1> HIDE DEF base
<1>14. ASSUME NEW b \in DOMAIN late PROVE Bounded(late[b], Append(appended, chunk))
  <2> DEFINE S == {batches[e] : e \in DOMAIN batches} \union {cols}
  <2>1. /\ appended \in Seq(Chunks)
        /\ RowsInBatch > 0 => Bounded(cols, appended)
        /\ \A e \in DOMAIN batches : Bounded(batches[e], appended)
        /\ chunk \in Chunks
    BY <1>2 DEF TableInv, TableTypes
  <2>2. batches \in Seq(S) /\ cols \in S
    <3>1. batches \in Seq({batches[e] : e \in DOMAIN batches})
      BY <1>2 DEF TableTypes, BatchesWhole
    <3> DEFINE R == {batches[e] : e \in DOMAIN batches}
    <3>2. batches \in Seq(R) /\ R \subseteq S
      BY <3>1
    <3> HIDE DEF R, S
    <3>3. batches \in Seq(S)
      BY <3>2, WiderSeq
    <3> QED
      BY <3>3 DEF S
  <2> HIDE DEF S
  <2>3. Bounded(late[b], appended)
    <3>1. CASE Cuts(chunk)
      <4>1. late = Append(batches, cols) /\ RowsInBatch > 0
        BY <3>1 DEF late, Cuts
      <4>2. late[b] = cols \/ (b \in DOMAIN batches /\ late[b] = batches[b])
        BY <2>2, <4>1
      <4> QED
        <5>1. CASE late[b] = cols
          BY <2>1, <4>1, <5>1
        <5>2. CASE b \in DOMAIN batches /\ late[b] = batches[b]
          <6>1. Bounded(batches[b], appended)
            BY <2>1, <5>2
          <6> QED
            BY <5>2, <6>1
        <5> QED
          BY <4>2, <5>1, <5>2
    <3>2. CASE ~Cuts(chunk)
      BY <2>1, <3>2 DEF late
    <3> QED
      BY <3>1, <3>2
  <2> DEFINE batch == late[b]
  <2> HIDE DEF batch
  <2>4. Bounded(batch, appended)
    BY <2>3 DEF batch
  <2>5. Bounded(batch, Append(appended, chunk))
    <3>1. appended \in Seq(Chunks) /\ chunk \in Chunks
      BY <2>1
    <3> QED
      BY ONLY <2>4, <3>1, StaysBounded, Zenon
  <2> QED
    BY <2>5 DEF batch
<1>15. (/\ \A b \in DOMAIN batches : Bounded(batches[b], appended)
        /\ RowsInBatch > 0 => Bounded(cols, appended))'
  <2>1. Bounded(cols', appended') /\ \A b \in DOMAIN batches' : Bounded(batches'[b], appended')
    BY <1>9, <1>13, <1>14
  <2>2. Bounded(cols, appended)'
    BY <2>1, ZenonT(40) DEF Bounded, OfOne, Told
  <2>3. (\A b \in DOMAIN batches : Bounded(batches[b], appended))'
    BY <2>1, ZenonT(40) DEF Bounded, OfOne, Told
  <2> QED
    BY <2>2, <2>3
<1> QED
  BY <1>9, <1>10, <1>11, <1>12, <1>15 DEF TableInv

LEMMA FinishKeeps ==
  ASSUME TableInv, FinishTable
  PROVE  TableInv'
<1> DEFINE late == IF RowsInBatch > 0 THEN Append(batches, cols) ELSE batches
<1>1. /\ batches' = late /\ cols' = NewCols /\ appended' = appended /\ scan' = "done"
  BY DEF FinishTable
<1>2. /\ BatchWhole(cols) /\ BatchesWhole(batches)
      /\ \A name \in Names : ReadFrom(batches, name) \o Told(cols, name) = Expected(name)
      /\ appended \in Seq(Chunks)
  BY DEF TableInv
<1>3. BatchesWhole(late)
  BY <1>2, BatchAdded
<1>4. ASSUME NEW name \in Names PROVE ReadFrom(late, name) \o <<>> = Expected(name)
  <2> DEFINE S == {batches[b] : b \in DOMAIN batches}
             read == ReadFrom(batches, name)
             now == Told(cols, name)
  <2>1. /\ ReadFrom(Append(batches, cols), name) = read \o now
        /\ read \in Seq(Int) /\ now \in Seq(Int)
    <3>1. batches \in Seq(S) /\ \A b \in DOMAIN batches : BatchWhole(batches[b])
      BY <1>2 DEF BatchesWhole
    <3> HIDE DEF S
    <3> QED
      BY <1>2, <3>1, ReadMore
  <2>2. read \o now = Expected(name)
    BY <1>2
  <2>3. CASE RowsInBatch > 0
    <3>1. ReadFrom(late, name) = read \o now
      BY <2>1, <2>3
    <3> HIDE DEF read, now, late
    <3>2. (read \o now) \o <<>> = read \o now
      <4>1. read \o now \in Seq(Int)
        BY <2>1
      <4> QED
        BY <4>1
    <3> QED
      BY <2>2, <3>1, <3>2
  <2>4. CASE ~(RowsInBatch > 0)
    <3>1. Len(cols["key"].valid) \in Nat /\ RowsInBatch = Len(cols["key"].valid)
      BY <1>2 DEF BatchWhole, ColWhole, RowsInBatch, Names
    <3>2. now = <<>>
      BY <1>2, <2>4, <3>1, NoRows
    <3>3. ReadFrom(late, name) = read
      BY <2>4
    <3> QED
      BY <2>2, <3>2, <3>3
  <2> QED
    BY <2>3, <2>4
<1> HIDE DEF late
<1>5. BatchWhole(NewCols) /\ \A name \in Names : Told(NewCols, name) = <<>>
  BY EmptyBatch
<1>6. BatchWhole(cols)'
  BY <1>1, <1>5 DEF BatchWhole, ColWhole
<1>7. BatchesWhole(batches)'
  BY <1>1, <1>3, Zenon DEF BatchesWhole, BatchWhole, ColWhole
<1>8. (\A name \in Names : ReadFrom(batches, name) \o Told(cols, name) = Expected(name))'
  BY <1>1, <1>4, <1>5, Zenon DEF ReadFrom, Told, Expected
<1>9. appended' \in Seq(Chunks)
  BY <1>1, <1>2
<1>10. ASSUME NEW b \in DOMAIN batches' PROVE Bounded(batches'[b], appended)
  <2> DEFINE S == {batches[e] : e \in DOMAIN batches}
  <2>1. /\ batches \in Seq(S) /\ \A e \in DOMAIN batches : Bounded(batches[e], appended)
        /\ RowsInBatch > 0 => Bounded(cols, appended)
    BY <1>2 DEF TableInv, BatchesWhole
  <2> HIDE DEF S
  <2>2. CASE RowsInBatch > 0
    <3>1. batches' = Append(batches, cols)
      BY <1>1, <2>2 DEF late
    <3>2. batches'[b] = cols \/ (b \in DOMAIN batches /\ batches'[b] = batches[b])
      <4>1. batches \in Seq(S \union {cols}) /\ cols \in S \union {cols}
        BY <2>1, WiderSeq
      <4> QED
        BY <3>1, <4>1
    <3> QED
      BY <2>1, <2>2, <3>2
  <2>3. CASE ~(RowsInBatch > 0)
    BY <1>1, <2>1, <2>3 DEF late
  <2> QED
    BY <2>2, <2>3
<1>11. (/\ \A b \in DOMAIN batches : Bounded(batches[b], appended)
        /\ RowsInBatch > 0 => Bounded(cols, appended))'
  <2>1. ~(RowsInBatch > 0)'
    BY <1>1 DEF RowsInBatch, NewCols, NewCol, Names
  <2>2. (\A b \in DOMAIN batches : Bounded(batches[b], appended))'
    BY <1>1, <1>10, Zenon DEF Bounded, OfOne, Told
  <2> QED
    BY <2>1, <2>2
<1> QED
  BY <1>1, <1>6, <1>7, <1>8, <1>9, <1>11 DEF TableInv

LEMMA TableHeld ==
  ASSUME TableInv, UNCHANGED <<cols, batches, appended>>,
         scan' = scan \/ (scan = "idle" /\ scan' = "building")
  PROVE  TableInv'
<1>1. BatchWhole(cols)' /\ (appended \in Seq(Chunks))' /\ BatchesWhole(batches)'
  BY ZenonT(40) DEF TableInv, BatchesWhole, BatchWhole, ColWhole
<1>2. (\A name \in Names : ReadFrom(batches, name) \o Told(cols, name) = Expected(name))'
  BY Zenon DEF TableInv, ReadFrom, Told, Expected
<1>3. /\ scan' \in {"idle", "building", "done", "failed"}
      /\ scan' \in {"idle", "done"} => cols' = NewCols
      /\ scan' = "failed" => scan = "failed"
  BY DEF TableInv
<1>4. (\A b \in DOMAIN batches : Bounded(batches[b], appended))'
  <2>1. \A b \in DOMAIN batches' : Bounded(batches'[b], appended')
    BY Zenon DEF TableInv
  <2> QED
    BY <2>1, ZenonT(40) DEF Bounded, OfOne, Told
<1>5. (RowsInBatch > 0 => Bounded(cols, appended))'
  <2>1. RowsInBatch' = RowsInBatch
    BY DEF RowsInBatch
  <2>2. RowsInBatch' > 0 => Bounded(cols', appended')
    BY <2>1, Zenon DEF TableInv
  <2>3. Bounded(cols', appended') => Bounded(cols, appended)'
    BY ZenonT(40) DEF Bounded, OfOne, Told
  <2> QED
    BY <2>2, <2>3
<1>6. (scan = "failed" => FailsFor(Last(appended)))'
  BY <1>3 DEF TableInv, FailsFor
<1> QED
  BY <1>1, <1>2, <1>3, <1>4, <1>5, <1>6 DEF TableInv

LEMMA TableStarts == Init => TableInv
<1> SUFFICES ASSUME Init PROVE TableInv
  OBVIOUS
<1>1. cols = NewCols /\ batches = <<>> /\ scan = "idle" /\ appended = <<>>
  BY DEF Init, TableInit
<1>2. BatchWhole(cols) /\ \A name \in Names : Told(cols, name) = <<>>
  BY <1>1, EmptyBatch
<1>3. ASSUME NEW name \in Names PROVE ReadFrom(batches, name) = <<>> /\ Expected(name) = <<>>
  <2>1. /\ [b \in DOMAIN batches |-> Told(batches[b], name)] = <<>>
        /\ [d \in DOMAIN appended |-> ValuesOf(appended[d], name)] = <<>>
    BY <1>1
  <2> QED
    BY <2>1, JoinedNothing DEF ReadFrom, Expected
<1>4. <<>> \o <<>> = <<>>
  OBVIOUS
<1>5. \A name \in Names : ReadFrom(batches, name) \o Told(cols, name) = Expected(name)
  BY <1>2, <1>3, <1>4
<1>6. BatchesWhole(batches) /\ appended \in Seq(Chunks)
  BY <1>1 DEF BatchesWhole
<1>7. RowsInBatch = 0 /\ DOMAIN batches = {}
  BY <1>1 DEF RowsInBatch, NewCols, NewCol, Names
<1> QED
  BY <1>1, <1>2, <1>5, <1>6, <1>7 DEF TableInv

LEMMA TableKept == TableInv /\ [Next]_vars => TableInv'
<1> SUFFICES ASSUME TableInv, [Next]_vars PROVE TableInv'
  OBVIOUS
<1>1. CASE AppendChunk
  BY <1>1, AppendKeeps
<1>2. CASE FinishTable
  BY <1>2, FinishKeeps
<1>3. CASE \E c \in Calls : StartTable(call[c].hits)
  BY <1>3, TableHeld DEF StartTable
<1>4. CASE UNCHANGED tableVars
  BY <1>4, TableHeld DEF tableVars
<1> QED
  BY <1>1, <1>2, <1>3, <1>4 DEF Next, ScanTable, vars

(* The table has every value of every matched element, in order and in     *)
(* every column, in batches that keep to the limit, and a scan fails only  *)
(* for a document that is too large (build_batches, append_col), for any   *)
(* limit, above the ceiling or not, and any chunks.                        *)
THEOREM TableHasAll == Spec => []TableTells
<1>1. Init => TableInv
  BY TableStarts
<1>2. TableInv /\ [Next]_vars => TableInv'
  BY TableKept
<1>3. TableInv => TableTells
  <2> SUFFICES ASSUME TableInv PROVE TableTells
    OBVIOUS
  <2>1. ASSUME scan = "done", NEW name \in Names
        PROVE  ReadFrom(batches, name) = Expected(name)
    <3> DEFINE S == {batches[b] : b \in DOMAIN batches}
    <3>1. Told(cols, name) = <<>> /\ ReadFrom(batches, name) \o Told(cols, name) = Expected(name)
      BY <2>1, EmptyBatch DEF TableInv
    <3>2. ReadFrom(batches, name) \in Seq(Int)
      <4>1. batches \in Seq(S) /\ BatchWhole(cols) /\ \A b \in DOMAIN batches : BatchWhole(batches[b])
        BY DEF TableInv, BatchesWhole
      <4> HIDE DEF S
      <4> QED
        BY <4>1, ReadMore
    <3> QED
      BY <3>1, <3>2
  <2> QED
    BY <2>1 DEF TableInv, TableTells
<1> QED
  BY <1>1, <1>2, <1>3, PTL DEF Spec

USE ParSweepAssumption

-----------------------------------------------------------------------------
(* What the steps of a sweep do to its record.                             *)

(* The other calls stay as they are.                                       *)
Others(c) == \A d \in Calls \ {c} : call'[d] = call[d]

(* And so does everything of the call but its pc.                          *)
OnlyPc(c) ==
    /\ call'[c].proc = call[c].proc /\ call'[c].pool = call[c].pool
    /\ call'[c].held = call[c].held /\ call'[c].pooled = call[c].pooled

LEMMA Shape ==
  ASSUME CallShape, NEW c \in Calls
  PROVE  /\ DOMAIN call = Calls /\ call = [d \in Calls |-> call[d]]
         /\ call[c] = [pc |-> call[c].pc, proc |-> call[c].proc, pool |-> call[c].pool,
               held |-> call[c].held, pooled |-> call[c].pooled,
               result |-> call[c].result, hits |-> call[c].hits]
  BY DEF CallShape

LEMMA Reshaped ==
  ASSUME CallShape, NEW c \in Calls, Others(c), call' = [d \in Calls |-> call'[d]],
         call'[c] = [pc |-> call'[c].pc, proc |-> call'[c].proc, pool |-> call'[c].pool,
               held |-> call'[c].held, pooled |-> call'[c].pooled,
               result |-> call'[c].result, hits |-> call'[c].hits]
  PROVE  CallShape'
<1>4. \A d \in Calls : call'[d] = [pc |-> call'[d].pc, proc |-> call'[d].proc,
         pool |-> call'[d].pool, held |-> call'[d].held, pooled |-> call'[d].pooled,
         result |-> call'[d].result, hits |-> call'[d].hits]
  <2>1. TAKE d \in Calls
  <2>2. CASE d = c
    BY <2>2
  <2>3. CASE d # c
    BY <2>3 DEF Others, CallShape
  <2> QED
    BY <2>2, <2>3
<1>5. [d \in Calls |-> call'[d]] =
      [d \in Calls |-> [pc |-> call'[d].pc, proc |-> call'[d].proc,
         pool |-> call'[d].pool, held |-> call'[d].held, pooled |-> call'[d].pooled,
         result |-> call'[d].result, hits |-> call'[d].hits]]
  BY <1>4, Zenon
<1> QED
  BY ONLY <1>5, call' = [d \in Calls |-> call'[d]] DEF CallShape

LEMMA StepMoves ==
  ASSUME CallShape, NEW c \in Calls, NEW pc, Step(c, pc)
  PROVE  /\ CallShape' /\ Others(c)
         /\ OnlyPc(c) /\ call'[c].pc = pc /\ call'[c].result = call[c].result
<1>1. /\ DOMAIN call = Calls /\ call = [d \in Calls |-> call[d]]
      /\ call[c] = [pc |-> call[c].pc, proc |-> call[c].proc, pool |-> call[c].pool,
               held |-> call[c].held, pooled |-> call[c].pooled,
               result |-> call[c].result, hits |-> call[c].hits]
  BY Shape
<1>2. /\ Others(c) /\ OnlyPc(c) /\ call'[c].pc = pc /\ call'[c].result = call[c].result
      /\ call' = [d \in Calls |-> call'[d]]
  BY <1>1 DEF Others, OnlyPc, Step
<1>3. call'[c] = [pc |-> call'[c].pc, proc |-> call'[c].proc, pool |-> call'[c].pool,
               held |-> call'[c].held, pooled |-> call'[c].pooled,
               result |-> call'[c].result, hits |-> call'[c].hits]
  BY <1>1 DEF Step
<1> QED
  BY <1>2, <1>3, Reshaped

(* The other changes of a call's record.                                   *)
SetsPool(c, pc, pool) == call' = [call EXCEPT ![c].pc = pc, ![c].pool = pool]
SetsHeld(c, pc, held) == call' = [call EXCEPT ![c].held = held, ![c].pc = pc]
SetsPooled(c, pc, pooled) == call' = [call EXCEPT ![c].pc = pc, ![c].pooled = pooled]
SetsHome(c, p) ==
    call' = [call EXCEPT ![c].proc = p, ![c].pc = IF N = 0 THEN "done" ELSE "lock",
                         ![c].result = IF N = 0 THEN "ok" ELSE @]
SetsDone(c, result, hits) ==
    call' = [call EXCEPT ![c] =
       [pc |-> "done", proc |-> call[c].proc, pool |-> Nobody, held |-> Nobody,
        pooled |-> FALSE, result |-> result, hits |-> hits]]

LEMMA TakesPool ==
  ASSUME CallShape, NEW c \in Calls, NEW pc, NEW pool,
         SetsPool(c, pc, pool)
  PROVE  /\ CallShape' /\ Others(c)
         /\ call'[c].pc = pc /\ call'[c].pool = pool /\ call'[c].proc = call[c].proc
         /\ call'[c].held = call[c].held /\ call'[c].pooled = call[c].pooled
<1>1. /\ DOMAIN call = Calls /\ call = [d \in Calls |-> call[d]]
      /\ call[c] = [pc |-> call[c].pc, proc |-> call[c].proc, pool |-> call[c].pool,
               held |-> call[c].held, pooled |-> call[c].pooled,
               result |-> call[c].result, hits |-> call[c].hits]
  BY Shape
<1>2. /\ Others(c) /\ call'[c].pc = pc /\ call'[c].pool = pool /\ call'[c].proc = call[c].proc
         /\ call'[c].held = call[c].held /\ call'[c].pooled = call[c].pooled
      /\ call' = [d \in Calls |-> call'[d]]
  BY <1>1 DEF Others, SetsPool
<1>3. call'[c] = [pc |-> call'[c].pc, proc |-> call'[c].proc, pool |-> call'[c].pool,
               held |-> call'[c].held, pooled |-> call'[c].pooled,
               result |-> call'[c].result, hits |-> call'[c].hits]
  BY <1>1 DEF SetsPool
<1> QED
  BY <1>2, <1>3, Reshaped

LEMMA TakesHeld ==
  ASSUME CallShape, NEW c \in Calls, NEW pc, NEW held,
         SetsHeld(c, pc, held)
  PROVE  /\ CallShape' /\ Others(c)
         /\ call'[c].pc = pc /\ call'[c].held = held /\ call'[c].proc = call[c].proc
         /\ call'[c].pool = call[c].pool /\ call'[c].pooled = call[c].pooled
<1>1. /\ DOMAIN call = Calls /\ call = [d \in Calls |-> call[d]]
      /\ call[c] = [pc |-> call[c].pc, proc |-> call[c].proc, pool |-> call[c].pool,
               held |-> call[c].held, pooled |-> call[c].pooled,
               result |-> call[c].result, hits |-> call[c].hits]
  BY Shape
<1>2. /\ Others(c) /\ call'[c].pc = pc /\ call'[c].held = held /\ call'[c].proc = call[c].proc
         /\ call'[c].pool = call[c].pool /\ call'[c].pooled = call[c].pooled
      /\ call' = [d \in Calls |-> call'[d]]
  BY <1>1 DEF Others, SetsHeld
<1>3. call'[c] = [pc |-> call'[c].pc, proc |-> call'[c].proc, pool |-> call'[c].pool,
               held |-> call'[c].held, pooled |-> call'[c].pooled,
               result |-> call'[c].result, hits |-> call'[c].hits]
  BY <1>1 DEF SetsHeld
<1> QED
  BY <1>2, <1>3, Reshaped

LEMMA TakesPooled ==
  ASSUME CallShape, NEW c \in Calls, NEW pc, NEW pooled,
         SetsPooled(c, pc, pooled)
  PROVE  /\ CallShape' /\ Others(c)
         /\ call'[c].pc = pc /\ call'[c].pooled = pooled /\ call'[c].proc = call[c].proc
         /\ call'[c].pool = call[c].pool /\ call'[c].held = call[c].held
<1>1. /\ DOMAIN call = Calls /\ call = [d \in Calls |-> call[d]]
      /\ call[c] = [pc |-> call[c].pc, proc |-> call[c].proc, pool |-> call[c].pool,
               held |-> call[c].held, pooled |-> call[c].pooled,
               result |-> call[c].result, hits |-> call[c].hits]
  BY Shape
<1>2. /\ Others(c) /\ call'[c].pc = pc /\ call'[c].pooled = pooled /\ call'[c].proc = call[c].proc
         /\ call'[c].pool = call[c].pool /\ call'[c].held = call[c].held
      /\ call' = [d \in Calls |-> call'[d]]
  BY <1>1 DEF Others, SetsPooled
<1>3. call'[c] = [pc |-> call'[c].pc, proc |-> call'[c].proc, pool |-> call'[c].pool,
               held |-> call'[c].held, pooled |-> call'[c].pooled,
               result |-> call'[c].result, hits |-> call'[c].hits]
  BY <1>1 DEF SetsPooled
<1> QED
  BY <1>2, <1>3, Reshaped

LEMMA Begins ==
  ASSUME CallShape, NEW c \in Calls, NEW p,
         SetsHome(c, p)
  PROVE  /\ CallShape' /\ Others(c)
         /\ call'[c].pc = (IF N = 0 THEN "done" ELSE "lock") /\ call'[c].proc = p
         /\ (N = 0 => call'[c].result = "ok") /\ call'[c].hits = call[c].hits
         /\ call'[c].pool = call[c].pool /\ call'[c].pooled = call[c].pooled
<1>1. /\ DOMAIN call = Calls /\ call = [d \in Calls |-> call[d]]
      /\ call[c] = [pc |-> call[c].pc, proc |-> call[c].proc, pool |-> call[c].pool,
               held |-> call[c].held, pooled |-> call[c].pooled,
               result |-> call[c].result, hits |-> call[c].hits]
  BY Shape
<1>2. /\ Others(c) /\ call'[c].pc = (IF N = 0 THEN "done" ELSE "lock") /\ call'[c].proc = p
         /\ (N = 0 => call'[c].result = "ok") /\ call'[c].hits = call[c].hits
         /\ call'[c].pool = call[c].pool /\ call'[c].pooled = call[c].pooled
      /\ call' = [d \in Calls |-> call'[d]]
  BY <1>1 DEF Others, SetsHome
<1>3. call'[c] = [pc |-> call'[c].pc, proc |-> call'[c].proc, pool |-> call'[c].pool,
               held |-> call'[c].held, pooled |-> call'[c].pooled,
               result |-> call'[c].result, hits |-> call'[c].hits]
  BY <1>1 DEF SetsHome
<1> QED
  BY <1>2, <1>3, Reshaped

LEMMA Collects ==
  ASSUME CallShape, NEW c \in Calls, NEW result, NEW hits,
         SetsDone(c, result, hits)
  PROVE  /\ CallShape' /\ Others(c)
         /\ call'[c].pc = "done" /\ call'[c].proc = call[c].proc /\ call'[c].result = result
         /\ call'[c].pool = Nobody /\ call'[c].pooled = FALSE /\ call'[c].hits = hits
<1>2. DOMAIN call = Calls /\ call = [d \in Calls |-> call[d]]
  BY Shape
<1>4. call'[c] = [pc |-> "done", proc |-> call[c].proc, pool |-> Nobody, held |-> Nobody,
                  pooled |-> FALSE, result |-> result, hits |-> hits]
      /\ Others(c) /\ call' = [d \in Calls |-> call'[d]]
  BY <1>2 DEF Others, SetsDone
<1> QED
  BY <1>4, Reshaped

LEMMA CollectedCall ==
  ASSUME NEW p, NEW result, NEW hits
  PROVE  [NewCall EXCEPT !.pc = "done", !.proc = p, !.result = result, !.hits = hits] =
           [pc |-> "done", proc |-> p, pool |-> Nobody, held |-> Nobody,
            pooled |-> FALSE, result |-> result, hits |-> hits]
<1> DEFINE r == [NewCall EXCEPT !.pc = "done", !.proc = p, !.result = result, !.hits = hits]
<1>1. DOMAIN r = {"pc", "proc", "pool", "held", "pooled", "result", "hits"}
  BY DEF NewCall
<1>2. r = [x \in {"pc", "proc", "pool", "held", "pooled", "result", "hits"} |-> r[x]]
  BY DEF NewCall
<1>3. r.pc = "done" /\ r.proc = p
  BY DEF NewCall
<1>4. r.result = result /\ r.hits = hits
  BY DEF NewCall
<1>5. r.pool = Nobody /\ r.held = Nobody
  BY DEF NewCall
<1>6. r.pooled = FALSE
  BY DEF NewCall
<1>7. r = [pc |-> "done", proc |-> p, pool |-> Nobody, held |-> Nobody,
            pooled |-> FALSE, result |-> result, hits |-> hits]
  <2> HIDE DEF r
  <2> QED
    BY <1>1, <1>2, <1>3, <1>4, <1>5, <1>6
<1> QED
  BY <1>7, Zenon

LEMMA AtHome ==
  ASSUME ControlTypes
  PROVE  \A d \in Calls : call[d].pc # "idle" => Home(d) \in procs /\ Home(d) \in Procs
  BY DEF ControlTypes, CallTypes, Home

LEMMA LockControl ==
  ASSUME Control, NEW c \in Calls,
         \/ Lock(c, "lock", "peek")
         \/ Lock(c, "relock", "put")
  PROVE  Control'
<1> USE DEF Control
<1>1. /\ CallShape' /\ Others(c) /\ OnlyPc(c)
      /\ \/ call[c].pc = "lock" /\ call'[c].pc = "peek"
         \/ call[c].pc = "relock" /\ call'[c].pc = "put"
      /\ lock[Home(c)] = Nobody /\ lock' = [lock EXCEPT ![Home(c)] = c]
      /\ UNCHANGED <<procs, slot, busy>>
  BY StepMoves DEF ControlTypes, Lock, At
<1>2. \A d \in Calls : call[d].pc # "idle" => Home(d) \in procs /\ Home(d) \in Procs
  BY AtHome
<1>3. /\ lock' \in [Procs -> Calls \union {Nobody}]
      /\ lock'[Home(c)] = c /\ \A q \in Procs \ {Home(c)} : lock'[q] = lock[q]
  BY <1>1, <1>2 DEF ControlTypes
<1>4. ControlTypes'
  <2>1. CallTypes'
    BY <1>1, <1>2 DEF ControlTypes, CallTypes, Others, OnlyPc, Home, CallPcs, Pools
  <2> QED
    BY <1>1, <1>3, <2>1 DEF ControlTypes, Pools
<1>5. LocksOwn'
  BY <1>1, <1>2, <1>3 DEF LocksOwn, Others, OnlyPc, Home
<1>6. PoolsOwn'
  BY <1>1, <1>2 DEF PoolsOwn, Others, OnlyPc, Home
<1>20. SamePool'
  BY <1>1, <1>2 DEF SamePool, Ours, Others, OnlyPc, Home
<1>7. BusyOwn' /\ PoolHeldByOne'
  BY <1>1, <1>2 DEF BusyOwn, PoolHeldByOne, Others, OnlyPc, Home
<1> QED
  BY <1>4, <1>5, <1>6, <1>7, <1>20

LEMMA PeekControl ==
  ASSUME Control, NEW c \in Calls, Peek(c)
  PROVE  Control'
<1> USE DEF Control
<1>1. /\ CallShape' /\ Others(c) /\ call[c].pc = "peek"
      /\ lock' = [lock EXCEPT ![Home(c)] = Nobody]
      /\ UNCHANGED <<procs, slot, busy>>
      /\ call'[c].proc = call[c].proc /\ call'[c].pooled = call[c].pooled
      /\ \/ /\ slot[Home(c)].owner = Home(c)
            /\ call'[c].pc = "load" /\ call'[c].pool = slot[Home(c)].pool
         \/ call'[c].pc = "build" /\ call'[c].pool = call[c].pool
  <2>1. \/ Ours(c) /\ SetsPool(c, "load", slot[Home(c)].pool)
        \/ Step(c, "build")
    BY DEF Peek, At, SetsPool
  <2>2. call[c].pc = "peek" /\ UNCHANGED <<procs, slot, busy>> /\ lock' = [lock EXCEPT ![Home(c)] = Nobody]
    BY DEF Peek, At, Unlock
  <2> QED
    BY <2>1, <2>2, StepMoves, TakesPool DEF ControlTypes, Ours, OnlyPc
<1>2. \A d \in Calls : call[d].pc # "idle" => Home(d) \in procs /\ Home(d) \in Procs
  BY AtHome
<1>3. /\ lock' \in [Procs -> Calls \union {Nobody}]
      /\ lock'[Home(c)] = Nobody /\ \A q \in Procs \ {Home(c)} : lock'[q] = lock[q]
  BY <1>1, <1>2 DEF ControlTypes
<1>8. slot[Home(c)].pool \in Pools
  BY <1>1, <1>2 DEF ControlTypes
<1>4. ControlTypes'
  <2>1. CallTypes'
    BY <1>1, <1>2, <1>8 DEF ControlTypes, CallTypes, Others, OnlyPc, Home, CallPcs, Pools
  <2> QED
    BY <1>1, <1>3, <2>1 DEF ControlTypes, Pools
<1>5. LocksOwn'
  BY <1>1, <1>2, <1>3 DEF LocksOwn, Others, OnlyPc, Home
<1>6. PoolsOwn'
  BY <1>1, <1>2 DEF ControlTypes, PoolsOwn, Others, OnlyPc, Home
<1>20. SamePool'
  BY <1>1, <1>2 DEF SamePool, Ours, Others, OnlyPc, Home
<1>7. BusyOwn' /\ PoolHeldByOne'
  BY <1>1, <1>2 DEF BusyOwn, PoolHeldByOne, Others, OnlyPc, Home
<1> QED
  BY <1>4, <1>5, <1>6, <1>7, <1>20

LEMMA BuildControl ==
  ASSUME Control, NEW c \in Calls, Build(c)
  PROVE  Control'
<1> USE DEF Control
<1>1. /\ CallShape' /\ Others(c) /\ call[c].pc = "build"
      /\ UNCHANGED <<procs, slot, lock, busy>>
      /\ call'[c].proc = call[c].proc /\ call'[c].pooled = call[c].pooled
      /\ call'[c].pc = "relock" /\ call'[c].pool = [builder |-> Home(c), by |-> c]
  <2>1. SetsPool(c, "relock", [builder |-> Home(c), by |-> c])
    BY DEF Build, At, SetsPool
  <2>2. call[c].pc = "build" /\ UNCHANGED <<procs, slot, lock, busy>>
    BY DEF Build, At, Unlock
  <2> QED
    BY <2>1, <2>2, TakesPool DEF ControlTypes
<1>2. \A d \in Calls : call[d].pc # "idle" => Home(d) \in procs /\ Home(d) \in Procs
  BY AtHome
<1>8. call'[c].pool \in Pools /\ call'[c].pool.builder = Home(c)
  BY <1>1, <1>2 DEF Pools
<1>4. ControlTypes'
  <2>1. CallTypes'
    BY <1>1, <1>2, <1>8 DEF ControlTypes, CallTypes, Others, OnlyPc, Home, CallPcs, Pools
  <2> QED
    BY <1>1, <2>1 DEF ControlTypes, Pools
<1>5. LocksOwn'
  BY <1>1, <1>2 DEF LocksOwn, Others, OnlyPc, Home
<1>6. PoolsOwn'
  BY <1>1, <1>2, <1>8 DEF ControlTypes, PoolsOwn, Others, OnlyPc, Home
<1>20. SamePool'
  BY <1>1, <1>2 DEF SamePool, Ours, Others, OnlyPc, Home
<1>7. BusyOwn' /\ PoolHeldByOne'
  BY <1>1, <1>2 DEF BusyOwn, PoolHeldByOne, Others, OnlyPc, Home
<1> QED
  BY <1>4, <1>5, <1>6, <1>7, <1>20

LEMMA PutControl ==
  ASSUME Control, NEW c \in Calls, Put(c)
  PROVE  Control'
<1> USE DEF Control
<1>1. /\ CallShape' /\ Others(c) /\ call[c].pc = "put" /\ call'[c].pc = "load"
      /\ lock' = [lock EXCEPT ![Home(c)] = Nobody]
      /\ UNCHANGED <<procs, busy>>
      /\ call'[c].proc = call[c].proc /\ call'[c].pooled = call[c].pooled
      /\ \/ /\ slot[Home(c)].owner = Home(c) /\ UNCHANGED slot
            /\ call'[c].pool = slot[Home(c)].pool
         \/ /\ slot[Home(c)].owner # Home(c)
            /\ slot' = [slot EXCEPT ![Home(c)] = [owner |-> Home(c), pool |-> call[c].pool]]
            /\ call'[c].pool = call[c].pool
  <2>1. \/ Ours(c) /\ SetsPool(c, "load", slot[Home(c)].pool) /\ UNCHANGED slot
        \/ /\ slot[Home(c)].owner # Home(c)
           /\ slot' = [slot EXCEPT ![Home(c)] = [owner |-> Home(c), pool |-> call[c].pool]]
           /\ Step(c, "load")
    BY DEF Put, At, SetsPool, Ours
  <2>2. call[c].pc = "put" /\ UNCHANGED <<procs, busy>> /\ lock' = [lock EXCEPT ![Home(c)] = Nobody]
    BY DEF Put, At, Unlock
  <2> QED
    BY <2>1, <2>2, StepMoves, TakesPool DEF ControlTypes, Ours, OnlyPc
<1>2. \A d \in Calls : call[d].pc # "idle" => Home(d) \in procs /\ Home(d) \in Procs
  BY AtHome
<1>3. /\ lock' \in [Procs -> Calls \union {Nobody}]
      /\ lock'[Home(c)] = Nobody /\ \A q \in Procs \ {Home(c)} : lock'[q] = lock[q]
  BY <1>1, <1>2 DEF ControlTypes
<1>8. slot[Home(c)].pool \in Pools /\ call[c].pool \in Pools /\ call[c].pool.builder = Home(c)
  BY <1>1, <1>2 DEF ControlTypes, CallTypes, PoolsOwn
<1>9. /\ slot' \in [Procs -> [owner : Procs \union {Nobody}, pool : Pools]]
      /\ \A p \in Procs \ {Home(c)} : slot'[p] = slot[p]
      /\ slot'[Home(c)].owner = Home(c) /\ slot'[Home(c)].pool.builder = Home(c)
  BY <1>1, <1>2, <1>8 DEF ControlTypes, PoolsOwn
<1>10. \A p \in Procs : slot'[p].owner \in procs' \union {Nobody}
  BY <1>1, <1>2, <1>9 DEF ControlTypes
<1>4. ControlTypes'
  <2>1. CallTypes'
    BY <1>1, <1>2, <1>8 DEF ControlTypes, CallTypes, Others, OnlyPc, Home, CallPcs, Pools
  <2> QED
    BY <1>1, <1>3, <1>9, <1>10, <2>1 DEF ControlTypes, Pools
<1>5. LocksOwn'
  BY <1>1, <1>2, <1>3 DEF LocksOwn, Others, OnlyPc, Home
<1>6. PoolsOwn'
  BY <1>1, <1>2, <1>8, <1>9, SMTT(30) DEF ControlTypes, PoolsOwn, Others, OnlyPc, Home
<1>20. SamePool'
  BY <1>1, <1>2, <1>9 DEF SamePool, Ours, Others, OnlyPc, Home
<1>7. BusyOwn' /\ PoolHeldByOne'
  BY <1>1, <1>2 DEF BusyOwn, PoolHeldByOne, Others, OnlyPc, Home
<1> QED
  BY <1>4, <1>5, <1>6, <1>7, <1>20

LEMMA LoadControl ==
  ASSUME Control, NEW c \in Calls, Load(c)
  PROVE  Control'
<1> USE DEF Control
<1>1. /\ CallShape' /\ Others(c) /\ call[c].pc = "load"
      /\ UNCHANGED <<procs, slot, lock, busy>>
      /\ call'[c].proc = call[c].proc /\ call'[c].pooled = call[c].pooled
      /\ call'[c].pool = call[c].pool /\ call'[c].held = busy[Home(c)]
      /\ \/ call'[c].pc = "swap" /\ busy[Home(c)] # Home(c)
         \/ call'[c].pc = "spawn"
  <2>1. \/ busy[Home(c)] # Home(c) /\ SetsHeld(c, "swap", busy[Home(c)])
        \/ SetsHeld(c, "spawn", busy[Home(c)])
    BY DEF Load, At, SetsHeld
  <2>2. call[c].pc = "load" /\ UNCHANGED <<procs, slot, lock, busy>>
    BY DEF Load, At, Unlock
  <2> QED
    BY <2>1, <2>2, TakesHeld DEF ControlTypes
<1>2. \A d \in Calls : call[d].pc # "idle" => Home(d) \in procs /\ Home(d) \in Procs
  BY AtHome
<1>4. ControlTypes'
  <2>1. CallTypes'
    BY <1>1, <1>2 DEF ControlTypes, CallTypes, Others, OnlyPc, Home, CallPcs, Pools
  <2> QED
    BY <1>1, <2>1 DEF ControlTypes, Pools
<1>5. LocksOwn'
  BY <1>1, <1>2 DEF LocksOwn, Others, OnlyPc, Home
<1>6. PoolsOwn'
  BY <1>1, <1>2 DEF ControlTypes, PoolsOwn, Others, OnlyPc, Home
<1>20. SamePool'
  BY <1>1, <1>2 DEF SamePool, Ours, Others, OnlyPc, Home
<1>7. BusyOwn' /\ PoolHeldByOne'
  BY <1>1, <1>2 DEF BusyOwn, PoolHeldByOne, Others, OnlyPc, Home
<1> QED
  BY <1>4, <1>5, <1>6, <1>7, <1>20

LEMMA SwapControl ==
  ASSUME Control, NEW c \in Calls, Swap(c)
  PROVE  Control'
<1> USE DEF Control
<1>1. /\ CallShape' /\ Others(c) /\ call[c].pc = "swap"
      /\ UNCHANGED <<procs, slot, lock>>
      /\ call'[c].proc = call[c].proc /\ call'[c].pool = call[c].pool
      /\ \/ /\ busy[Home(c)] = call[c].held /\ busy' = [busy EXCEPT ![Home(c)] = Home(c)]
            /\ call'[c].pc = "broadcast" /\ call'[c].pooled = TRUE
         \/ /\ UNCHANGED busy
            /\ call'[c].pc = "spawn" /\ call'[c].pooled = call[c].pooled
  <2>1. \/ /\ busy[Home(c)] = call[c].held /\ busy' = [busy EXCEPT ![Home(c)] = Home(c)]
           /\ SetsPooled(c, "broadcast", TRUE)
        \/ Step(c, "spawn") /\ UNCHANGED busy
    BY DEF Swap, At, SetsPooled
  <2>2. call[c].pc = "swap" /\ UNCHANGED <<procs, slot, lock>>
    BY DEF Swap, At, Unlock
  <2>3. CallShape
    BY DEF ControlTypes
  <2>4. ASSUME SetsPooled(c, "broadcast", TRUE)
        PROVE  /\ CallShape' /\ Others(c) /\ call'[c].proc = call[c].proc
               /\ call'[c].pool = call[c].pool /\ call'[c].pc = "broadcast"
               /\ call'[c].pooled = TRUE
    BY <2>3, <2>4, TakesPooled
  <2>5. ASSUME Step(c, "spawn")
        PROVE  /\ CallShape' /\ Others(c) /\ call'[c].proc = call[c].proc
               /\ call'[c].pool = call[c].pool /\ call'[c].pc = "spawn"
               /\ call'[c].pooled = call[c].pooled
    BY <2>3, <2>5, StepMoves DEF OnlyPc
  <2> QED
    BY <2>1, <2>2, <2>4, <2>5
<1>2. \A d \in Calls : call[d].pc # "idle" => Home(d) \in procs /\ Home(d) \in Procs
  BY AtHome
<1>8. /\ busy' \in [Procs -> Procs \union {Nobody}]
      /\ call'[c].pooled => busy'[Home(c)] = Home(c) /\ busy[Home(c)] # Home(c)
      /\ \A p \in Procs \ {Home(c)} : busy'[p] = busy[p]
  BY <1>1, <1>2, SMTT(30) DEF ControlTypes, BusyOwn
<1>4. ControlTypes'
  <2>1. CallTypes'
    BY <1>1, <1>2 DEF ControlTypes, CallTypes, Others, OnlyPc, Home, CallPcs, Pools
  <2> QED
    BY <1>1, <1>8, <2>1 DEF ControlTypes, Pools
<1>5. LocksOwn'
  BY <1>1, <1>2 DEF LocksOwn, Others, OnlyPc, Home
<1>6. PoolsOwn'
  BY <1>1, <1>2 DEF ControlTypes, PoolsOwn, Others, OnlyPc, Home
<1>20. SamePool'
  BY <1>1, <1>2 DEF SamePool, Ours, Others, OnlyPc, Home
<1>7. BusyOwn' /\ PoolHeldByOne'
  BY <1>1, <1>2, <1>8 DEF BusyOwn, PoolHeldByOne, Others, OnlyPc, Home
<1> QED
  BY <1>4, <1>5, <1>6, <1>7, <1>20

LEMMA LaunchControl ==
  ASSUME Control, NEW c \in Calls, Launch(c)
  PROVE  Control'
<1> USE DEF Control
<1>1. /\ CallShape' /\ Others(c) /\ OnlyPc(c) /\ call[c].pc \in {"broadcast", "spawn"}
      /\ call'[c].pc = "sweep"
      /\ UNCHANGED <<procs, slot, lock, busy>>
  BY StepMoves DEF ControlTypes, Launch, At
<1>2. \A d \in Calls : call[d].pc # "idle" => Home(d) \in procs /\ Home(d) \in Procs
  BY AtHome
<1>4. ControlTypes'
  <2>1. CallTypes'
    BY <1>1, <1>2 DEF ControlTypes, CallTypes, Others, OnlyPc, Home, CallPcs, Pools
  <2> QED
    BY <1>1, <2>1 DEF ControlTypes, Pools
<1>5. LocksOwn'
  BY <1>1, <1>2 DEF LocksOwn, Others, OnlyPc, Home
<1>6. PoolsOwn'
  BY <1>1, <1>2 DEF ControlTypes, PoolsOwn, Others, OnlyPc, Home
<1>20. SamePool'
  BY <1>1, <1>2 DEF SamePool, Ours, Others, OnlyPc, Home
<1>7. BusyOwn' /\ PoolHeldByOne'
  BY <1>1, <1>2 DEF BusyOwn, PoolHeldByOne, Others, OnlyPc, Home
<1> QED
  BY <1>4, <1>5, <1>6, <1>7, <1>20

(* The hits a sweep answers with, for one of the orders of the sort.       *)
Ordered(c, order) ==
    IF Result(c) = "ok" THEN [k \in DOMAIN order |-> HitAt(c, order[k])] ELSE <<>>

LEMMA CollectDone ==
  ASSUME NEW c \in Calls, Collect(c)
  PROVE  \E order \in Sortings(c) : SetsDone(c, Result(c), Ordered(c, order))
<1>1. PICK order \in Sortings(c) :
        call' = [call EXCEPT ![c] = [NewCall EXCEPT !.pc = "done", !.proc = Home(c),
                                       !.result = Result(c), !.hits = Ordered(c, order)]]
  BY Zenon DEF Collect, Ordered
<1>2. [NewCall EXCEPT !.pc = "done", !.proc = Home(c), !.result = Result(c),
                      !.hits = Ordered(c, order)] =
        [pc |-> "done", proc |-> call[c].proc, pool |-> Nobody, held |-> Nobody,
         pooled |-> FALSE, result |-> Result(c), hits |-> Ordered(c, order)]
  BY CollectedCall, Zenon DEF Home
<1>3. SetsDone(c, Result(c), Ordered(c, order))
  BY <1>1, <1>2, Zenon DEF SetsDone
<1> QED
  BY <1>3, Zenon

LEMMA CollectControl ==
  ASSUME Control, NEW c \in Calls, Collect(c)
  PROVE  Control'
<1> USE DEF Control
<1>1. /\ CallShape' /\ Others(c) /\ call[c].pc = "sweep"
      /\ call'[c].proc = call[c].proc /\ call'[c].pc = "done"
      /\ call'[c].pooled = FALSE /\ call'[c].pool = Nobody
      /\ UNCHANGED <<procs, slot, lock>>
      /\ busy' = IF call[c].pooled THEN [busy EXCEPT ![Home(c)] = Nobody] ELSE busy
  <2>1. CallShape
    BY DEF ControlTypes
  <2>2. PICK result, hits : SetsDone(c, result, hits)
    BY CollectDone
  <2>3. /\ CallShape' /\ Others(c)
        /\ call'[c].proc = call[c].proc /\ call'[c].pc = "done"
        /\ call'[c].pooled = FALSE /\ call'[c].pool = Nobody
    BY <2>1, <2>2, Collects
  <2>4. /\ call[c].pc = "sweep" /\ UNCHANGED <<procs, slot, lock>>
        /\ busy' = IF call[c].pooled THEN [busy EXCEPT ![Home(c)] = Nobody] ELSE busy
    BY Zenon DEF Collect, At
  <2> QED
    BY <2>3, <2>4
<1>2. \A d \in Calls : call[d].pc # "idle" => Home(d) \in procs /\ Home(d) \in Procs
  BY AtHome
<1>3. /\ busy' \in [Procs -> Procs \union {Nobody}]
      /\ \A p \in Procs : busy'[p] = busy[p] \/ (call[c].pooled /\ p = Home(c))
  BY <1>1, <1>2 DEF ControlTypes
<1>4. ControlTypes'
  <2>1. CallTypes'
    BY <1>1, <1>2 DEF ControlTypes, CallTypes, Others, Home, CallPcs, Pools
  <2> QED
    BY <1>1, <1>3, <2>1 DEF ControlTypes, Pools
<1>5. LocksOwn'
  BY <1>1, <1>2 DEF LocksOwn, Others, Home
<1>6. PoolsOwn'
  BY <1>1, <1>2 DEF ControlTypes, PoolsOwn, Others, Home
<1>20. SamePool'
  BY <1>1, <1>2 DEF SamePool, Ours, Others, OnlyPc, Home
<1>7. BusyOwn' /\ PoolHeldByOne'
  BY <1>1, <1>2, <1>3 DEF BusyOwn, PoolHeldByOne, Others, Home
<1> QED
  BY <1>4, <1>5, <1>6, <1>7, <1>20

LEMMA BeginControl ==
  ASSUME Control, NEW c \in Calls, NEW p \in Procs, Begin(c, p)
  PROVE  Control'
<1> USE DEF Control
<1>1. /\ CallShape' /\ Others(c) /\ call[c].pc = "idle" /\ p \in procs
      /\ call'[c].proc = p /\ call'[c].pc \in {"done", "lock"}
      /\ call'[c].pooled = call[c].pooled /\ call'[c].pool = call[c].pool
      /\ UNCHANGED <<procs, slot, lock, busy>>
  <2>1. SetsHome(c, p)
    BY DEF Begin, SetsHome
  <2>2. call[c].pc = "idle" /\ p \in procs /\ UNCHANGED <<procs, slot, lock, busy>>
    BY DEF Begin
  <2>3. CallShape
    BY DEF ControlTypes
  <2> QED
    BY <2>1, <2>2, <2>3, Begins
<1>2. \A d \in Calls : call[d].pc # "idle" => Home(d) \in procs /\ Home(d) \in Procs
  BY AtHome
<1>3. call[c].pooled = FALSE
  BY <1>1 DEF ControlTypes, CallTypes, BusyOwn
<1>4. ControlTypes'
  <2>1. CallTypes'
    BY <1>1, <1>2 DEF ControlTypes, CallTypes, Others, Home, CallPcs, Pools
  <2> QED
    BY <1>1, <2>1 DEF ControlTypes, Pools
<1>5. LocksOwn'
  BY <1>1, <1>2 DEF LocksOwn, Others, Home
<1>6. PoolsOwn'
  BY <1>1, <1>2 DEF ControlTypes, PoolsOwn, Others, Home
<1>20. SamePool'
  BY <1>1, <1>2 DEF SamePool, Ours, Others, OnlyPc, Home
<1>7. BusyOwn' /\ PoolHeldByOne'
  BY <1>1, <1>2, <1>3 DEF BusyOwn, PoolHeldByOne, Others, Home
<1> QED
  BY <1>4, <1>5, <1>6, <1>7, <1>20

(* A forked process has the slot, the mutex and the mark of its parent, but *)
(* none of its calls.                                                      *)
LEMMA ForkControl ==
  ASSUME Control, NEW p \in Procs, NEW q \in Procs, Fork(p, q)
  PROVE  Control'
<1> USE DEF Control
<1>1. /\ p \in procs /\ q \notin procs /\ procs' = procs \union {q} /\ UNCHANGED call
      /\ slot' = [slot EXCEPT ![q] = slot[p]]
      /\ lock' = [lock EXCEPT ![q] = lock[p]]
      /\ busy' = [busy EXCEPT ![q] = busy[p]]
  BY DEF Fork
<1>2. \A d \in Calls : call[d].pc # "idle" => Home(d) \in procs /\ Home(d) \in Procs
  BY AtHome
<1>3. /\ slot' \in [Procs -> [owner : Procs \union {Nobody}, pool : Pools]]
      /\ lock' \in [Procs -> Calls \union {Nobody}]
      /\ busy' \in [Procs -> Procs \union {Nobody}]
      /\ slot'[q] = slot[p]
      /\ \A r \in Procs \ {q} : slot'[r] = slot[r] /\ lock'[r] = lock[r] /\ busy'[r] = busy[r]
  BY <1>1 DEF ControlTypes
<1>4. ControlTypes'
  <2>1. CallTypes'
    BY <1>1, <1>2 DEF ControlTypes, CallTypes, Home, CallPcs, Pools
  <2>2. CallShape'
    BY <1>1 DEF ControlTypes, CallShape
  <2>3. procs' \subseteq Procs
    BY <1>1 DEF ControlTypes
  <2>4. \A r \in Procs : slot'[r].owner \in procs' \union {Nobody}
    BY <1>1, <1>3 DEF ControlTypes
  <2> QED
    BY <1>3, <2>1, <2>2, <2>3, <2>4 DEF ControlTypes, Pools
<1>5. LocksOwn'
  BY <1>1, <1>2, <1>3 DEF LocksOwn, Home
<1>6. PoolsOwn'
  <2>1. \A r \in procs' : slot'[r].owner = r => slot'[r].pool.builder = r
    <3>1. TAKE r \in procs'
    <3>2. CASE r = q
      <4>1. slot[p].owner # q
        BY <1>1 DEF ControlTypes
      <4> QED
        BY <1>3, <3>2, <4>1
    <3>3. CASE r # q
      BY <1>1, <1>3, <3>3 DEF ControlTypes, PoolsOwn
    <3> QED
      BY <3>2, <3>3
  <2> QED
    BY <1>1, <2>1 DEF PoolsOwn, Home
<1>20. SamePool'
  BY <1>1, <1>2, <1>3 DEF ControlTypes, SamePool, Ours, Home
<1>7. BusyOwn' /\ PoolHeldByOne'
  BY <1>1, <1>2, <1>3 DEF BusyOwn, PoolHeldByOne, Home
<1> QED
  BY <1>4, <1>5, <1>6, <1>7, <1>20

LEMMA ControlHeld ==
  ASSUME Control, UNCHANGED <<procs, slot, lock, busy, call>>
  PROVE  Control'
<1> USE DEF Control
<1>1. CallShape' /\ CallTypes'
  BY DEF ControlTypes, CallShape, CallTypes, CallPcs, Pools
<1>2. ControlTypes'
  BY <1>1 DEF ControlTypes, Pools
<1>3. LocksOwn' /\ PoolsOwn' /\ SamePool' /\ BusyOwn' /\ PoolHeldByOne'
  BY DEF LocksOwn, PoolsOwn, SamePool, Ours, BusyOwn, PoolHeldByOne, Home
<1> QED
  BY <1>2, <1>3

LEMMA ControlKept == Control /\ [Next]_vars => Control'
<1> SUFFICES ASSUME Control, [Next]_vars PROVE Control'
  OBVIOUS
<1>1. ASSUME NEW c \in Calls, CallStep(c) PROVE Control'
  <2>1. CASE Lock(c, "lock", "peek") \/ Lock(c, "relock", "put")
    BY <2>1, LockControl
  <2>2. CASE Peek(c)
    BY <2>2, PeekControl
  <2>3. CASE Build(c)
    BY <2>3, BuildControl
  <2>4. CASE Put(c)
    BY <2>4, PutControl
  <2>5. CASE Load(c)
    BY <2>5, LoadControl
  <2>6. CASE Swap(c)
    BY <2>6, SwapControl
  <2>7. CASE Launch(c)
    BY <2>7, LaunchControl
  <2>8. CASE Collect(c)
    BY <2>8, CollectControl
  <2>9. CASE \E w \in 1..Threads : Claim(c, w) \/ Visit(c, w)
    BY <2>9, ControlHeld DEF Claim, Visit
  <2> QED
    BY <1>1, <2>1, <2>2, <2>3, <2>4, <2>5, <2>6, <2>7, <2>8, <2>9 DEF CallStep
<1>2. ASSUME NEW c \in Calls, NEW p \in Procs, Begin(c, p) PROVE Control'
  BY <1>2, BeginControl
<1>3. ASSUME NEW p \in Procs, NEW q \in Procs, Fork(p, q) PROVE Control'
  BY <1>3, ForkControl
<1>4. CASE UNCHANGED sweepVars
  BY <1>4, ControlHeld DEF sweepVars
<1> QED
  BY <1>1, <1>2, <1>3, <1>4 DEF Next, SweepNext, vars

LEMMA ControlInit == Init => Control
<1> SUFFICES ASSUME Init PROVE Control
  OBVIOUS
<1>1. /\ procs = {CHOOSE first \in Procs : TRUE} /\ procs \subseteq Procs
      /\ slot = [p \in Procs |-> [owner |-> Nobody, pool |-> Nobody]]
      /\ lock = [p \in Procs |-> Nobody] /\ busy = [p \in Procs |-> Nobody]
      /\ call = [c \in Calls |-> NewCall]
  BY DEF Init, SweepInit
<1>2. CallShape /\ CallTypes
  BY <1>1 DEF CallShape, CallTypes, CallPcs, Pools, NewCall
<1>3. ControlTypes
  BY <1>1, <1>2 DEF ControlTypes, Pools
<1>4. LocksOwn /\ PoolsOwn /\ SamePool /\ BusyOwn /\ PoolHeldByOne
  BY <1>1 DEF LocksOwn, PoolsOwn, SamePool, BusyOwn, PoolHeldByOne, NewCall, Home
<1> QED
  BY <1>3, <1>4 DEF Control

LEMMA SpecControl == Spec => []Control
<1>1. Init => Control
  BY ControlInit
<1>2. Control /\ [Next]_vars => Control'
  BY ControlKept
<1> QED
  BY <1>1, <1>2, PTL DEF Spec

(* The pool of a process runs one sweep at a time (on_workers), also in a  *)
(* process forked while another thread swept.                              *)
THEOREM OneSweepOnThePool == Spec => []PoolHeldByOne
<1>1. Control => PoolHeldByOne
  BY DEF Control
<1> QED
  BY <1>1, SpecControl, PTL

(* A sweep broadcasts only on a pool whose threads are in its own process: *)
(* sweep_pool never hands a forked process the pool it inherited.          *)
THEOREM PoolIsAtHome == Spec => []BroadcastsAtHome
<1>1. Control => BroadcastsAtHome
  BY DEF Control, PoolsOwn, BroadcastsAtHome
<1> QED
  BY <1>1, SpecControl, PTL

(* All sweeps of a process are given one pool, though sweep_pool builds it *)
(* without the lock and several threads may each have built one: who is    *)
(* late to the slot takes what is there, and a fork replaces nothing in the *)
(* process it comes from.                                                  *)
THEOREM OnePool == Spec => []SamePool
<1>1. Control => SamePool
  BY DEF Control
<1> QED
  BY <1>1, SpecControl, PTL

-----------------------------------------------------------------------------
(* The documents are shared out: what a claim and a visit do to the jobs of *)
(* a call.                                                                 *)

Jobs == [1..Threads -> WorkerState]

LEMMA JobFacts ==
  ASSUME NEW jobs \in Jobs, NEW w \in 1..Threads
  PROVE  /\ jobs[w].pos \in Nat /\ jobs[w].stop \in Nat /\ jobs[w].hits \in Seq(Nat)
         /\ jobs[w].pc \in {"idle", "claim", "visit", "done", "bad", "panic"}
         /\ \A i \in Rest(jobs[w]) : i \in Nat
  BY DEF Jobs, WorkerState, Rest

LEMMA ClaimShares ==
  ASSUME NEW jobs \in Jobs, NEW claimed \in Nat, NEW archive \in Seq(Outcomes),
         Shared(jobs, claimed, archive),
         NEW w \in 1..Threads, jobs[w].pc = "claim",
         NEW after \in Jobs, \A v \in 1..Threads \ {w} : after[v] = jobs[v],
         after[w].hits = jobs[w].hits,
         \/ Len(archive) <= claimed /\ after[w].pc = "done"
         \/ /\ claimed < Len(archive) /\ after[w].pc = "visit" /\ after[w].pos = claimed + 1
            /\ after[w].stop = IF claimed + Chunk < Len(archive) THEN claimed + Chunk ELSE Len(archive)
  PROVE  Shared(after, claimed + Chunk, archive)
<1> DEFINE n == Len(archive)
<1>1. n \in Nat /\ DOMAIN archive = 1..n /\ Chunk \in Nat /\ 1 <= Chunk
  BY LenProperties
<1>2. /\ \A v \in 1..Threads : FoundBy(after[v]) = FoundBy(jobs[v])
      /\ \A v \in 1..Threads \ {w} : Rest(after[v]) = Rest(jobs[v])
      /\ Rest(jobs[w]) = {}
      /\ \A i \in Rest(after[w]) : i \in Nat /\ claimed < i /\ i <= n
  <2>1. \A v \in 1..Threads : FoundBy(after[v]) = FoundBy(jobs[v])
    BY DEF FoundBy
  <2>2. \A v \in 1..Threads \ {w} : Rest(after[v]) = Rest(jobs[v])
    OBVIOUS
  <2>3. Rest(jobs[w]) = {}
    BY DEF Rest
  <2>4. \A i \in Rest(after[w]) : i \in Nat /\ claimed < i /\ i <= n
    <3>1. CASE after[w].pc = "done"
      BY <3>1 DEF Rest
    <3>2. CASE after[w].pc = "visit"
      BY <1>1, <3>2 DEF Rest
    <3> QED
      BY <3>1, <3>2
  <2> QED
    BY <2>1, <2>2, <2>3, <2>4
<1>3. \A v \in 1..Threads : \A i \in Rest(jobs[v]) : i \in Nat /\ i <= claimed /\ i <= n
  BY <1>1, JobFacts DEF Shared, ClaimsDisjoint, Rest
<1>4. \A v \in 1..Threads : \A i \in FoundBy(jobs[v]) :
         i \in Marked(archive, "hit") /\ i \in Nat /\ i <= claimed
  BY <1>1 DEF Shared, ClaimsDisjoint, Marked
<1>5. ClaimsDisjoint(after, claimed + Chunk, archive)
  <2>1. \A v \in 1..Threads : after[v].pc = "visit" =>
           /\ 1 <= after[v].pos /\ after[v].pos <= after[v].stop
           /\ after[v].stop <= n /\ after[v].stop <= claimed + Chunk
    <3>1. ASSUME after[w].pc = "visit"
          PROVE  /\ 1 <= after[w].pos /\ after[w].pos <= after[w].stop
                 /\ after[w].stop <= n /\ after[w].stop <= claimed + Chunk
      BY <1>1, <3>1
    <3>2. ASSUME NEW v \in 1..Threads \ {w}, after[v].pc = "visit"
          PROVE  /\ 1 <= after[v].pos /\ after[v].pos <= after[v].stop
                 /\ after[v].stop <= n /\ after[v].stop <= claimed + Chunk
      <4>1. /\ jobs[v].pc = "visit" /\ jobs[v].pos \in Nat /\ jobs[v].stop \in Nat
            /\ after[v] = jobs[v]
        BY <3>2, JobFacts
      <4>2. /\ 1 <= jobs[v].pos /\ jobs[v].pos <= jobs[v].stop
            /\ jobs[v].stop <= n /\ jobs[v].stop <= claimed
        BY <4>1 DEF Shared, ClaimsDisjoint
      <4> QED
        BY <1>1, <4>1, <4>2
    <3> QED
      BY <3>1, <3>2
  <2>2. \A v \in 1..Threads : \A k, l \in DOMAIN after[v].hits :
           after[v].hits[k] = after[v].hits[l] => k = l
    BY DEF Shared, ClaimsDisjoint
  <2>3. \A v \in 1..Threads : \A i \in FoundBy(after[v]) :
           i \in Marked(archive, "hit") /\ i <= claimed + Chunk
    BY <1>1, <1>2, <1>4
  <2>4. \A u, v \in 1..Threads :
           /\ FoundBy(after[u]) \intersect Rest(after[v]) = {}
           /\ v # u => FoundBy(after[u]) \intersect FoundBy(after[v]) = {}
    <3>1. \A u \in 1..Threads : FoundBy(after[u]) \intersect Rest(after[w]) = {}
      BY <1>1, <1>2, <1>4
    <3> QED
      BY <1>2, <3>1 DEF Shared, ClaimsDisjoint
  <2>5. \A u, v \in 1..Threads : v # u => Rest(after[u]) \intersect Rest(after[v]) = {}
    <3>1. \A u \in 1..Threads \ {w} : Rest(after[u]) \intersect Rest(after[w]) = {}
      BY <1>1, <1>2, <1>3
    <3> QED
      BY <1>2, <3>1 DEF Shared, ClaimsDisjoint
  <2> QED
    BY <2>1, <2>2, <2>3, <2>4, <2>5 DEF ClaimsDisjoint
<1>6. ClaimsKept(after, claimed + Chunk, archive)
  <2>1. SUFFICES ASSUME \A v \in 1..Threads : after[v].pc \notin {"bad", "panic"},
                        NEW i \in 1..n, i <= claimed + Chunk, archive[i] # "miss"
                 PROVE  \E v \in 1..Threads : i \in FoundBy(after[v]) \union Rest(after[v])
    BY DEF ClaimsKept
  <2>2. CASE i <= claimed
    <3>1. \A v \in 1..Threads : jobs[v].pc \notin {"bad", "panic"}
      BY <2>1
    <3>2. PICK v \in 1..Threads : i \in FoundBy(jobs[v]) \union Rest(jobs[v])
      BY <2>1, <2>2, <3>1 DEF Shared, ClaimsKept
    <3> QED
      BY <1>2, <3>2
  <2>3. CASE claimed < i
    BY <1>1, <2>1, <2>3 DEF Rest
  <2> QED
    BY <1>1, <2>2, <2>3
<1>7. WorkersEnd(after, claimed + Chunk, archive)
  BY <1>1 DEF Shared, WorkersEnd
<1> QED
  BY <1>5, <1>6, <1>7 DEF Shared

LEMMA AppendStaysInjective ==
  ASSUME NEW job, NEW after, job.hits \in Seq(Nat), NEW p \in Nat,
         after.hits = Append(job.hits, p),
         \A k \in DOMAIN job.hits : job.hits[k] # p,
         \A k, l \in DOMAIN job.hits : job.hits[k] = job.hits[l] => k = l
  PROVE  \A k, l \in DOMAIN after.hits : after.hits[k] = after.hits[l] => k = l
<1>1. PICK m \in Nat : m = Len(job.hits)
  BY LenProperties
<1>2. /\ DOMAIN job.hits = 1..m /\ DOMAIN after.hits = 1..(m + 1)
      /\ \A k \in 1..m : after.hits[k] = job.hits[k]
      /\ after.hits[m + 1] = p
  BY <1>1, AppendProperties, LenProperties
<1>3. 1..(m + 1) = 1..m \union {m + 1}
  OBVIOUS
<1>4. ASSUME NEW k \in DOMAIN after.hits, NEW l \in DOMAIN after.hits, after.hits[k] = after.hits[l]
      PROVE  k = l
  <2>1. k \in 1..m \/ k = m + 1
    BY <1>2, <1>3
  <2>2. l \in 1..m \/ l = m + 1
    BY <1>2, <1>3
  <2> QED
    BY <1>2, <1>4, <2>1, <2>2
<1> QED
  BY <1>4

LEMMA AppendedJob ==
  ASSUME NEW job, NEW after, job.hits \in Seq(Nat), NEW p \in Nat,
         after.hits = Append(job.hits, p)
  PROVE  FoundBy(after) = FoundBy(job) \union {p}
<1>1. PICK m \in Nat : m = Len(job.hits)
  BY LenProperties
<1>2. /\ DOMAIN job.hits = 1..m /\ DOMAIN after.hits = 1..(m + 1)
      /\ \A k \in 1..m : after.hits[k] = job.hits[k]
      /\ after.hits[m + 1] = p
  BY <1>1, AppendProperties, LenProperties
<1>3. 1..(m + 1) = 1..m \union {m + 1}
  OBVIOUS
<1>4. FoundBy(after) \subseteq FoundBy(job) \union {p}
  BY <1>2, <1>3 DEF FoundBy
<1>5. FoundBy(job) \union {p} \subseteq FoundBy(after)
  BY <1>2, <1>3 DEF FoundBy
<1> QED
  BY <1>4, <1>5

LEMMA PassShares ==
  ASSUME NEW jobs \in Jobs, NEW claimed \in Nat, NEW archive \in Seq(Outcomes),
         Shared(jobs, claimed, archive),
         NEW w \in 1..Threads, jobs[w].pc = "visit",
         NEW p, p = jobs[w].pos,
         NEW after \in Jobs, \A v \in 1..Threads \ {w} : after[v] = jobs[v],
         after[w].pos = p + 1, after[w].stop = jobs[w].stop,
         after[w].pc = IF p < jobs[w].stop THEN "visit" ELSE "claim",
         \/ archive[p] = "hit" /\ after[w].hits = Append(jobs[w].hits, p)
         \/ archive[p] = "miss" /\ after[w].hits = jobs[w].hits
  PROVE  Shared(after, claimed, archive)
<1> DEFINE n == Len(archive)
<1>1. n \in Nat /\ DOMAIN archive = 1..n
  BY LenProperties
<1>2. /\ p \in Nat /\ 1 <= p /\ p <= jobs[w].stop /\ jobs[w].stop \in Nat
      /\ jobs[w].stop <= n /\ jobs[w].stop <= claimed
      /\ p \in 1..n /\ p <= claimed /\ jobs[w].hits \in Seq(Nat)
      /\ p \in Rest(jobs[w])
  BY <1>1, JobFacts DEF Shared, ClaimsDisjoint, Rest
<1>3. /\ \A v \in 1..Threads \ {w} : Rest(after[v]) = Rest(jobs[v])
      /\ \A v \in 1..Threads \ {w} : FoundBy(after[v]) = FoundBy(jobs[v])
  OBVIOUS
<1>4. Rest(after[w]) = Rest(jobs[w]) \ {p}
  BY <1>2 DEF Rest
<1>5. \/ /\ archive[p] = "hit" /\ FoundBy(after[w]) = FoundBy(jobs[w]) \union {p}
      \/ archive[p] = "miss" /\ FoundBy(after[w]) = FoundBy(jobs[w])
  <2>1. CASE archive[p] = "hit" /\ after[w].hits = Append(jobs[w].hits, p)
    <3>1. /\ jobs[w].hits \in Seq(Nat) /\ p \in Nat
          /\ after[w].hits = Append(jobs[w].hits, p)
      BY <1>2, <2>1
    <3>2. FoundBy(after[w]) = FoundBy(jobs[w]) \union {p}
      BY ONLY <3>1, AppendedJob
    <3> QED
      BY <2>1, <3>2
  <2>2. CASE archive[p] = "miss" /\ after[w].hits = jobs[w].hits
    BY <2>2 DEF FoundBy
  <2> QED
    BY <2>1, <2>2
<1>6. \A v \in 1..Threads : p \notin FoundBy(jobs[v])
  BY <1>2 DEF Shared, ClaimsDisjoint
<1>7. \A v \in 1..Threads \ {w} : p \notin Rest(jobs[v])
  BY <1>2 DEF Shared, ClaimsDisjoint
<1>8. ClaimsDisjoint(after, claimed, archive)
  <2>1. \A v \in 1..Threads : after[v].pc = "visit" =>
           /\ 1 <= after[v].pos /\ after[v].pos <= after[v].stop
           /\ after[v].stop <= n /\ after[v].stop <= claimed
    <3>1. ASSUME after[w].pc = "visit"
          PROVE  /\ 1 <= after[w].pos /\ after[w].pos <= after[w].stop
                 /\ after[w].stop <= n /\ after[w].stop <= claimed
      BY <1>1, <1>2, <3>1
    <3> QED
      BY <3>1 DEF Shared, ClaimsDisjoint
  <2>2. \A v \in 1..Threads : \A k, l \in DOMAIN after[v].hits :
           after[v].hits[k] = after[v].hits[l] => k = l
    <3>1. ASSUME archive[p] = "hit", after[w].hits = Append(jobs[w].hits, p)
          PROVE  \A k, l \in DOMAIN after[w].hits : after[w].hits[k] = after[w].hits[l] => k = l
      <4>1. \A k \in DOMAIN jobs[w].hits : jobs[w].hits[k] # p
        BY <1>6 DEF FoundBy
      <4>2. \A k, l \in DOMAIN jobs[w].hits : jobs[w].hits[k] = jobs[w].hits[l] => k = l
        BY DEF Shared, ClaimsDisjoint
      <4>3. /\ jobs[w].hits \in Seq(Nat) /\ p \in Nat
            /\ after[w].hits = Append(jobs[w].hits, p)
        BY <1>2, <3>1
      <4> DEFINE old == jobs[w]
                 new == after[w]
      <4>4. /\ old.hits \in Seq(Nat) /\ p \in Nat /\ new.hits = Append(old.hits, p)
            /\ \A k \in DOMAIN old.hits : old.hits[k] # p
            /\ \A k, l \in DOMAIN old.hits : old.hits[k] = old.hits[l] => k = l
        BY <4>1, <4>2, <4>3
      <4>5. \A k, l \in DOMAIN new.hits : new.hits[k] = new.hits[l] => k = l
        <5> HIDE DEF old, new
        <5> QED
          BY ONLY <4>4, AppendStaysInjective
      <4> QED
        BY <4>5
    <3>2. ASSUME after[w].hits = jobs[w].hits
          PROVE  \A k, l \in DOMAIN after[w].hits : after[w].hits[k] = after[w].hits[l] => k = l
      BY <3>2 DEF Shared, ClaimsDisjoint
    <3>3. \A k, l \in DOMAIN after[w].hits : after[w].hits[k] = after[w].hits[l] => k = l
      BY <3>1, <3>2
    <3>4. \A v \in 1..Threads \ {w} : \A k, l \in DOMAIN after[v].hits :
             after[v].hits[k] = after[v].hits[l] => k = l
      BY DEF Shared, ClaimsDisjoint
    <3> QED
      BY <3>3, <3>4
  <2>3. \A v \in 1..Threads : \A i \in FoundBy(after[v]) :
           i \in Marked(archive, "hit") /\ i <= claimed
    <3>1. archive[p] = "hit" => p \in Marked(archive, "hit")
      BY <1>1, <1>2 DEF Marked
    <3>2. \A v \in 1..Threads : \A i \in FoundBy(jobs[v]) :
           i \in Marked(archive, "hit") /\ i <= claimed
      BY DEF Shared, ClaimsDisjoint
    <3> QED
      BY <1>2, <1>3, <1>5, <3>1, <3>2
  <2>4. /\ \A u, v \in 1..Threads : FoundBy(jobs[u]) \intersect Rest(jobs[v]) = {}
        /\ \A u, v \in 1..Threads : v # u => Rest(jobs[u]) \intersect Rest(jobs[v]) = {}
        /\ \A u, v \in 1..Threads : v # u => FoundBy(jobs[u]) \intersect FoundBy(jobs[v]) = {}
    BY DEF Shared, ClaimsDisjoint
  <2>8. \A v \in 1..Threads : Rest(after[v]) \subseteq Rest(jobs[v]) /\ p \notin Rest(after[v])
    BY <1>3, <1>4, <1>7
  <2>9. /\ \A v \in 1..Threads : FoundBy(after[v]) \subseteq FoundBy(jobs[v]) \union {p}
        /\ \A v \in 1..Threads \ {w} : FoundBy(after[v]) = FoundBy(jobs[v])
    BY <1>3, <1>5
  <2>5. \A u, v \in 1..Threads : FoundBy(after[u]) \intersect Rest(after[v]) = {}
    <3>1. TAKE u, v \in 1..Threads
    <3>2. FoundBy(jobs[u]) \intersect Rest(jobs[v]) = {}
      BY <2>4
    <3> QED
      BY <2>8, <2>9, <3>2
  <2>6. \A u, v \in 1..Threads : v # u => Rest(after[u]) \intersect Rest(after[v]) = {}
    <3>1. TAKE u, v \in 1..Threads
    <3>2. v # u => Rest(jobs[u]) \intersect Rest(jobs[v]) = {}
      BY <2>4
    <3> QED
      BY <2>8, <3>2
  <2>7. \A u, v \in 1..Threads : v # u => FoundBy(after[u]) \intersect FoundBy(after[v]) = {}
    <3>1. TAKE u, v \in 1..Threads
    <3>2. v # u => FoundBy(jobs[u]) \intersect FoundBy(jobs[v]) = {}
      BY <2>4
    <3>3. p \notin FoundBy(jobs[u]) /\ p \notin FoundBy(jobs[v])
      BY <1>6
    <3>4. v # u => \/ FoundBy(after[u]) = FoundBy(jobs[u])
                   \/ FoundBy(after[v]) = FoundBy(jobs[v])
      BY <2>9
    <3>5. /\ FoundBy(after[u]) \subseteq FoundBy(jobs[u]) \union {p}
          /\ FoundBy(after[v]) \subseteq FoundBy(jobs[v]) \union {p}
      BY <2>9
    <3> QED
      BY <3>2, <3>3, <3>4, <3>5
  <2> QED
    BY <2>1, <2>2, <2>3, <2>5, <2>6, <2>7 DEF ClaimsDisjoint
<1>9. ClaimsKept(after, claimed, archive)
  <2>1. SUFFICES ASSUME \A v \in 1..Threads : after[v].pc \notin {"bad", "panic"},
                        NEW i \in 1..n, i <= claimed, archive[i] # "miss"
                 PROVE  \E v \in 1..Threads : i \in FoundBy(after[v]) \union Rest(after[v])
    BY DEF ClaimsKept
  <2>2. \A v \in 1..Threads : jobs[v].pc \notin {"bad", "panic"}
    BY <2>1
  <2>3. PICK v \in 1..Threads : i \in FoundBy(jobs[v]) \union Rest(jobs[v])
    BY <2>1, <2>2 DEF Shared, ClaimsKept
  <2> QED
    BY <1>3, <1>4, <1>5, <2>1, <2>3
<1>10. WorkersEnd(after, claimed, archive)
  BY <1>2 DEF Shared, WorkersEnd
<1> QED
  BY <1>8, <1>9, <1>10 DEF Shared

(* A document that is refused or panics ends its worker.                   *)
LEMMA StopShares ==
  ASSUME NEW jobs \in Jobs, NEW claimed \in Nat, NEW archive \in Seq(Outcomes),
         Shared(jobs, claimed, archive),
         NEW w \in 1..Threads, jobs[w].pc = "visit",
         archive[jobs[w].pos] \in {"bad", "panic"},
         NEW after \in Jobs, \A v \in 1..Threads \ {w} : after[v] = jobs[v],
         after[w].pc = archive[jobs[w].pos], after[w].hits = jobs[w].hits,
         NEW now \in {claimed, Len(archive)},
         archive[jobs[w].pos] = "panic" => now = claimed
  PROVE  Shared(after, now, archive)
<1> DEFINE n == Len(archive)
<1>1. n \in Nat /\ DOMAIN archive = 1..n
  BY LenProperties
<1>2. jobs[w].pos \in 1..n
  <2>1. jobs[w].pos \in Nat /\ jobs[w].stop \in Nat
    BY JobFacts
  <2>2. 1 <= jobs[w].pos /\ jobs[w].pos <= jobs[w].stop /\ jobs[w].stop <= n
    BY DEF Shared, ClaimsDisjoint
  <2> HIDE DEF n
  <2> QED
    BY ONLY <1>1, <2>1, <2>2
<1>3. /\ \A v \in 1..Threads \ {w} : Rest(after[v]) = Rest(jobs[v])
      /\ Rest(after[w]) = {}
      /\ \A v \in 1..Threads : FoundBy(after[v]) = FoundBy(jobs[v])
  <2>1. \A v \in 1..Threads \ {w} : Rest(after[v]) = Rest(jobs[v])
    OBVIOUS
  <2>2. Rest(after[w]) = {}
    BY DEF Rest
  <2>3. \A v \in 1..Threads : FoundBy(after[v]) = FoundBy(jobs[v])
    BY DEF FoundBy
  <2> QED
    BY <2>1, <2>2, <2>3
<1>4. ClaimsDisjoint(after, now, archive)
  <2>1. \A v \in 1..Threads : after[v].pc = "visit" =>
           /\ 1 <= after[v].pos /\ after[v].pos <= after[v].stop
           /\ after[v].stop <= n /\ after[v].stop <= now
    BY DEF Shared, ClaimsDisjoint
  <2>2. \A v \in 1..Threads : \A k, l \in DOMAIN after[v].hits :
           after[v].hits[k] = after[v].hits[l] => k = l
    BY DEF Shared, ClaimsDisjoint
  <2>3. \A v \in 1..Threads : \A i \in FoundBy(after[v]) :
           i \in Marked(archive, "hit") /\ i <= now
    <3>1. \A i \in Marked(archive, "hit") : i <= n
      BY <1>1 DEF Marked
    <3> QED
      BY <1>3, <3>1 DEF Shared, ClaimsDisjoint
  <2>4. /\ \A u, v \in 1..Threads : FoundBy(jobs[u]) \intersect Rest(jobs[v]) = {}
        /\ \A u, v \in 1..Threads : v # u => Rest(jobs[u]) \intersect Rest(jobs[v]) = {}
        /\ \A u, v \in 1..Threads : v # u => FoundBy(jobs[u]) \intersect FoundBy(jobs[v]) = {}
    BY DEF Shared, ClaimsDisjoint
  <2>5. \A v \in 1..Threads : Rest(after[v]) \subseteq Rest(jobs[v])
    BY <1>3
  <2>6. /\ \A u, v \in 1..Threads : FoundBy(after[u]) \intersect Rest(after[v]) = {}
        /\ \A u, v \in 1..Threads : v # u => Rest(after[u]) \intersect Rest(after[v]) = {}
        /\ \A u, v \in 1..Threads : v # u => FoundBy(after[u]) \intersect FoundBy(after[v]) = {}
    <3>1. \A u, v \in 1..Threads : FoundBy(after[u]) \intersect Rest(after[v]) = {}
      BY <1>3, <2>4, <2>5
    <3>2. \A u, v \in 1..Threads : v # u => FoundBy(after[u]) \intersect FoundBy(after[v]) = {}
      BY <1>3, <2>4
    <3>3. ASSUME NEW u \in 1..Threads, NEW v \in 1..Threads, v # u
          PROVE  Rest(after[u]) \intersect Rest(after[v]) = {}
      <4>1. Rest(jobs[u]) \intersect Rest(jobs[v]) = {}
        BY <2>4, <3>3
      <4> QED
        BY <2>5, <4>1
    <3> QED
      BY <3>1, <3>2, <3>3
  <2> QED
    BY <2>1, <2>2, <2>3, <2>6 DEF ClaimsDisjoint
<1>5. ClaimsKept(after, now, archive)
  BY DEF ClaimsKept
<1>6. WorkersEnd(after, now, archive)
  <2>1. Marked(archive, after[w].pc) # {}
    BY <1>1, <1>2 DEF Marked
  <2>2. \A v \in 1..Threads : /\ jobs[v].pc # "idle"
                              /\ jobs[v].pc = "done" /\ v <= n => n <= now
                              /\ jobs[v].pc \in {"bad", "panic"} => Marked(archive, jobs[v].pc) # {}
    BY <1>1 DEF Shared, WorkersEnd
  <2>3. \A v \in 1..Threads \ {w} : after[v].pc = jobs[v].pc
    OBVIOUS
  <2>4. after[w].pc \in {"bad", "panic"}
    OBVIOUS
  <2> QED
    BY <2>1, <2>2, <2>3, <2>4 DEF WorkersEnd
<1> QED
  BY <1>4, <1>5, <1>6 DEF Shared

LEMMA LaunchShares ==
  ASSUME NEW archive \in Seq(Outcomes), Len(archive) > 0, NEW after \in Jobs,
         \A w \in 1..Threads : /\ after[w].hits = <<>>
                               /\ after[w].pc = IF w \in 1..(IF Len(archive) < Threads THEN Len(archive) ELSE Threads)
                                                THEN "claim" ELSE "done"
  PROVE  Shared(after, 0, archive)
<1>1. Len(archive) \in Nat
  BY LenProperties
<1>2. \A w \in 1..Threads : Rest(after[w]) = {} /\ FoundBy(after[w]) = {}
  BY DEF Rest, FoundBy
<1>3. ClaimsDisjoint(after, 0, archive)
  <2>1. \A w \in 1..Threads : DOMAIN after[w].hits = {} /\ after[w].pc # "visit"
    OBVIOUS
  <2> QED
    BY <1>2, <2>1 DEF ClaimsDisjoint
<1>4. ClaimsKept(after, 0, archive)
  BY <1>1 DEF ClaimsKept
<1>5. WorkersEnd(after, 0, archive)
  BY <1>1 DEF WorkersEnd
<1> QED
  BY <1>3, <1>4, <1>5 DEF Shared

-----------------------------------------------------------------------------
(* The same, step by step.                                                 *)

LEMMA SharingFramed ==
  ASSUME NEW d \in Calls, Sharing(d), docs' = docs, call'[d] = call[d],
         next'[d] = next[d], worker'[d] = worker[d]
  PROVE  Sharing(d)'
  BY DEF Sharing, Answers, Where, Lists, N

(* A step of a call on its way to the sweep.                               *)
LEMMA PlainWork ==
  ASSUME Work, NEW c \in Calls, UNCHANGED <<docs, next, worker>>, Others(c),
         call[c].pc # "sweep", call'[c].pc \notin {"sweep", "done", "idle"}, N > 0
  PROVE  Work'
<1>1. WorkTypes'
  BY DEF Work, WorkTypes, WorkerState, Outcomes
<1>2. \A d \in Calls \ {c} : Sharing(d)'
  BY SharingFramed DEF Work, Others
<1>3. Sharing(c)'
  BY DEF Work, Sharing, N
<1> QED
  BY <1>1, <1>2, <1>3 DEF Work

LEMMA BeforeSweep ==
  ASSUME Control, Work, NEW c \in Calls,
         \/ Lock(c, "lock", "peek") \/ Lock(c, "relock", "put")
         \/ Peek(c) \/ Build(c) \/ Put(c) \/ Load(c) \/ Swap(c)
  PROVE  Work'
<1>1. CallShape
  BY DEF Control, ControlTypes
<1>2. /\ UNCHANGED <<docs, next, worker>>
      /\ call[c].pc \in {"lock", "relock", "peek", "build", "put", "load", "swap"}
  BY DEF Lock, Peek, Build, Put, Load, Swap, At
<1>3. Others(c) /\ call'[c].pc \notin {"sweep", "done", "idle"}
  <2>1. CASE Lock(c, "lock", "peek") \/ Lock(c, "relock", "put")
    BY <1>1, <2>1, StepMoves DEF Lock
  <2>2. CASE Peek(c)
    <3>1. SetsPool(c, "load", slot[Home(c)].pool) \/ Step(c, "build")
      BY <2>2 DEF Peek, SetsPool
    <3> QED
      BY <1>1, <3>1, StepMoves, TakesPool
  <2>3. CASE Build(c)
    <3>1. SetsPool(c, "relock", [builder |-> Home(c), by |-> c])
      BY <2>3 DEF Build, SetsPool
    <3> QED
      BY <1>1, <3>1, TakesPool
  <2>4. CASE Put(c)
    <3>1. SetsPool(c, "load", slot[Home(c)].pool) \/ Step(c, "load")
      BY <2>4 DEF Put, SetsPool
    <3> QED
      BY <1>1, <3>1, StepMoves, TakesPool
  <2>5. CASE Load(c)
    <3>1. SetsHeld(c, "swap", busy[Home(c)]) \/ SetsHeld(c, "spawn", busy[Home(c)])
      BY <2>5 DEF Load, SetsHeld
    <3> QED
      BY <1>1, <3>1, TakesHeld
  <2>6. CASE Swap(c)
    <3>1. SetsPooled(c, "broadcast", TRUE) \/ Step(c, "spawn")
      BY <2>6 DEF Swap, SetsPooled
    <3>2. ASSUME SetsPooled(c, "broadcast", TRUE)
          PROVE  /\ CallShape' /\ Others(c) /\ call'[c].pc = "broadcast"
                 /\ call'[c].pooled = TRUE
      BY <1>1, <3>2, TakesPooled
    <3>3. ASSUME Step(c, "spawn")
          PROVE  Others(c) /\ call'[c].pc = "spawn"
      BY <1>1, <3>3, StepMoves
    <3> QED
      BY <3>1, <3>2, <3>3
  <2> QED
    BY <2>1, <2>2, <2>3, <2>4, <2>5, <2>6
<1>4. N > 0
  BY <1>2 DEF Work, Sharing
<1> QED
  BY <1>2, <1>3, <1>4, PlainWork

LEMMA LaunchWork ==
  ASSUME Control, Work, NEW c \in Calls, Launch(c)
  PROVE  Work'
<1>1. /\ call[c].pc \in {"broadcast", "spawn"} /\ call'[c].pc = "sweep" /\ Others(c)
      /\ UNCHANGED <<docs, next>>
  BY StepMoves DEF Launch, At, Control, ControlTypes
<1>2. /\ docs \in Seq(Outcomes) /\ Len(docs) > 0 /\ next[c] = 0
      /\ worker[c] = [w \in 1..Threads |-> NewWorker]
      /\ worker \in [Calls -> Jobs]
  BY <1>1 DEF Work, WorkTypes, Sharing, N, Jobs
<1>3. worker' = [worker EXCEPT ![c] = [w \in 1..Threads |->
         [worker[c][w] EXCEPT !.pc = IF w \in Workers THEN "claim" ELSE "done"]]]
  BY DEF Launch
<1>4. \A w \in 1..Threads :
        [worker[c][w] EXCEPT !.pc = IF w \in Workers THEN "claim" ELSE "done"] =
        [pc |-> IF w \in Workers THEN "claim" ELSE "done", pos |-> 0, stop |-> 0, hits |-> <<>>]
  BY <1>2 DEF NewWorker
<1>5. /\ worker' \in [Calls -> Jobs]
      /\ \A d \in Calls \ {c} : worker'[d] = worker[d]
      /\ \A w \in 1..Threads : /\ worker'[c][w].hits = <<>>
                                /\ worker'[c][w].pc = IF w \in Workers THEN "claim" ELSE "done"
  <2> DEFINE fresh == [w \in 1..Threads |->
         [pc |-> IF w \in Workers THEN "claim" ELSE "done", pos |-> 0, stop |-> 0, hits |-> <<>>]]
  <2>1. fresh \in Jobs /\ \A w \in 1..Threads : /\ fresh[w].hits = <<>>
                                /\ fresh[w].pc = IF w \in Workers THEN "claim" ELSE "done"
    BY DEF Jobs, WorkerState
  <2>2. worker' = [worker EXCEPT ![c] = fresh]
    <3>1. [w \in 1..Threads |->
             [worker[c][w] EXCEPT !.pc = IF w \in Workers THEN "claim" ELSE "done"]] = fresh
      BY ONLY <1>4
    <3> HIDE DEF fresh
    <3> QED
      BY ONLY <1>3, <3>1
  <2> HIDE DEF fresh
  <2> QED
    BY <1>2, <2>1, <2>2
<1>6. Shared(worker'[c], 0, docs)
  <2>1. worker'[c] \in Jobs
    BY <1>5
  <2> QED
    BY <1>2, <1>5, <2>1, LaunchShares DEF Workers, N
<1>7. WorkTypes'
  BY <1>1, <1>5 DEF Work, WorkTypes, Jobs, WorkerState, Outcomes
<1>8. \A d \in Calls \ {c} : Sharing(d)'
  BY <1>1, <1>5, SharingFramed DEF Work, Others
<1>9. Sharing(c)'
  BY <1>1, <1>2, <1>6 DEF Sharing, N
<1> QED
  BY <1>7, <1>8, <1>9 DEF Work

(* A step of one worker.                                                   *)
LEMMA JobWork ==
  ASSUME Work, NEW c \in Calls, call[c].pc = "sweep", UNCHANGED <<docs, call>>,
         NEW w \in 1..Threads, NEW job \in WorkerState, NEW now \in Nat,
         worker' = [worker EXCEPT ![c] = [worker[c] EXCEPT ![w] = job]],
         next' = [next EXCEPT ![c] = now],
         Shared([worker[c] EXCEPT ![w] = job], now, docs)
  PROVE  Work'
<1> DEFINE after == [worker[c] EXCEPT ![w] = job]
<1>1. /\ docs \in Seq(Outcomes) /\ next \in [Calls -> Nat]
      /\ worker \in [Calls -> Jobs] /\ after \in Jobs
  BY DEF Work, WorkTypes, Jobs
<1>2. /\ worker' = [worker EXCEPT ![c] = after] /\ Shared(after, now, docs)
  OBVIOUS
<1> HIDE DEF after
<1>3. /\ next' \in [Calls -> Nat] /\ next'[c] = now
      /\ worker' \in [Calls -> Jobs] /\ worker'[c] = after
      /\ \A d \in Calls \ {c} : next'[d] = next[d] /\ worker'[d] = worker[d]
  BY <1>1, <1>2
<1>4. WorkTypes'
  BY <1>1, <1>3 DEF WorkTypes, Jobs, WorkerState, Outcomes
<1>5. \A d \in Calls \ {c} : Sharing(d)'
  BY <1>3, SharingFramed DEF Work
<1>6. Sharing(c)'
  BY <1>2, <1>3 DEF Sharing, N, Work
<1> QED
  BY <1>4, <1>5, <1>6 DEF Work

LEMMA ClaimWork ==
  ASSUME Work, NEW c \in Calls, NEW w \in 1..Threads, Claim(c, w)
  PROVE  Work'
<1>1. /\ call[c].pc = "sweep" /\ worker[c][w].pc = "claim" /\ UNCHANGED <<docs, call>>
      /\ next' = [next EXCEPT ![c] = next[c] + Chunk]
  BY DEF Claim, Works, At
<1>2. /\ docs \in Seq(Outcomes) /\ next \in [Calls -> Nat] /\ next[c] \in Nat
      /\ worker \in [Calls -> Jobs] /\ worker[c] \in Jobs
      /\ Len(docs) \in Nat
      /\ Shared(worker[c], next[c], docs)
  BY <1>1, LenProperties DEF Work, WorkTypes, Sharing, Jobs
<1>4. worker' = [worker EXCEPT ![c] = [worker[c] EXCEPT ![w] =
         IF next[c] >= Len(docs) THEN [worker[c][w] EXCEPT !.pc = "done"]
         ELSE [worker[c][w] EXCEPT !.pc = "visit", !.pos = next[c] + 1,
                 !.stop = IF next[c] + Chunk < Len(docs) THEN next[c] + Chunk ELSE Len(docs)]]]
  BY <1>2 DEF Claim, N, Jobs
<1>5. PICK job \in WorkerState :
        /\ worker' = [worker EXCEPT ![c] = [worker[c] EXCEPT ![w] = job]]
        /\ job.hits = worker[c][w].hits
        /\ \/ Len(docs) <= next[c] /\ job.pc = "done"
           \/ /\ next[c] < Len(docs) /\ job.pc = "visit" /\ job.pos = next[c] + 1
              /\ job.stop = IF next[c] + Chunk < Len(docs) THEN next[c] + Chunk ELSE Len(docs)
  <2>1. worker[c][w] \in WorkerState
    BY <1>2 DEF Jobs
  <2>2. CASE next[c] >= Len(docs)
    <3>1. [worker[c][w] EXCEPT !.pc = "done"] \in WorkerState
      BY <2>1 DEF WorkerState
    <3>2. /\ [worker[c][w] EXCEPT !.pc = "done"].hits = worker[c][w].hits
          /\ [worker[c][w] EXCEPT !.pc = "done"].pc = "done"
      BY <2>1 DEF WorkerState
    <3>3. worker' = [worker EXCEPT ![c] = [worker[c] EXCEPT ![w] = [worker[c][w] EXCEPT !.pc = "done"]]]
      BY <1>4, <2>2
    <3> QED
      BY <1>2, <2>2, <3>1, <3>2, <3>3
  <2>3. CASE ~(next[c] >= Len(docs))
    <3> DEFINE stop == IF next[c] + Chunk < Len(docs) THEN next[c] + Chunk ELSE Len(docs)
               job == [worker[c][w] EXCEPT !.pc = "visit", !.pos = next[c] + 1, !.stop = stop]
    <3>1. stop \in Nat /\ next[c] + 1 \in Nat
      BY <1>2
    <3>2. /\ job \in WorkerState /\ job.hits = worker[c][w].hits /\ job.pc = "visit"
          /\ job.pos = next[c] + 1 /\ job.stop = stop
      <4> HIDE DEF stop
      <4> QED
        BY <2>1, <3>1 DEF WorkerState
    <3>3. worker' = [worker EXCEPT ![c] = [worker[c] EXCEPT ![w] = job]]
      BY <1>4, <2>3
    <3>4. next[c] < Len(docs)
      BY <1>2, <2>3
    <3> HIDE DEF job
    <3> QED
      BY <3>2, <3>3, <3>4
  <2> QED
    BY <2>2, <2>3
<1> DEFINE after == [worker[c] EXCEPT ![w] = job]
<1>6. /\ after \in Jobs /\ after[w] = job
      /\ \A v \in 1..Threads \ {w} : after[v] = worker[c][v]
  BY <1>2 DEF Jobs
<1>7. Shared(after, next[c] + Chunk, docs)
  <2> HIDE DEF after
  <2> QED
    BY <1>1, <1>2, <1>5, <1>6, ClaimShares
<1>8. next[c] + Chunk \in Nat
  BY <1>2
<1> QED
  BY <1>1, <1>5, <1>7, <1>8, JobWork

LEMMA VisitWork ==
  ASSUME Work, NEW c \in Calls, NEW w \in 1..Threads, Visit(c, w)
  PROVE  Work'
<1> DEFINE p == worker[c][w].pos
<1>1. /\ call[c].pc = "sweep" /\ worker[c][w].pc = "visit" /\ UNCHANGED <<docs, call>>
  BY DEF Visit, Works, At
<1>2. /\ docs \in Seq(Outcomes) /\ next \in [Calls -> Nat] /\ next[c] \in Nat
      /\ worker \in [Calls -> Jobs] /\ worker[c] \in Jobs
      /\ worker[c][w] \in WorkerState /\ Len(docs) \in Nat /\ DOMAIN docs = 1..Len(docs)
      /\ Shared(worker[c], next[c], docs)
  BY <1>1, LenProperties DEF Work, WorkTypes, Sharing, Jobs
<1>3. p \in Nat /\ p \in 1..Len(docs) /\ docs[p] \in Outcomes
  <2>1. p \in Nat /\ worker[c][w].stop \in Nat
    BY <1>2, JobFacts
  <2>2. 1 <= p /\ p <= worker[c][w].stop /\ worker[c][w].stop <= Len(docs)
    BY <1>1, <1>2 DEF Shared, ClaimsDisjoint
  <2> QED
    BY <1>2, <2>1, <2>2, ElementOfSeq
<1>4. next' = [next EXCEPT ![c] = IF docs[p] = "bad" THEN Len(docs) ELSE next[c]]
  <2>1. next' = IF docs[p] = "bad" THEN [next EXCEPT ![c] = Len(docs)] ELSE next
    BY DEF Visit, N
  <2>2. next = [next EXCEPT ![c] = next[c]]
    BY <1>2
  <2> QED
    BY <2>1, <2>2
<1>5. PICK job \in WorkerState :
        /\ worker' = [worker EXCEPT ![c] = [worker[c] EXCEPT ![w] = job]]
        /\ \/ /\ job.pos = p + 1 /\ job.stop = worker[c][w].stop
              /\ job.pc = IF p < worker[c][w].stop THEN "visit" ELSE "claim"
              /\ \/ docs[p] = "hit" /\ job.hits = Append(worker[c][w].hits, p)
                 \/ docs[p] = "miss" /\ job.hits = worker[c][w].hits
           \/ /\ docs[p] \in {"bad", "panic"} /\ job.pc = docs[p]
              /\ job.hits = worker[c][w].hits
  <2> DEFINE old == worker[c][w]
             job == CASE docs[p] = "hit" -> Passed(old, Append(old.hits, p))
                      [] docs[p] = "miss" -> Passed(old, old.hits)
                      [] OTHER -> [old EXCEPT !.pc = docs[p]]
  <2>1. worker' = [worker EXCEPT ![c] = [worker[c] EXCEPT ![w] = job]]
    BY <1>2 DEF Visit, Jobs
  <2>2. old \in WorkerState /\ p \in Nat /\ p = old.pos /\ docs[p] \in Outcomes
    BY <1>2, <1>3
  <2>3. /\ job \in WorkerState
        /\ \/ /\ job.pos = p + 1 /\ job.stop = old.stop
              /\ job.pc = IF p < old.stop THEN "visit" ELSE "claim"
              /\ \/ docs[p] = "hit" /\ job.hits = Append(old.hits, p)
                 \/ docs[p] = "miss" /\ job.hits = old.hits
           \/ /\ docs[p] \in {"bad", "panic"} /\ job.pc = docs[p]
              /\ job.hits = old.hits
    <3>1. /\ old.hits \in Seq(Nat) /\ Append(old.hits, p) \in Seq(Nat)
          /\ old.pos \in Nat /\ old.stop \in Nat
      BY <2>2, AppendProperties DEF WorkerState
    <3>2. ASSUME docs[p] = "hit" PROVE job = Passed(old, Append(old.hits, p))
      BY <3>2
    <3>3. ASSUME docs[p] = "miss" PROVE job = Passed(old, old.hits)
      BY <3>3
    <3>4. ASSUME docs[p] \in {"bad", "panic"} PROVE job = [old EXCEPT !.pc = docs[p]]
      BY <3>4
    <3> HIDE DEF job
    <3>5. ASSUME NEW hits \in Seq(Nat), job = Passed(old, hits)
          PROVE  /\ job \in WorkerState /\ job.pos = p + 1 /\ job.stop = old.stop
                 /\ job.pc = (IF p < old.stop THEN "visit" ELSE "claim") /\ job.hits = hits
      <4> DEFINE pc == IF p < old.stop THEN "visit" ELSE "claim"
      <4>1. pc \in {"claim", "visit"} /\ p + 1 \in Nat
        BY <2>2
      <4>2. job = [old EXCEPT !.pos = p + 1, !.hits = hits, !.pc = pc]
        BY <2>2, <3>5 DEF Passed
      <4> HIDE DEF old, p, pc
      <4>3. /\ job \in WorkerState /\ job.pos = p + 1 /\ job.stop = old.stop
            /\ job.pc = pc /\ job.hits = hits
        BY <2>2, <4>1, <4>2 DEF WorkerState
      <4> QED
        BY <4>3 DEF pc
    <3>6. ASSUME docs[p] \in {"bad", "panic"}
          PROVE  job \in WorkerState /\ job.pc = docs[p] /\ job.hits = old.hits
      <4> HIDE DEF old, p
      <4> QED
        BY <2>2, <3>4, <3>6 DEF WorkerState
    <3>7. CASE docs[p] = "hit"
      <4> HIDE DEF old, p
      <4>1. /\ job \in WorkerState /\ job.pos = p + 1 /\ job.stop = old.stop
            /\ job.pc = (IF p < old.stop THEN "visit" ELSE "claim") /\ job.hits = Append(old.hits, p)
        BY <3>1, <3>2, <3>5, <3>7
      <4> QED
        BY <3>7, <4>1
    <3>8. CASE docs[p] = "miss"
      <4> HIDE DEF old, p
      <4>1. /\ job \in WorkerState /\ job.pos = p + 1 /\ job.stop = old.stop
            /\ job.pc = (IF p < old.stop THEN "visit" ELSE "claim") /\ job.hits = old.hits
        BY <3>1, <3>3, <3>5, <3>8
      <4> QED
        BY <3>8, <4>1
    <3>9. CASE docs[p] \in {"bad", "panic"}
      BY <3>6, <3>9
    <3> QED
      BY <2>2, <3>7, <3>8, <3>9 DEF Outcomes
  <2> HIDE DEF job
  <2> QED
    BY <2>1, <2>3
<1> DEFINE after == [worker[c] EXCEPT ![w] = job]
           now == IF docs[p] = "bad" THEN Len(docs) ELSE next[c]
<1>6. /\ after \in Jobs /\ after[w] = job
      /\ \A v \in 1..Threads \ {w} : after[v] = worker[c][v]
  BY <1>2 DEF Jobs
<1>7. Shared(after, now, docs)
  <2>1. CASE docs[p] \in {"hit", "miss"}
    <3>1. now = next[c]
      BY <2>1
    <3> DEFINE jobs == worker[c]
    <3>2. /\ jobs \in Jobs /\ Shared(jobs, next[c], docs) /\ jobs[w].pc = "visit" /\ p = jobs[w].pos
          /\ \A v \in 1..Threads \ {w} : after[v] = jobs[v]
          /\ after[w].pos = p + 1 /\ after[w].stop = jobs[w].stop
          /\ after[w].pc = IF p < jobs[w].stop THEN "visit" ELSE "claim"
          /\ \/ docs[p] = "hit" /\ after[w].hits = Append(jobs[w].hits, p)
             \/ docs[p] = "miss" /\ after[w].hits = jobs[w].hits
      BY <1>1, <1>2, <1>5, <1>6, <2>1
    <3>3. Shared(after, next[c], docs)
      <4>1. next[c] \in Nat /\ docs \in Seq(Outcomes) /\ after \in Jobs
        BY <1>2, <1>6
      <4> HIDE DEF after, jobs, p, now
      <4> QED
        BY ONLY <3>2, <4>1, w \in 1..Threads, PassShares
    <3> QED
      BY <3>1, <3>3
  <2>2. CASE docs[p] \in {"bad", "panic"}
    <3> DEFINE jobs == worker[c]
    <3>1. /\ jobs \in Jobs /\ Shared(jobs, next[c], docs) /\ jobs[w].pc = "visit" /\ p = jobs[w].pos
          /\ docs[jobs[w].pos] \in {"bad", "panic"}
          /\ \A v \in 1..Threads \ {w} : after[v] = jobs[v]
          /\ after[w].pc = docs[jobs[w].pos] /\ after[w].hits = jobs[w].hits
          /\ now \in {next[c], Len(docs)}
          /\ docs[jobs[w].pos] = "panic" => now = next[c]
      BY <1>1, <1>2, <1>5, <1>6, <2>2
    <3>2. next[c] \in Nat /\ docs \in Seq(Outcomes) /\ after \in Jobs
      BY <1>2, <1>6
    <3> HIDE DEF after, jobs, p, now
    <3> QED
      BY ONLY <3>1, <3>2, w \in 1..Threads, StopShares
  <2> QED
    BY <1>3, <2>1, <2>2 DEF Outcomes
<1>8. now \in Nat
  BY <1>2
<1> QED
  BY <1>1, <1>4, <1>5, <1>7, <1>8, JobWork

(* When every worker is through, the documents were hits and misses, and   *)
(* the hits are with the workers.                                          *)
LEMMA AllThrough ==
  ASSUME NEW jobs \in Jobs, NEW claimed \in Nat, NEW archive \in Seq(Outcomes),
         Len(archive) > 0, Shared(jobs, claimed, archive),
         \A w \in 1..Threads : jobs[w].pc = "done"
  PROVE  /\ Marked(archive, "bad") = {} /\ Marked(archive, "panic") = {}
         /\ UNION {FoundBy(jobs[w]) : w \in 1..Threads} = Marked(archive, "hit")
<1> DEFINE n == Len(archive)
<1>1. n \in Nat /\ DOMAIN archive = 1..n /\ 1 \in 1..Threads
  BY LenProperties
<1>2. n <= claimed
  BY <1>1 DEF Shared, WorkersEnd
<1>3. \A w \in 1..Threads : Rest(jobs[w]) = {}
  BY DEF Rest
<1>4. \A w \in 1..Threads : FoundBy(jobs[w]) \subseteq Marked(archive, "hit")
  BY DEF Shared, ClaimsDisjoint
<1>5. \A i \in 1..n : archive[i] = "miss" \/ \E w \in 1..Threads : i \in FoundBy(jobs[w])
  <2>1. TAKE i \in 1..n
  <2>2. i <= claimed
    BY <1>1, <1>2
  <2>3. \A w \in 1..Threads : jobs[w].pc \notin {"bad", "panic"}
    OBVIOUS
  <2>4. archive[i] = "miss" \/ \E w \in 1..Threads : i \in FoundBy(jobs[w]) \union Rest(jobs[w])
    BY <2>2, <2>3 DEF Shared, ClaimsKept
  <2> QED
    BY <1>3, <2>4
<1>6. \A i \in 1..n : archive[i] \in {"hit", "miss"}
  BY <1>4, <1>5 DEF Marked
<1>7. Marked(archive, "bad") = {} /\ Marked(archive, "panic") = {}
  BY <1>1, <1>6 DEF Marked
<1>8. \A i \in Marked(archive, "hit") : \E w \in 1..Threads : i \in FoundBy(jobs[w])
  BY <1>1, <1>5 DEF Marked
<1> QED
  BY <1>4, <1>7, <1>8

(* The workers' hits are each at one place of one of them.                 *)
LEMMA HitsApart ==
  ASSUME NEW jobs \in Jobs, NEW claimed, NEW archive, ClaimsDisjoint(jobs, claimed, archive),
         NEW v \in 1..Threads, NEW w \in 1..Threads,
         NEW k \in DOMAIN jobs[v].hits, NEW l \in DOMAIN jobs[w].hits,
         jobs[v].hits[k] = jobs[w].hits[l]
  PROVE  v = w /\ k = l
<1>1. v # w => FoundBy(jobs[w]) \intersect FoundBy(jobs[v]) = {}
  BY DEF ClaimsDisjoint
<1>2. jobs[v].hits[k] \in FoundBy(jobs[v]) /\ jobs[w].hits[l] \in FoundBy(jobs[w])
  BY DEF FoundBy
<1>3. v = w
  BY <1>1, <1>2
<1> QED
  BY <1>3 DEF ClaimsDisjoint

(* Sorted by position, hits that are each at one place are listed.         *)
LEMMA SortedHits ==
  ASSUME NEW c \in Calls, worker[c] \in Jobs, NEW order \in Sortings(c), NEW found,
         UNION {FoundBy(worker[c][w]) : w \in 1..Threads} = found,
         \A v, w \in 1..Threads :
            \A k \in DOMAIN worker[c][v].hits, l \in DOMAIN worker[c][w].hits :
               worker[c][v].hits[k] = worker[c][w].hits[l] => v = w /\ k = l
  PROVE  Lists([k \in DOMAIN order |-> HitAt(c, order[k])], found)
<1> DEFINE n == Cardinality(Places(c))
           hits == [k \in DOMAIN order |-> HitAt(c, order[k])]
<1>1. /\ DOMAIN order = 1..n /\ \A k \in 1..n : order[k] \in Places(c)
      /\ \A k, l \in 1..n : order[k] = order[l] => k = l
      /\ \A place \in Places(c) : \E k \in 1..n : order[k] = place
      /\ \A k, l \in 1..n : k < l => HitAt(c, order[k]) <= HitAt(c, order[l])
  BY DEF Sortings, Bijection, Injection, Surjection, IsInjective
<1> HIDE DEF n
<1>2. \A place \in Places(c) :
        \E w \in 1..Threads : \E k \in DOMAIN worker[c][w].hits :
           place = <<w, k>> /\ HitAt(c, place) = worker[c][w].hits[k]
  BY DEF Places, HitAt
<1>3. \A w \in 1..Threads : worker[c][w].hits \in Seq(Nat)
  BY DEF Jobs, WorkerState
<1>4. \A place \in Places(c) : HitAt(c, place) \in Nat
  BY <1>2, <1>3
<1>5. ASSUME NEW p \in Places(c), NEW q \in Places(c), HitAt(c, p) = HitAt(c, q) PROVE p = q
  <2>1. PICK v \in 1..Threads : \E k \in DOMAIN worker[c][v].hits :
           p = <<v, k>> /\ HitAt(c, p) = worker[c][v].hits[k]
    BY <1>2
  <2>2. PICK w \in 1..Threads : \E l \in DOMAIN worker[c][w].hits :
           q = <<w, l>> /\ HitAt(c, q) = worker[c][w].hits[l]
    BY <1>2
  <2>3. PICK k \in DOMAIN worker[c][v].hits : p = <<v, k>> /\ HitAt(c, p) = worker[c][v].hits[k]
    BY <2>1
  <2>4. PICK l \in DOMAIN worker[c][w].hits : q = <<w, l>> /\ HitAt(c, q) = worker[c][w].hits[l]
    BY <2>2
  <2>5. v = w /\ k = l
    BY <1>5, <2>3, <2>4
  <2> QED
    BY <2>3, <2>4, <2>5
<1>6. ASSUME NEW k \in 1..n, NEW l \in 1..n, k < l PROVE hits[k] < hits[l]
  <2>1. /\ order[k] \in Places(c) /\ order[l] \in Places(c)
        /\ order[k] # order[l] /\ HitAt(c, order[k]) <= HitAt(c, order[l])
        /\ hits[k] = HitAt(c, order[k]) /\ hits[l] = HitAt(c, order[l])
    <3>1. k # l
      BY ONLY <1>6, k \in 1..n, l \in 1..n
    <3> QED
      BY <1>1, <1>6, <3>1
  <2>2. /\ HitAt(c, order[k]) \in Nat /\ HitAt(c, order[l]) \in Nat
        /\ HitAt(c, order[k]) # HitAt(c, order[l])
    BY <1>4, <1>5, <2>1
  <2> QED
    BY ONLY <2>1, <2>2
<1>7. \A k \in 1..n : hits[k] \in found
  <2>1. TAKE k \in 1..n
  <2>2. hits[k] = HitAt(c, order[k]) /\ order[k] \in Places(c)
    BY <1>1
  <2>3. PICK w \in 1..Threads : \E m \in DOMAIN worker[c][w].hits : hits[k] = worker[c][w].hits[m]
    BY <1>2, <2>2
  <2> QED
    BY <2>3 DEF FoundBy
<1>8. ASSUME NEW i \in found PROVE \E k \in 1..n : hits[k] = i
  <2>1. PICK w \in 1..Threads : i \in FoundBy(worker[c][w])
    BY <1>8
  <2> PICK m \in DOMAIN worker[c][w].hits : i = worker[c][w].hits[m]
    BY <2>1 DEF FoundBy
  <2>2. <<w, m>> \in Places(c) /\ HitAt(c, <<w, m>>) = i
    BY <2>1 DEF Places, HitAt
  <2>3. PICK k \in 1..n : order[k] = <<w, m>>
    BY <1>1, <2>2
  <2> QED
    BY <1>1, <2>2, <2>3
<1>9. DOMAIN hits = 1..n
  BY <1>1
<1> HIDE DEF hits
<1>10. {hits[k] : k \in DOMAIN hits} = found
  BY <1>7, <1>8, <1>9
<1>11. Lists(hits, found)
  BY <1>6, <1>9, <1>10 DEF Lists
<1> QED
  BY <1>11 DEF hits

LEMMA CollectWork ==
  ASSUME Control, Work, NEW c \in Calls, Collect(c)
  PROVE  Work'
<1> DEFINE result == Result(c)
<1>0. PICK order \in Sortings(c) : SetsDone(c, result, Ordered(c, order))
  BY CollectDone
<1>1. /\ CallShape' /\ Others(c) /\ call'[c].pc = "done" /\ call'[c].result = result
      /\ call'[c].hits = Ordered(c, order)
  <2>1. CallShape
    BY DEF Control, ControlTypes
  <2> QED
    BY <1>0, <2>1, Collects
<1>2. /\ call[c].pc = "sweep" /\ UNCHANGED docs
      /\ \A w \in 1..Threads : worker[c][w].pc \in {"done", "bad", "panic"}
      /\ next' = [next EXCEPT ![c] = 0]
      /\ worker' = [worker EXCEPT ![c] = [w \in 1..Threads |-> NewWorker]]
  BY Zenon DEF Collect, At
<1>3. /\ docs \in Seq(Outcomes) /\ Len(docs) > 0 /\ next \in [Calls -> Nat]
      /\ worker \in [Calls -> Jobs] /\ worker[c] \in Jobs /\ next[c] \in Nat
      /\ Shared(worker[c], next[c], docs)
  BY <1>2 DEF Work, WorkTypes, Sharing, N, Jobs
<1>4. /\ result = "ok" => /\ Where("bad") \union Where("panic") = {}
                          /\ Lists(Ordered(c, order), Where("hit"))
      /\ result = "err" => Where("bad") # {}
      /\ result = "panic" => Where("panic") # {}
  <2>1. ASSUME NEW pc \in {"bad", "panic"}, Ended(c, pc) PROVE Where(pc) # {}
    BY <1>3, <2>1 DEF Shared, WorkersEnd, Where, Ended
  <2>2. CASE Ended(c, "panic")
    BY <2>1, <2>2 DEF Result
  <2>3. CASE ~Ended(c, "panic") /\ Ended(c, "bad")
    BY <2>1, <2>3 DEF Result
  <2>4. CASE ~Ended(c, "panic") /\ ~Ended(c, "bad")
    <3>1. \A w \in 1..Threads : worker[c][w].pc = "done"
      BY <1>2, <2>4 DEF Ended
    <3>2. /\ Where("bad") = {} /\ Where("panic") = {}
          /\ UNION {FoundBy(worker[c][w]) : w \in 1..Threads} = Where("hit")
      BY <1>3, <3>1, AllThrough DEF Where
    <3>3. \A v, w \in 1..Threads :
            \A k \in DOMAIN worker[c][v].hits, l \in DOMAIN worker[c][w].hits :
               worker[c][v].hits[k] = worker[c][w].hits[l] => v = w /\ k = l
      BY <1>3, HitsApart DEF Shared
    <3>4. Lists([k \in DOMAIN order |-> HitAt(c, order[k])], Where("hit"))
      BY <1>3, <3>2, <3>3, SortedHits
    <3>5. result = "ok"
      BY <2>4 DEF Result
    <3> QED
      BY <3>2, <3>4, <3>5 DEF Ordered
  <2> QED
    BY <2>2, <2>3, <2>4
<1>5. /\ Answers(c)'
      /\ call'[c].result = "ok" => Lists(call[c].hits, Where("hit"))'
  <2> HIDE DEF result
  <2> QED
    BY <1>1, <1>2, <1>4 DEF Answers, Where, Lists
<1>6. /\ worker' \in [Calls -> Jobs] /\ next' \in [Calls -> Nat]
      /\ worker'[c] = [w \in 1..Threads |-> NewWorker] /\ next'[c] = 0
      /\ \A d \in Calls \ {c} : next'[d] = next[d] /\ worker'[d] = worker[d]
  <2>1. [w \in 1..Threads |-> NewWorker] \in Jobs
    BY DEF Jobs, NewWorker, WorkerState
  <2> QED
    BY <1>2, <1>3, <2>1
<1>7. WorkTypes'
  BY <1>2, <1>3, <1>6 DEF WorkTypes, Jobs, WorkerState, Outcomes
<1>8. \A d \in Calls \ {c} : Sharing(d)'
  BY <1>1, <1>2, <1>6, SharingFramed DEF Work, Others
<1>9. Sharing(c)'
  BY <1>1, <1>5, <1>6 DEF Sharing, NewWorker
<1> QED
  BY <1>7, <1>8, <1>9 DEF Work

LEMMA BeginWork ==
  ASSUME Control, Work, NEW c \in Calls, NEW p \in Procs, Begin(c, p)
  PROVE  Work'
<1>1. /\ UNCHANGED <<docs, next, worker>> /\ call[c].pc = "idle" /\ SetsHome(c, p)
  BY DEF Begin, SetsHome
<1>2. /\ Others(c) /\ call'[c].pc = (IF N = 0 THEN "done" ELSE "lock")
      /\ (N = 0 => call'[c].result = "ok") /\ call'[c].hits = call[c].hits
  <2>1. CallShape
    BY DEF Control, ControlTypes
  <2> QED
    BY <1>1, <2>1, Begins
<1>3. docs \in Seq(Outcomes) /\ N \in Nat /\ DOMAIN docs = 1..N
  BY LenProperties DEF Work, WorkTypes, N
<1>4. WorkTypes'
  BY <1>1 DEF Work, WorkTypes, WorkerState, Outcomes
<1>5. \A d \in Calls \ {c} : Sharing(d)'
  BY <1>1, <1>2, SharingFramed DEF Work, Others
<1>6. /\ next[c] = 0 /\ worker[c] = [w \in 1..Threads |-> NewWorker]
      /\ call[c].hits = <<>>
  BY <1>1 DEF Work, Sharing
<1>7. Sharing(c)'
  <2>1. CASE N = 0
    <3>1. Where("bad") = {} /\ Where("panic") = {} /\ Where("hit") = {}
      BY <1>3, <2>1 DEF Where, Marked
    <3>2. Answers(c)' /\ Lists(call[c].hits, Where("hit"))'
      BY <1>1, <1>2, <1>6, <2>1, <3>1 DEF Answers, Where, Lists
    <3> QED
      BY <1>1, <1>2, <1>6, <2>1, <3>2 DEF Sharing, NewWorker
  <2>2. CASE N # 0
    BY <1>1, <1>2, <1>3, <1>6, <2>2 DEF Sharing, NewWorker, N
  <2> QED
    BY <2>1, <2>2
<1> QED
  BY <1>4, <1>5, <1>7 DEF Work

(* A fork and the table leave the sweeps alone.                            *)
LEMMA WorkHeld ==
  ASSUME Work, UNCHANGED <<docs, call, next, worker>>
  PROVE  Work'
<1>1. WorkTypes'
  BY DEF Work, WorkTypes, WorkerState, Outcomes
<1>2. \A d \in Calls : Sharing(d)'
  BY SharingFramed DEF Work
<1> QED
  BY <1>1, <1>2 DEF Work

LEMMA WorkKept == IInv /\ [Next]_vars => Work'
<1> SUFFICES ASSUME Control, Work, [Next]_vars PROVE Work'
  BY DEF IInv
<1>1. ASSUME NEW c \in Calls, CallStep(c) PROVE Work'
  <2>1. CASE \/ Lock(c, "lock", "peek") \/ Lock(c, "relock", "put")
             \/ Peek(c) \/ Build(c) \/ Put(c) \/ Load(c) \/ Swap(c)
    BY <2>1, BeforeSweep
  <2>2. CASE Launch(c)
    BY <2>2, LaunchWork
  <2>3. CASE Collect(c)
    BY <2>3, CollectWork
  <2>4. CASE \E w \in 1..Threads : Claim(c, w) \/ Visit(c, w)
    BY <2>4, ClaimWork, VisitWork
  <2> QED
    BY <1>1, <2>1, <2>2, <2>3, <2>4 DEF CallStep
<1>2. ASSUME NEW c \in Calls, NEW p \in Procs, Begin(c, p) PROVE Work'
  BY <1>2, BeginWork
<1>3. ASSUME NEW p \in Procs, NEW q \in Procs, Fork(p, q) PROVE Work'
  BY <1>3, WorkHeld DEF Fork
<1>4. CASE UNCHANGED sweepVars
  BY <1>4, WorkHeld DEF sweepVars
<1> QED
  BY <1>1, <1>2, <1>3, <1>4 DEF Next, SweepNext, vars

LEMMA WorkInit == Init => Work
<1> SUFFICES ASSUME Init PROVE Work
  OBVIOUS
<1>1. /\ docs \in Archives /\ next = [c \in Calls |-> 0]
      /\ call = [c \in Calls |-> NewCall]
      /\ worker = [c \in Calls |-> [w \in 1..Threads |-> NewWorker]]
  BY DEF Init, SweepInit
<1>2. WorkTypes
  <2>1. NewWorker \in WorkerState
    BY DEF NewWorker, WorkerState
  <2> QED
    BY <1>1, <2>1 DEF WorkTypes
<1>3. \A c \in Calls : Sharing(c)
  BY <1>1 DEF Sharing, NewCall
<1> QED
  BY <1>2, <1>3 DEF Work

(* The inductive invariant: who is in which step of sweep_pool, on_workers *)
(* and par_fold, and how the documents are shared out between the workers. *)
THEOREM SweepInvariant == Spec => []IInv
<1>1. Init => IInv
  BY ControlInit, WorkInit DEF IInv
<1>2. IInv /\ [Next]_vars => IInv'
  <2>1. IInv /\ [Next]_vars => Control'
    BY ControlKept DEF IInv
  <2> QED
    BY <2>1, WorkKept DEF IInv
<1> QED
  BY <1>1, <1>2, PTL DEF Spec

(* A sweep answers with every hit once and in archive order, with a refusal *)
(* only if a document is refused and with a panic only if one panics        *)
(* (par_fold, par_sweep), whatever the interleaving of workers, sweeps and  *)
(* forks.                                                                   *)
THEOREM AnswersAreTrue == Spec => []SweepAnswers
<1>1. IInv => SweepAnswers
  BY DEF IInv, Work, Sharing, SweepAnswers
<1> QED
  BY <1>1, SweepInvariant, PTL

(* What the workers of a sweep that are not stopped have found.            *)
LEMMA FoundSoFar ==
  ASSUME NEW jobs \in Jobs, NEW claimed \in Nat, NEW archive \in Seq(Outcomes),
         Shared(jobs, claimed, archive),
         \A w \in 1..Threads : jobs[w].pc \notin {"bad", "panic"}
  PROVE  UNION {FoundBy(jobs[w]) : w \in 1..Threads} =
           {i \in Marked(archive, "hit") : i <= claimed}
             \ UNION {Rest(jobs[w]) : w \in 1..Threads}
<1> DEFINE found == UNION {FoundBy(jobs[w]) : w \in 1..Threads}
           left == UNION {Rest(jobs[w]) : w \in 1..Threads}
           hits == Marked(archive, "hit")
<1>1. ASSUME NEW i \in found PROVE i \in hits /\ i <= claimed /\ i \notin left
  <2>1. PICK w \in 1..Threads : i \in FoundBy(jobs[w])
    OBVIOUS
  <2>2. i \in hits /\ i <= claimed /\ \A v \in 1..Threads : i \notin Rest(jobs[v])
    BY <2>1 DEF Shared, ClaimsDisjoint
  <2> QED
    BY <2>2
<1>2. ASSUME NEW i \in hits, i <= claimed, i \notin left PROVE i \in found
  <2>1. i \in 1..Len(archive) /\ archive[i] # "miss"
    BY DEF Marked
  <2>2. \E w \in 1..Threads : i \in FoundBy(jobs[w]) \union Rest(jobs[w])
    BY <1>2, <2>1 DEF Shared, ClaimsKept
  <2> QED
    BY <1>2, <2>2
<1> HIDE DEF found, left, hits
<1>3. found = {i \in hits : i <= claimed} \ left
  BY <1>1, <1>2
<1> QED
  BY <1>3 DEF found, left, hits

(* While a sweep runs, its hits are with its workers, each once: what was  *)
(* claimed and visited, and in the end everything (par_fold's claims by an *)
(* atomic counter).                                                        *)
THEOREM HitsAreShared == Spec => []HitsShared
<1>1. IInv => HitsShared
  <2>1. SUFFICES ASSUME IInv, NEW c \in Calls, call[c].pc = "sweep"
                 PROVE  /\ \A v, w \in 1..Threads :
                             \A k \in DOMAIN worker[c][v].hits, l \in DOMAIN worker[c][w].hits :
                                worker[c][v].hits[k] = worker[c][w].hits[l] => v = w /\ k = l
                        /\ Found(c) \subseteq Where("hit")
                        /\ ~Ended(c, "bad") /\ ~Ended(c, "panic") =>
                              Found(c) = {i \in Where("hit") : i <= next[c]} \ Left(c)
                        /\ (\A w \in 1..Threads : worker[c][w].pc = "done") => Found(c) = Where("hit")
    BY DEF HitsShared
  <2>2. /\ docs \in Seq(Outcomes) /\ Len(docs) > 0 /\ worker[c] \in Jobs /\ next[c] \in Nat
        /\ Shared(worker[c], next[c], docs)
    BY <2>1 DEF IInv, Work, WorkTypes, Sharing, N, Jobs
  <2>3. ASSUME \A w \in 1..Threads : worker[c][w].pc = "done" PROVE Found(c) = Where("hit")
    BY <2>2, <2>3, AllThrough DEF Where, Found
  <2>4. \A v, w \in 1..Threads :
          \A k \in DOMAIN worker[c][v].hits, l \in DOMAIN worker[c][w].hits :
             worker[c][v].hits[k] = worker[c][w].hits[l] => v = w /\ k = l
    BY <2>2, HitsApart DEF Shared
  <2>5. Found(c) \subseteq Where("hit")
    <3>1. \A w \in 1..Threads : FoundBy(worker[c][w]) \subseteq Where("hit")
      BY <2>2 DEF Shared, ClaimsDisjoint, Where
    <3> QED
      BY <3>1 DEF Found
  <2>6. ASSUME ~Ended(c, "bad"), ~Ended(c, "panic")
        PROVE  Found(c) = {i \in Where("hit") : i <= next[c]} \ Left(c)
    <3>1. \A w \in 1..Threads : worker[c][w].pc \notin {"bad", "panic"}
      BY <2>6 DEF Ended
    <3> QED
      BY <2>2, <3>1, FoundSoFar DEF Found, Left, Where
  <2> QED
    BY <2>3, <2>4, <2>5, <2>6
<1> QED
  BY <1>1, SweepInvariant, PTL
=============================================================================
