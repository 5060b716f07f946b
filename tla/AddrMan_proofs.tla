--------------------------- MODULE AddrMan_proofs ---------------------------
(***************************************************************************)
(* The proofs about the address manager.                                   *)
(*                                                                         *)
(* Consistent is not inductive: it allows an address in mapAddr that leads *)
(* to the entry of another one, a number at two places of vRandom, and a   *)
(* tried entry in another bucket than the one its address hashes to.  Ok   *)
(* says that the two indexes are exact inverses of mapInfo and that a      *)
(* tried entry is where a reload would put it.                             *)
(***************************************************************************)
EXTENDS AddrMan, FiniteSetTheorems, TLAPS

\* The fields of a CAddrMan.
Fields == {"nIdCount", "mapInfo", "mapAddr", "vRandom",
           "nTried", "vvTried", "nNew", "vvNew"}

\* The entries have numbers that were given out, and are CAddrInfos.
Entries(am) ==
    /\ DOMAIN am = Fields
    /\ am.nIdCount \in Nat
    /\ Ids(am) \subseteq 0..(am.nIdCount - 1)
    /\ \A id \in Ids(am) : am.mapInfo[id] \in CAddrInfo

\* mapAddr leads from the address of each entry to it, and nowhere else.
AddrIndex(am) ==
    /\ DOMAIN am.mapAddr \subseteq NetAddr
    /\ \A ip \in DOMAIN am.mapAddr : /\ am.mapAddr[ip] \in Ids(am)
                                     /\ IpOf[am.mapInfo[am.mapAddr[ip]].addr] = ip
    /\ \A id \in Ids(am) : /\ IpOf[am.mapInfo[id].addr] \in DOMAIN am.mapAddr
                           /\ am.mapAddr[IpOf[am.mapInfo[id].addr]] = id

\* Every entry has one place in vRandom.
RandomIndex(am) ==
    /\ am.vRandom \in Seq(Ids(am))
    /\ \A p \in 1..Len(am.vRandom) : am.mapInfo[am.vRandom[p]].nRandomPos = p
    /\ \A id \in Ids(am) : /\ am.mapInfo[id].nRandomPos \in 1..Len(am.vRandom)
                           /\ am.vRandom[am.mapInfo[id].nRandomPos] = id

\* A tried entry is in the tried bucket of its address and nowhere else.
TriedEntry(am, id) ==
    /\ am.mapInfo[id].nRefCount = 0
    /\ NewBucketsOf(am, id) = {}
    /\ TriedBucketsOf(am, id) = {GetTriedBucket[am.mapInfo[id].addr]}

\* x is an entry with one reference more than it has places, v one that may
\* have no references.
NewEntry(am, id, x, v) ==
    /\ am.mapInfo[id].nRefCount \in 0..ADDRMAN_NEW_BUCKETS_PER_ADDRESS
    /\ id # v => am.mapInfo[id].nRefCount # 0
    /\ Cardinality(NewBucketsOf(am, id)) = am.mapInfo[id].nRefCount - (IF id = x THEN 1 ELSE 0)
    /\ TriedBucketsOf(am, id) = {}

\* The buckets hold entries, and every entry is where its kind should be.
Buckets(am, x, v) ==
    /\ am.vvTried \in [TriedBucket -> SUBSET Ids(am)]
    /\ am.vvNew \in [NewBucket -> SUBSET Ids(am)]
    /\ \A id \in Ids(am) : am.mapInfo[id].fInTried => TriedEntry(am, id)
    /\ \A id \in Ids(am) : ~am.mapInfo[id].fInTried => NewEntry(am, id, x, v)

\* No bucket is larger than it may be.
Limits(am) ==
    /\ \A b \in NewBucket : Cardinality(am.vvNew[b]) <= ADDRMAN_NEW_BUCKET_SIZE
    /\ \A k \in TriedBucket : Cardinality(am.vvTried[k]) <= ADDRMAN_TRIED_BUCKET_SIZE

\* A number that no entry has.
NoId == -1

\* The tried bucket for an entry.
Home(am, id) == GetTriedBucket[am.mapInfo[id].addr]

\* The state of a manager inside an operation, and, with x = v = NoId,
\* between two operations.
Ok(am, x, v) ==
    /\ Entries(am) /\ AddrIndex(am) /\ RandomIndex(am)
    /\ CountsAgree(am) /\ Buckets(am, x, v) /\ Limits(am)

\* A peers.dat that the node has written: a start with it gives a manager in
\* order, which knows the addresses that were written.
FileOk(f) ==
    f # NoFile => /\ DOMAIN f = {"nNew", "new", "tried", "vvNew"}
                  /\ Ok(Load(f), NoId, NoId) /\ Load(f).nIdCount <= MaxId
                  /\ DOMAIN Load(f).mapAddr = Written(f)

\* The inductive invariant.
IInv == /\ Ok(addrman, NoId, NoId) /\ addrman.nIdCount <= MaxId
        /\ FileOk(peers) /\ fOld \in BOOLEAN

-----------------------------------------------------------------------------
(***************************************************************************)
(* Finite sets, and the maps of a manager.                                 *)
(***************************************************************************)
\* Any set of entries is finite.
LEMMA FiniteIds ==
    ASSUME NEW am, Entries(am), NEW S, S \subseteq Ids(am)
    PROVE  IsFiniteSet(S) /\ Cardinality(S) \in Nat
<1>1. am.nIdCount - 1 \in Int /\ 0 \in Int /\ S \subseteq 0..(am.nIdCount - 1)
  BY DEF Entries
<1>2. IsFiniteSet(0..(am.nIdCount - 1))
  BY <1>1, FS_Interval
<1>3. IsFiniteSet(S)
  BY <1>1, <1>2, FS_Subset
<1> QED BY <1>3, FS_CardinalityType

\* Any set of new buckets is finite.
LEMMA FiniteBuckets ==
    ASSUME NEW S, S \subseteq NewBucket
    PROVE  IsFiniteSet(S) /\ Cardinality(S) \in Nat
<1>1. NewBuckets - 1 \in Int /\ 0 \in Int
  BY AddrManAssumption
<1>2. IsFiniteSet(NewBucket)
  BY <1>1, FS_Interval DEF NewBucket
<1>3. IsFiniteSet(S)
  BY <1>2, FS_Subset
<1> QED BY <1>3, FS_CardinalityType

\* Put changes one value and may add it.
LEMMA PutFacts ==
    \A f, x, y : /\ DOMAIN Put(f, x, y) = DOMAIN f \cup {x}
                 /\ Put(f, x, y)[x] = y
                 /\ \A z \in DOMAIN f : z # x => Put(f, x, y)[z] = f[z]
BY DEF Put

\* An element more or less in a finite set.
LEMMA CardAdd ==
    ASSUME NEW S, NEW x, IsFiniteSet(S)
    PROVE  /\ IsFiniteSet(S \cup {x}) /\ Cardinality(S \cup {x}) \in Nat
           /\ Cardinality(S \cup {x}) <= Cardinality(S) + 1
<1>1. IsFiniteSet(S \cup {x})
  BY FS_AddElement
<1>2. Cardinality(S) \in Nat /\ Cardinality(S \cup {x}) \in Nat
  BY <1>1, FS_CardinalityType
<1>3. Cardinality(S \cup {x}) = IF x \in S THEN Cardinality(S) ELSE Cardinality(S) + 1
  BY FS_AddElement
<1> QED BY <1>1, <1>2, <1>3

\* An entry that is made a tried one, and one that is made a new one again.
AsTried(info) == [info EXCEPT !.nRefCount = 0, !.fInTried = TRUE]
AsNew(info)   == [info EXCEPT !.fInTried = FALSE, !.nRefCount = 1]

\* AsTried changes the count of references and the flag only.
LEMMA AsTriedFacts ==
    ASSUME NEW info \in CAddrInfo
    PROVE  /\ AsTried(info) \in CAddrInfo /\ AsTried(info).addr = info.addr
           /\ AsTried(info).source = info.source
           /\ AsTried(info).nRandomPos = info.nRandomPos
           /\ AsTried(info).nRefCount = 0 /\ AsTried(info).fInTried = TRUE
<1>1. DOMAIN info = {"addr", "source", "nRefCount", "fInTried", "nRandomPos"}
  BY DEF CAddrInfo
<1>3. /\ AsTried(info).addr = info.addr /\ AsTried(info).source = info.source
      /\ AsTried(info).nRandomPos = info.nRandomPos
      /\ AsTried(info).nRefCount = 0 /\ AsTried(info).fInTried = TRUE
  BY <1>1 DEF AsTried
<1>4. AsTried(info) \in CAddrInfo
  <2> DEFINE i == [info EXCEPT !.nRefCount = 0]
  <2>1. i \in CAddrInfo
    BY DEF CAddrInfo
  <2>2. AsTried(info) = [i EXCEPT !.fInTried = TRUE]
    BY DEF AsTried
  <2> HIDE DEF i
  <2> QED BY <2>1, <2>2 DEF CAddrInfo
<1> QED BY <1>3, <1>4

\* AsNew changes the count of references and the flag only.
LEMMA AsNewFacts ==
    ASSUME NEW info \in CAddrInfo
    PROVE  /\ AsNew(info) \in CAddrInfo /\ AsNew(info).addr = info.addr
           /\ AsNew(info).source = info.source
           /\ AsNew(info).nRandomPos = info.nRandomPos
           /\ AsNew(info).nRefCount = 1 /\ AsNew(info).fInTried = FALSE
<1>1. DOMAIN info = {"addr", "source", "nRefCount", "fInTried", "nRandomPos"}
  BY DEF CAddrInfo
<1>3. /\ AsNew(info).addr = info.addr /\ AsNew(info).source = info.source
      /\ AsNew(info).nRandomPos = info.nRandomPos
      /\ AsNew(info).fInTried = FALSE /\ AsNew(info).nRefCount = 1
  BY <1>1 DEF AsNew
<1>4. AsNew(info) \in CAddrInfo
  <2> DEFINE i == [info EXCEPT !.fInTried = FALSE]
  <2>1. i \in CAddrInfo
    BY DEF CAddrInfo
  <2>2. AsNew(info) = [i EXCEPT !.nRefCount = 1]
    BY DEF AsNew
  <2> HIDE DEF i
  <2> QED BY <2>1, <2>2 DEF CAddrInfo
<1> QED BY <1>3, <1>4

\* What AddRef does to the entries.
LEMMA AddRefFacts ==
    ASSUME NEW am, Entries(am), NEW id \in Ids(am), NEW n \in Int
    PROVE  LET m == AddRef(am, id, n)
           IN  /\ Entries(m) /\ Ids(m) = Ids(am)
               /\ m.mapInfo[id] = [am.mapInfo[id] EXCEPT !.nRefCount = @ + n]
               /\ \A j \in Ids(am) : j # id => m.mapInfo[j] = am.mapInfo[j]
               /\ \A f \in Fields : f # "mapInfo" => m[f] = am[f]
<1> DEFINE info == [am.mapInfo[id] EXCEPT !.nRefCount = @ + n]
           m == AddRef(am, id, n)
<1>1. DOMAIN am = Fields
  BY DEF Entries
<1>2. /\ DOMAIN m = Fields /\ m.mapInfo = Put(am.mapInfo, id, info)
      /\ \A f \in Fields : f # "mapInfo" => m[f] = am[f]
  BY <1>1 DEF AddRef, Fields
<1> HIDE DEF m
<1>3. am.mapInfo[id] \in CAddrInfo
  BY DEF Entries
<1>4. info \in CAddrInfo
  BY <1>3 DEF CAddrInfo
<1>5. DOMAIN m.mapInfo = DOMAIN am.mapInfo
  <2> HIDE DEF info
  <2>1. DOMAIN m.mapInfo = DOMAIN am.mapInfo \cup {id}
    BY <1>2 DEF Put
  <2>2. id \in DOMAIN am.mapInfo
    BY DEF Ids
  <2> QED BY <2>1, <2>2
<1>6. m.mapInfo[id] = info /\ \A j \in Ids(am) : j # id => m.mapInfo[j] = am.mapInfo[j]
  <2> HIDE DEF info
  <2> QED BY <1>2, PutFacts DEF Ids
<1>7. m.nIdCount = am.nIdCount
  BY <1>2 DEF Fields
<1>8. Entries(m)
  <2> HIDE DEF info
  <2> QED BY <1>2, <1>4, <1>5, <1>6, <1>7 DEF Entries, Ids
<1> QED BY <1>2, <1>5, <1>6, <1>8 DEF Ids, m

\* What SetRandomPos does to the entries.
LEMMA SetRandomPosFacts ==
    ASSUME NEW am, Entries(am), NEW id \in Ids(am), NEW p \in Int
    PROVE  LET m == SetRandomPos(am, id, p)
           IN  /\ Entries(m) /\ Ids(m) = Ids(am)
               /\ m.mapInfo[id] = [am.mapInfo[id] EXCEPT !.nRandomPos = p]
               /\ \A j \in Ids(am) : j # id => m.mapInfo[j] = am.mapInfo[j]
               /\ \A f \in Fields : f # "mapInfo" => m[f] = am[f]
<1> DEFINE info == [am.mapInfo[id] EXCEPT !.nRandomPos = p]
           m == SetRandomPos(am, id, p)
<1>1. DOMAIN am = Fields
  BY DEF Entries
<1>2. /\ DOMAIN m = Fields /\ m.mapInfo = Put(am.mapInfo, id, info)
      /\ \A f \in Fields : f # "mapInfo" => m[f] = am[f]
  BY <1>1 DEF SetRandomPos, Fields
<1> HIDE DEF m
<1>3. am.mapInfo[id] \in CAddrInfo
  BY DEF Entries
<1>4. info \in CAddrInfo
  BY <1>3 DEF CAddrInfo
<1>5. DOMAIN m.mapInfo = DOMAIN am.mapInfo
  <2> HIDE DEF info
  <2>1. DOMAIN m.mapInfo = DOMAIN am.mapInfo \cup {id}
    BY <1>2 DEF Put
  <2>2. id \in DOMAIN am.mapInfo
    BY DEF Ids
  <2> QED BY <2>1, <2>2
<1>6. m.mapInfo[id] = info /\ \A j \in Ids(am) : j # id => m.mapInfo[j] = am.mapInfo[j]
  <2> HIDE DEF info
  <2> QED BY <1>2, PutFacts DEF Ids
<1>7. m.nIdCount = am.nIdCount
  BY <1>2 DEF Fields
<1>8. Entries(m)
  <2> HIDE DEF info
  <2> QED BY <1>2, <1>4, <1>5, <1>6, <1>7 DEF Entries, Ids
<1> QED BY <1>2, <1>5, <1>6, <1>8 DEF Ids, m

-----------------------------------------------------------------------------
(***************************************************************************)
(* Shuffling vRandom changes nothing but the places in vRandom.            *)
(***************************************************************************)
SameTable(am, m) ==
    /\ Ids(m) = Ids(am)
    /\ \A id \in Ids(am) : /\ m.mapInfo[id].addr = am.mapInfo[id].addr
                           /\ m.mapInfo[id].source = am.mapInfo[id].source
                           /\ m.mapInfo[id].nRefCount = am.mapInfo[id].nRefCount
                           /\ m.mapInfo[id].fInTried = am.mapInfo[id].fInTried
    /\ m.nIdCount = am.nIdCount /\ m.mapAddr = am.mapAddr
    /\ m.nTried = am.nTried /\ m.vvTried = am.vvTried
    /\ m.nNew = am.nNew /\ m.vvNew = am.vvNew
    /\ Len(m.vRandom) = Len(am.vRandom)

\* SwapRandom keeps the places exact, and everything else as it is.
LEMMA SwapRandomFacts ==
    ASSUME NEW am, Entries(am), RandomIndex(am),
           NEW p \in 1..Len(am.vRandom), NEW q \in 1..Len(am.vRandom)
    PROVE  LET m == SwapRandom(am, p, q)
           IN  /\ SameTable(am, m) /\ Entries(m) /\ RandomIndex(m)
               /\ m.vRandom[p] = am.vRandom[q] /\ m.vRandom[q] = am.vRandom[p]
<1>1. CASE p = q
  BY <1>1 DEF SwapRandom, SameTable
<1>2. CASE p # q
  <2> DEFINE vp == am.vRandom[p]
             vq == am.vRandom[q]
             m1 == SetRandomPos(am, vp, q)
             m2 == SetRandomPos(m1, vq, p)
             v  == [am.vRandom EXCEPT ![p] = vq, ![q] = vp]
             m  == SwapRandom(am, p, q)
  <2>1. /\ vp \in Ids(am) /\ vq \in Ids(am) /\ p \in Int /\ q \in Int
        /\ am.mapInfo[vp].nRandomPos = p /\ am.mapInfo[vq].nRandomPos = q
    BY DEF RandomIndex
  <2>2. vp # vq
    BY <1>2, <2>1
  <2>3. /\ Entries(m1) /\ Ids(m1) = Ids(am)
        /\ m1.mapInfo[vp] = [am.mapInfo[vp] EXCEPT !.nRandomPos = q]
        /\ \A j \in Ids(am) : j # vp => m1.mapInfo[j] = am.mapInfo[j]
        /\ \A f \in Fields : f # "mapInfo" => m1[f] = am[f]
    <3> HIDE DEF vp, vq
    <3> QED BY <2>1, SetRandomPosFacts
  <2>4. /\ Entries(m2) /\ Ids(m2) = Ids(am)
        /\ m2.mapInfo[vq] = [m1.mapInfo[vq] EXCEPT !.nRandomPos = p]
        /\ \A j \in Ids(am) : j # vq => m2.mapInfo[j] = m1.mapInfo[j]
        /\ \A f \in Fields : f # "mapInfo" => m2[f] = m1[f]
    <3> HIDE DEF vp, vq, m1
    <3> QED BY <2>1, <2>3, SetRandomPosFacts
  <2>5. m2.vRandom = am.vRandom /\ DOMAIN m2 = Fields
    <3> HIDE DEF vp, vq, m1, m2
    <3> QED BY <2>3, <2>4 DEF Fields, Entries
  <2>6. m = [m2 EXCEPT !.vRandom = v]
    <3>1. m = [m2 EXCEPT !.vRandom[p] = vq, !.vRandom[q] = vp]
      BY <1>2 DEF SwapRandom
    <3> HIDE DEF m, m2, vp, vq
    <3> QED BY <3>1, <2>5 DEF Fields
  <2> HIDE DEF m, m1, m2
  <2>7. /\ DOMAIN m = Fields /\ m.vRandom = v
        /\ \A f \in Fields : f # "vRandom" => m[f] = m2[f]
    <3> HIDE DEF v
    <3> QED BY <2>5, <2>6 DEF Fields
  <2>8. m.mapInfo = m2.mapInfo /\ m.nIdCount = m2.nIdCount
    BY <2>7 DEF Fields
  <2>9. Entries(m) /\ Ids(m) = Ids(am)
    BY <2>4, <2>7, <2>8 DEF Entries, Ids
  <2>10. /\ v \in Seq(Ids(am)) /\ Len(v) = Len(am.vRandom)
         /\ v[p] = vq /\ v[q] = vp
         /\ \A r \in 1..Len(am.vRandom) : r # p /\ r # q => v[r] = am.vRandom[r]
    BY <1>2, <2>1 DEF RandomIndex
  <2> HIDE DEF v
  <2>11. ASSUME NEW id \in Ids(am)
         PROVE  m.mapInfo[id] = [am.mapInfo[id] EXCEPT !.nRandomPos =
                                    IF id = vp THEN q ELSE IF id = vq THEN p ELSE @]
    <3>1. am.mapInfo[id] \in CAddrInfo
      BY DEF Entries
    <3>2. CASE id = vp
      BY <2>2, <2>3, <2>4, <2>8, <3>2
    <3>3. CASE id = vq
      BY <2>2, <2>3, <2>4, <2>8, <3>3, <2>1
    <3>4. CASE id # vp /\ id # vq
      <4>1. m.mapInfo[id] = am.mapInfo[id]
        BY <2>3, <2>4, <2>8, <3>4
      <4> QED BY <3>1, <3>4, <4>1 DEF CAddrInfo
    <3> QED BY <3>2, <3>3, <3>4
  <2>12. ASSUME NEW id \in Ids(am)
         PROVE  /\ m.mapInfo[id].addr = am.mapInfo[id].addr
                /\ m.mapInfo[id].source = am.mapInfo[id].source
                /\ m.mapInfo[id].nRefCount = am.mapInfo[id].nRefCount
                /\ m.mapInfo[id].fInTried = am.mapInfo[id].fInTried
                /\ m.mapInfo[id].nRandomPos =
                     IF id = vp THEN q ELSE IF id = vq THEN p ELSE am.mapInfo[id].nRandomPos
    <3>1. am.mapInfo[id] \in CAddrInfo
      BY DEF Entries
    <3> HIDE DEF vp, vq
    <3> QED BY <2>11, <3>1 DEF CAddrInfo
  <2>13. SameTable(am, m)
    <3>1. \A f \in Fields : f # "mapInfo" /\ f # "vRandom" => m[f] = am[f]
      BY <2>3, <2>4, <2>7
    <3>2. /\ m.nIdCount = am.nIdCount /\ m.mapAddr = am.mapAddr
          /\ m.nTried = am.nTried /\ m.vvTried = am.vvTried
          /\ m.nNew = am.nNew /\ m.vvNew = am.vvNew
      BY <3>1 DEF Fields
    <3> QED BY <2>9, <2>7, <2>10, <2>12, <3>2 DEF SameTable
  <2>14. RandomIndex(m)
    <3>1. m.vRandom \in Seq(Ids(m)) /\ Len(m.vRandom) = Len(am.vRandom)
      BY <2>7, <2>9, <2>10
    <3>2. ASSUME NEW r \in 1..Len(am.vRandom)
          PROVE  m.mapInfo[m.vRandom[r]].nRandomPos = r
      <4>1. am.vRandom[r] \in Ids(am) /\ am.mapInfo[am.vRandom[r]].nRandomPos = r
        BY DEF RandomIndex
      <4>2. CASE r = p
        BY <2>1, <2>2, <2>7, <2>10, <2>12, <4>2
      <4>3. CASE r = q
        BY <2>1, <2>2, <2>7, <2>10, <2>12, <4>3
      <4>4. CASE r # p /\ r # q
        BY <2>1, <2>7, <2>10, <2>12, <4>1, <4>4
      <4> QED BY <4>2, <4>3, <4>4
    <3>3. ASSUME NEW id \in Ids(am)
          PROVE  /\ m.mapInfo[id].nRandomPos \in 1..Len(am.vRandom)
                 /\ m.vRandom[m.mapInfo[id].nRandomPos] = id
      <4>1. /\ am.mapInfo[id].nRandomPos \in 1..Len(am.vRandom)
            /\ am.vRandom[am.mapInfo[id].nRandomPos] = id
        BY DEF RandomIndex
      <4>2. CASE id = vp
        BY <2>7, <2>10, <2>12, <4>2
      <4>3. CASE id = vq
        BY <2>2, <2>7, <2>10, <2>12, <4>3
      <4>4. CASE id # vp /\ id # vq
        BY <2>7, <2>10, <2>12, <4>1, <4>4
      <4> QED BY <4>2, <4>3, <4>4
    <3> QED BY <2>9, <3>1, <3>2, <3>3 DEF RandomIndex
  <2> QED BY <2>7, <2>9, <2>10, <2>13, <2>14 DEF m
<1> QED BY <1>1, <1>2

\* What the rest of Ok says does not depend on the places.
LEMMA SameTableOk ==
    ASSUME NEW am, NEW m, NEW x, NEW v, Ok(am, x, v),
           SameTable(am, m), Entries(m), RandomIndex(m)
    PROVE  Ok(m, x, v)
<1>1. AddrIndex(m)
  <2>1. AddrIndex(am)
    BY DEF Ok
  <2>2. /\ Ids(m) = Ids(am) /\ m.mapAddr = am.mapAddr
        /\ \A id \in Ids(am) : m.mapInfo[id].addr = am.mapInfo[id].addr
    BY DEF SameTable
  <2> QED BY <2>1, <2>2 DEF AddrIndex
<1>2. Tried(m) = Tried(am) /\ New(m) = New(am)
  BY DEF Tried, New, SameTable
<1>3. CountsAgree(m)
  BY <1>2 DEF Ok, CountsAgree, SameTable
<1>4. \A id : NewBucketsOf(m, id) = NewBucketsOf(am, id) /\ TriedBucketsOf(m, id) = TriedBucketsOf(am, id)
  BY DEF NewBucketsOf, TriedBucketsOf, SameTable
<1>5. Buckets(m, x, v)
  BY <1>4 DEF Ok, Buckets, TriedEntry, NewEntry, SameTable
<1>6. Limits(m)
  BY DEF Ok, Limits, SameTable
<1> QED BY <1>1, <1>3, <1>5, <1>6 DEF Ok

-----------------------------------------------------------------------------
(***************************************************************************)
(* An entry without references is erased.                                  *)
(***************************************************************************)
Removed(am, m, id) ==
    /\ Ids(m) = Ids(am) \ {id}
    /\ \A j \in Ids(m) : /\ m.mapInfo[j].addr = am.mapInfo[j].addr
                         /\ m.mapInfo[j].source = am.mapInfo[j].source
                         /\ m.mapInfo[j].nRefCount = am.mapInfo[j].nRefCount
                         /\ m.mapInfo[j].fInTried = am.mapInfo[j].fInTried
    /\ DOMAIN m.mapAddr = DOMAIN am.mapAddr \ {IpOf[am.mapInfo[id].addr]}
    /\ \A ip \in DOMAIN m.mapAddr : m.mapAddr[ip] = am.mapAddr[ip]
    /\ m.nIdCount = am.nIdCount
    /\ m.nTried = am.nTried /\ m.vvTried = am.vvTried
    /\ m.nNew = am.nNew - 1 /\ m.vvNew = am.vvNew
    /\ Len(m.vRandom) = Len(am.vRandom) - 1

\* Erase moves the entry to the last place of vRandom and drops that place.
LEMMA EraseFacts ==
    ASSUME NEW am, Entries(am), RandomIndex(am), NEW id \in Ids(am)
    PROVE  LET m == Erase(am, id)
           IN  Removed(am, m, id) /\ Entries(m) /\ RandomIndex(m)
<1> DEFINE last == Len(am.vRandom)
           pos  == am.mapInfo[id].nRandomPos
           s    == SwapRandom(am, pos, last)
           m    == Erase(am, id)
           ip   == IpOf[am.mapInfo[id].addr]
<1>1. pos \in 1..last /\ am.vRandom[pos] = id /\ last \in 1..last /\ last \in Nat
  BY DEF RandomIndex
<1>2. /\ SameTable(am, s) /\ Entries(s) /\ RandomIndex(s)
      /\ s.vRandom[last] = id
  <2> HIDE DEF last, pos
  <2> QED BY <1>1, SwapRandomFacts DEF last
<1> HIDE DEF s
<1>3. /\ DOMAIN s = Fields /\ Ids(s) = Ids(am) /\ s.mapAddr = am.mapAddr
      /\ Len(s.vRandom) = last
  BY <1>2 DEF Entries, SameTable
<1>4. m = [s EXCEPT !.vRandom = SubSeq(@, 1, last - 1),
                    !.mapAddr = Restrict(@, DOMAIN @ \ {ip}),
                    !.mapInfo = Restrict(@, DOMAIN @ \ {id}),
                    !.nNew = @ - 1]
  BY DEF Erase, s
<1> HIDE DEF m, ip, last
<1>5. /\ DOMAIN m = Fields
      /\ m.vRandom = SubSeq(s.vRandom, 1, last - 1)
      /\ m.mapAddr = [a \in DOMAIN s.mapAddr \ {ip} |-> s.mapAddr[a]]
      /\ m.mapInfo = [j \in DOMAIN s.mapInfo \ {id} |-> s.mapInfo[j]]
      /\ m.nNew = s.nNew - 1
      /\ m.nIdCount = s.nIdCount /\ m.nTried = s.nTried
      /\ m.vvTried = s.vvTried /\ m.vvNew = s.vvNew
  BY <1>3, <1>4 DEF Fields, Restrict
<1>6. Ids(m) = Ids(am) \ {id} /\ \A j \in Ids(m) : m.mapInfo[j] = s.mapInfo[j]
  BY <1>3, <1>5 DEF Ids
<1>7. Entries(m)
  BY <1>2, <1>3, <1>5, <1>6 DEF Entries
<1>8. /\ m.vRandom \in Seq(Ids(am)) /\ Len(m.vRandom) = last - 1
      /\ \A r \in 1..(last - 1) : m.vRandom[r] = s.vRandom[r]
  <2>1. s.vRandom \in Seq(Ids(am))
    BY <1>2, <1>3 DEF RandomIndex
  <2> QED BY <1>1, <1>3, <1>5, <2>1
<1>9. Removed(am, m, id)
  <2>1. \A j \in Ids(m) : /\ m.mapInfo[j].addr = am.mapInfo[j].addr
                          /\ m.mapInfo[j].source = am.mapInfo[j].source
                          /\ m.mapInfo[j].nRefCount = am.mapInfo[j].nRefCount
                          /\ m.mapInfo[j].fInTried = am.mapInfo[j].fInTried
    BY <1>2, <1>6 DEF SameTable
  <2>2. /\ m.nIdCount = am.nIdCount
        /\ m.nTried = am.nTried /\ m.vvTried = am.vvTried
        /\ m.nNew = am.nNew - 1 /\ m.vvNew = am.vvNew
    BY <1>2, <1>5 DEF SameTable
  <2>3. /\ DOMAIN m.mapAddr = DOMAIN am.mapAddr \ {ip}
        /\ \A a \in DOMAIN m.mapAddr : m.mapAddr[a] = am.mapAddr[a]
    BY <1>3, <1>5
  <2> QED BY <1>6, <1>8, <2>1, <2>2, <2>3 DEF Removed, ip, last
<1>10. RandomIndex(m)
  <2>1. s.mapInfo[id].nRandomPos = last
    BY <1>1, <1>2, <1>3 DEF RandomIndex
  <2>2. ASSUME NEW r \in 1..(last - 1)
        PROVE  m.vRandom[r] \in Ids(m) /\ m.mapInfo[m.vRandom[r]].nRandomPos = r
    <3>1. r \in 1..last /\ r # last /\ r \in Int
      BY <1>1
    <3>2. s.vRandom[r] \in Ids(am) /\ s.mapInfo[s.vRandom[r]].nRandomPos = r
      BY <1>2, <1>3, <3>1 DEF RandomIndex
    <3>3. s.vRandom[r] # id
      BY <2>1, <3>1, <3>2
    <3> QED BY <1>6, <1>8, <3>2, <3>3
  <2>3. m.vRandom \in Seq(Ids(m))
    BY <1>8, <2>2
  <2>4. ASSUME NEW j \in Ids(m)
        PROVE  /\ m.mapInfo[j].nRandomPos \in 1..(last - 1)
               /\ m.vRandom[m.mapInfo[j].nRandomPos] = j
    <3>1. j \in Ids(s) /\ j # id /\ m.mapInfo[j] = s.mapInfo[j]
      BY <1>3, <1>6
    <3>2. s.mapInfo[j].nRandomPos \in 1..last /\ s.vRandom[s.mapInfo[j].nRandomPos] = j
      BY <1>2, <1>3, <3>1 DEF RandomIndex
    <3>3. s.mapInfo[j].nRandomPos # last
      BY <1>2, <3>1, <3>2
    <3>4. s.mapInfo[j].nRandomPos \in 1..(last - 1)
      BY <1>1, <3>2, <3>3
    <3> QED BY <1>8, <3>1, <3>2, <3>4
  <2> QED BY <1>8, <2>2, <2>3, <2>4 DEF RandomIndex
<1> QED BY <1>7, <1>9, <1>10 DEF m

\* The entry that is erased was in no bucket, and nothing leads to it.
LEMMA EraseOk ==
    ASSUME NEW am, NEW x, NEW id \in Ids(am), Ok(am, x, id), id # x,
           ~am.mapInfo[id].fInTried, am.mapInfo[id].nRefCount = 0
    PROVE  Ok(Erase(am, id), x, NoId)
<1> DEFINE m == Erase(am, id)
<1>1. Removed(am, m, id) /\ Entries(m) /\ RandomIndex(m)
  BY EraseFacts DEF Ok
<1> HIDE DEF m
<1>2. Entries(am)
  BY DEF Ok
<1>3. /\ Ids(m) = Ids(am) \ {id}
      /\ \A j \in Ids(m) : /\ m.mapInfo[j].addr = am.mapInfo[j].addr
                           /\ m.mapInfo[j].nRefCount = am.mapInfo[j].nRefCount
                           /\ m.mapInfo[j].fInTried = am.mapInfo[j].fInTried
      /\ DOMAIN m.mapAddr = DOMAIN am.mapAddr \ {IpOf[am.mapInfo[id].addr]}
      /\ \A ip \in DOMAIN m.mapAddr : m.mapAddr[ip] = am.mapAddr[ip]
  BY <1>1 DEF Removed
<1>4. /\ m.nTried = am.nTried /\ m.vvTried = am.vvTried
      /\ m.nNew = am.nNew - 1 /\ m.vvNew = am.vvNew
      /\ Len(m.vRandom) = Len(am.vRandom) - 1
  BY <1>1 DEF Removed
<1>5. AddrIndex(m)
  <2>1. AddrIndex(am)
    BY DEF Ok
  <2>2. ASSUME NEW ip \in DOMAIN m.mapAddr
        PROVE  m.mapAddr[ip] \in Ids(m) /\ IpOf[m.mapInfo[m.mapAddr[ip]].addr] = ip
    <3>1. ip \in DOMAIN am.mapAddr /\ ip # IpOf[am.mapInfo[id].addr]
      BY <1>3
    <3>2. am.mapAddr[ip] \in Ids(am) /\ IpOf[am.mapInfo[am.mapAddr[ip]].addr] = ip
      BY <2>1, <3>1 DEF AddrIndex
    <3> QED BY <1>3, <3>1, <3>2
  <2>3. ASSUME NEW j \in Ids(m)
        PROVE  /\ IpOf[m.mapInfo[j].addr] \in DOMAIN m.mapAddr
               /\ m.mapAddr[IpOf[m.mapInfo[j].addr]] = j
    <3>1. j \in Ids(am) /\ j # id /\ m.mapInfo[j].addr = am.mapInfo[j].addr
      BY <1>3
    <3>2. /\ IpOf[am.mapInfo[j].addr] \in DOMAIN am.mapAddr
          /\ am.mapAddr[IpOf[am.mapInfo[j].addr]] = j
          /\ am.mapAddr[IpOf[am.mapInfo[id].addr]] = id
      BY <2>1, <3>1 DEF AddrIndex
    <3>3. IpOf[am.mapInfo[j].addr] # IpOf[am.mapInfo[id].addr]
      BY <3>1, <3>2
    <3> QED BY <1>3, <3>1, <3>2, <3>3
  <2>4. DOMAIN m.mapAddr \subseteq NetAddr
    BY <1>3, <2>1 DEF AddrIndex
  <2> QED BY <2>2, <2>3, <2>4 DEF AddrIndex
<1>6. CountsAgree(m)
  <2>1. Tried(m) = Tried(am) /\ New(m) = New(am) \ {id} /\ id \in New(am)
    BY <1>3 DEF Tried, New
  <2>2. New(am) \subseteq Ids(am)
    BY DEF New
  <2>3. IsFiniteSet(New(am))
    BY <1>2, <2>2, FiniteIds
  <2>4. Cardinality(New(m)) = Cardinality(New(am)) - 1
    BY <2>1, <2>3, FS_RemoveElement
  <2>5. Cardinality(New(am)) \in Nat /\ Cardinality(Tried(am)) \in Nat
    BY <1>2, <2>2, FiniteIds DEF Tried
  <2> QED BY <1>4, <2>1, <2>4, <2>5 DEF Ok, CountsAgree
<1>7. Buckets(m, x, NoId)
  <2>1. Buckets(am, x, id)
    BY DEF Ok
  <2>2. \A j : /\ NewBucketsOf(m, j) = NewBucketsOf(am, j)
               /\ TriedBucketsOf(m, j) = TriedBucketsOf(am, j)
    BY <1>4 DEF NewBucketsOf, TriedBucketsOf
  <2>3. NewBucketsOf(am, id) = {} /\ TriedBucketsOf(am, id) = {}
    <3>1. Cardinality(NewBucketsOf(am, id)) = 0 /\ TriedBucketsOf(am, id) = {}
      BY <2>1 DEF Buckets, NewEntry
    <3>2. NewBucketsOf(am, id) \subseteq NewBucket
      BY DEF NewBucketsOf
    <3> QED BY <3>1, <3>2, FiniteBuckets, FS_EmptySet
  <2>4. /\ m.vvTried \in [TriedBucket -> SUBSET Ids(m)]
        /\ m.vvNew \in [NewBucket -> SUBSET Ids(m)]
    <3>1. \A k \in TriedBucket : id \notin am.vvTried[k]
      BY <2>3 DEF TriedBucketsOf
    <3>2. \A b \in NewBucket : id \notin am.vvNew[b]
      BY <2>3 DEF NewBucketsOf
    <3> QED BY <1>3, <1>4, <2>1, <3>1, <3>2 DEF Buckets
  <2>5. ASSUME NEW j \in Ids(m)
        PROVE  /\ m.mapInfo[j].fInTried => TriedEntry(m, j)
               /\ ~m.mapInfo[j].fInTried => NewEntry(m, j, x, NoId)
    BY <1>3, <2>1, <2>2, <2>5 DEF Buckets, TriedEntry, NewEntry
  <2> QED BY <2>4, <2>5 DEF Buckets
<1>8. Limits(m)
  BY <1>4 DEF Ok, Limits
<1> QED BY <1>1, <1>5, <1>6, <1>7, <1>8 DEF Ok, m

-----------------------------------------------------------------------------
(***************************************************************************)
(* Changes of one entry: what else stays as it is.                         *)
(***************************************************************************)
\* m is am with entry id changed, but neither its address nor its place.
SameIndexes(am, m) ==
    /\ Entries(m) /\ Ids(m) = Ids(am)
    /\ \A j \in Ids(am) : /\ m.mapInfo[j].addr = am.mapInfo[j].addr
                          /\ m.mapInfo[j].source = am.mapInfo[j].source
                          /\ m.mapInfo[j].nRandomPos = am.mapInfo[j].nRandomPos
    /\ m.nIdCount = am.nIdCount /\ m.mapAddr = am.mapAddr /\ m.vRandom = am.vRandom

\* Entries that keep address and place keep both indexes exact.
LEMMA SameIndexesOk ==
    ASSUME NEW am, NEW m, SameIndexes(am, m), AddrIndex(am), RandomIndex(am)
    PROVE  AddrIndex(m) /\ RandomIndex(m)
<1>1. /\ Ids(m) = Ids(am) /\ m.mapAddr = am.mapAddr /\ m.vRandom = am.vRandom
      /\ \A j \in Ids(am) : m.mapInfo[j].addr = am.mapInfo[j].addr
      /\ \A j \in Ids(am) : m.mapInfo[j].nRandomPos = am.mapInfo[j].nRandomPos
  BY DEF SameIndexes
<1>2. AddrIndex(m)
  BY <1>1 DEF AddrIndex
<1>3. RandomIndex(m)
  <2>1. \A p \in 1..Len(am.vRandom) : am.vRandom[p] \in Ids(am)
    BY DEF RandomIndex
  <2> QED BY <1>1, <2>1 DEF RandomIndex
<1> QED BY <1>2, <1>3

-----------------------------------------------------------------------------
(***************************************************************************)
(* ShrinkNew.                                                              *)
(***************************************************************************)
\* What ShrinkNew does before it looks whether references are left.
Dropped(am, id, b) == [AddRef(am, id, -1) EXCEPT !.vvNew[b] = @ \ {id}]

\* A new entry may leave one of its buckets.
LEMMA DroppedOk ==
    ASSUME NEW am, NEW x, Ok(am, x, NoId), NEW b \in NewBucket,
           NEW id \in am.vvNew[b], id # x
    PROVE  LET m == Dropped(am, id, b)
           IN  /\ Ok(m, x, id) /\ SameIndexes(am, m) /\ id \in Ids(am)
               /\ ~am.mapInfo[id].fInTried /\ ~m.mapInfo[id].fInTried
               /\ m.mapInfo[id].nRefCount = am.mapInfo[id].nRefCount - 1
               /\ \A j \in Ids(am) : j # id => m.mapInfo[j] = am.mapInfo[j]
               /\ m.vvNew = [am.vvNew EXCEPT ![b] = @ \ {id}]
<1> DEFINE m == Dropped(am, id, b)
           s == AddRef(am, id, -1)
<1>1. /\ Entries(am) /\ Buckets(am, x, NoId) /\ AddrIndex(am) /\ RandomIndex(am)
      /\ Limits(am) /\ CountsAgree(am)
  BY DEF Ok
<1>2. /\ id \in Ids(am) /\ am.mapInfo[id] \in CAddrInfo
      /\ am.vvNew \in [NewBucket -> SUBSET Ids(am)]
      /\ am.vvTried \in [TriedBucket -> SUBSET Ids(am)]
  BY <1>1 DEF Buckets, Entries
<1>3. ~am.mapInfo[id].fInTried
  <2> SUFFICES ASSUME am.mapInfo[id].fInTried PROVE FALSE
    OBVIOUS
  <2>1. NewBucketsOf(am, id) = {}
    BY <1>1, <1>2 DEF Buckets, TriedEntry
  <2> QED BY <2>1 DEF NewBucketsOf
<1>4. /\ Entries(s) /\ Ids(s) = Ids(am)
      /\ s.mapInfo[id] = [am.mapInfo[id] EXCEPT !.nRefCount = @ + (-1)]
      /\ \A j \in Ids(am) : j # id => s.mapInfo[j] = am.mapInfo[j]
      /\ \A f \in Fields : f # "mapInfo" => s[f] = am[f]
  BY <1>1, <1>2, AddRefFacts
<1>5. DOMAIN s = Fields /\ s.vvNew = am.vvNew
  BY <1>4 DEF Entries, Fields
<1> HIDE DEF s
<1>6. /\ DOMAIN m = Fields /\ m.vvNew = [am.vvNew EXCEPT ![b] = @ \ {id}]
      /\ \A f \in Fields : f # "vvNew" => m[f] = s[f]
  <2>1. m = [s EXCEPT !.vvNew[b] = @ \ {id}]
    BY DEF Dropped, s
  <2> HIDE DEF m
  <2> QED BY <1>5, <2>1 DEF Fields
<1> HIDE DEF m
<1>7. /\ m.mapInfo = s.mapInfo /\ m.nIdCount = am.nIdCount /\ m.mapAddr = am.mapAddr
      /\ m.vRandom = am.vRandom /\ m.nTried = am.nTried /\ m.vvTried = am.vvTried
      /\ m.nNew = am.nNew
  <2>1. \A f \in Fields : f # "vvNew" /\ f # "mapInfo" => m[f] = am[f]
    BY <1>4, <1>6
  <2> QED BY <2>1, <1>6 DEF Fields
<1>8. /\ Ids(m) = Ids(am)
      /\ m.mapInfo[id] = [am.mapInfo[id] EXCEPT !.nRefCount = @ - 1]
      /\ \A j \in Ids(am) : j # id => m.mapInfo[j] = am.mapInfo[j]
  <2>1. am.mapInfo[id].nRefCount + (-1) = am.mapInfo[id].nRefCount - 1
    BY <1>2 DEF CAddrInfo
  <2> QED BY <1>4, <1>7, <2>1 DEF Ids
<1>9. \A j \in Ids(am) : /\ m.mapInfo[j].addr = am.mapInfo[j].addr
                         /\ m.mapInfo[j].source = am.mapInfo[j].source
                         /\ m.mapInfo[j].nRandomPos = am.mapInfo[j].nRandomPos
                         /\ m.mapInfo[j].fInTried = am.mapInfo[j].fInTried
                         /\ m.mapInfo[j].nRefCount =
                                am.mapInfo[j].nRefCount - IF j = id THEN 1 ELSE 0
  <2> TAKE j \in Ids(am)
  <2>1. am.mapInfo[j] \in CAddrInfo
    BY <1>1 DEF Entries
  <2> QED BY <1>8, <2>1 DEF CAddrInfo
<1>10. SameIndexes(am, m)
  <2>1. Entries(m)
    <3>1. m.nIdCount = s.nIdCount
      BY <1>6 DEF Fields
    <3> QED BY <1>4, <1>6, <1>7, <1>8, <3>1 DEF Entries
  <2> QED BY <1>7, <1>8, <1>9, <2>1 DEF SameIndexes
<1>11. CountsAgree(m)
  <2>1. Tried(m) = Tried(am) /\ New(m) = New(am)
    BY <1>8, <1>9 DEF Tried, New
  <2> QED BY <1>1, <1>7, <2>1 DEF CountsAgree
<1>12. \A c \in NewBucket : m.vvNew[c] = IF c = b THEN am.vvNew[c] \ {id} ELSE am.vvNew[c]
  BY <1>2, <1>6
<1>13. Buckets(m, x, id)
  <2>1. \A j : TriedBucketsOf(m, j) = TriedBucketsOf(am, j)
    BY <1>7 DEF TriedBucketsOf
  <2>2. \A j : j # id => NewBucketsOf(m, j) = NewBucketsOf(am, j)
    BY <1>12 DEF NewBucketsOf
  <2>3. NewBucketsOf(m, id) = NewBucketsOf(am, id) \ {b} /\ b \in NewBucketsOf(am, id)
    BY <1>12 DEF NewBucketsOf
  <2>4. /\ m.vvTried \in [TriedBucket -> SUBSET Ids(m)]
        /\ m.vvNew \in [NewBucket -> SUBSET Ids(m)]
    BY <1>2, <1>6, <1>7, <1>8
  <2>5. NewEntry(am, id, x, NoId)
    BY <1>1, <1>2, <1>3 DEF Buckets
  <2>6. NewEntry(m, id, x, id)
    <3>1. /\ am.mapInfo[id].nRefCount \in 0..ADDRMAN_NEW_BUCKETS_PER_ADDRESS
          /\ am.mapInfo[id].nRefCount # 0
          /\ Cardinality(NewBucketsOf(am, id)) = am.mapInfo[id].nRefCount
          /\ TriedBucketsOf(am, id) = {}
      BY <1>1, <1>2, <2>5 DEF NewEntry, Entries, NoId
    <3>2. NewBucketsOf(am, id) \subseteq NewBucket
      BY DEF NewBucketsOf
    <3>3. Cardinality(NewBucketsOf(m, id)) = Cardinality(NewBucketsOf(am, id)) - 1
      BY <2>3, <3>2, FiniteBuckets, FS_RemoveElement
    <3>4. m.mapInfo[id].nRefCount = am.mapInfo[id].nRefCount - 1
      BY <1>2, <1>9
    <3>5. ADDRMAN_NEW_BUCKETS_PER_ADDRESS \in Nat
      BY AddrManAssumption
    <3> QED BY <2>1, <3>1, <3>3, <3>4, <3>5 DEF NewEntry
  <2>7. ASSUME NEW j \in Ids(m), j # id
        PROVE  /\ m.mapInfo[j].fInTried => TriedEntry(m, j)
               /\ ~m.mapInfo[j].fInTried => NewEntry(m, j, x, id)
    <3>1. /\ am.mapInfo[j].fInTried => TriedEntry(am, j)
          /\ ~am.mapInfo[j].fInTried => NewEntry(am, j, x, NoId)
          /\ j \in Ids(am) /\ j # NoId
      BY <1>1, <1>8 DEF Buckets, Entries, NoId
    <3> QED BY <1>8, <2>1, <2>2, <2>7, <3>1 DEF TriedEntry, NewEntry
  <2>8. ~m.mapInfo[id].fInTried
    BY <1>2, <1>3, <1>9
  <2> QED BY <1>8, <2>4, <2>6, <2>7, <2>8 DEF Buckets
<1>14. Limits(m)
  <2>1. ASSUME NEW c \in NewBucket
        PROVE  Cardinality(m.vvNew[c]) <= ADDRMAN_NEW_BUCKET_SIZE
    <3>1. IsFiniteSet(am.vvNew[c]) /\ m.vvNew[c] \subseteq am.vvNew[c]
      BY <1>1, <1>2, <1>12, FiniteIds
    <3>2. Cardinality(m.vvNew[c]) <= Cardinality(am.vvNew[c])
      BY <3>1, FS_Subset
    <3>3. Cardinality(am.vvNew[c]) \in Nat /\ Cardinality(m.vvNew[c]) \in Nat
      BY <3>1, FS_Subset, FS_CardinalityType
    <3> QED BY <1>1, <3>2, <3>3, AddrManAssumption DEF Limits
  <2> QED BY <1>1, <1>7, <2>1 DEF Limits
<1>15. Ok(m, x, id)
  BY <1>1, <1>10, <1>11, <1>13, <1>14, SameIndexesOk DEF Ok, SameIndexes
<1> QED BY <1>2, <1>3, <1>6, <1>8, <1>9, <1>10, <1>15 DEF m

\* An entry is gone from the manager only when it leaves its last bucket.
Shrunk(am, m, id, b) ==
    /\ m.nIdCount = am.nIdCount
    /\ m.vvNew = [am.vvNew EXCEPT ![b] = @ \ {id}]
    /\ \A j \in Ids(am) : j # id => /\ j \in Ids(m)
                                    /\ m.mapInfo[j].fInTried = am.mapInfo[j].fInTried
    /\ \/ DOMAIN m.mapAddr = DOMAIN am.mapAddr
       \/ /\ DOMAIN m.mapAddr = DOMAIN am.mapAddr \ {IpOf[am.mapInfo[id].addr]}
          /\ NewBucketsOf(am, id) = {b}

\* ShrinkNew takes one entry from the bucket and leaves the manager in order.
LEMMA ShrinkNewOk ==
    ASSUME NEW am, NEW x, Ok(am, x, NoId), NEW b \in NewBucket,
           x \notin am.vvNew[b], NEW m \in ShrinkNew(am, b)
    PROVE  Ok(m, x, NoId) /\ \E id \in am.vvNew[b] : Shrunk(am, m, id, b)
<1>1. PICK id \in am.vvNew[b] :
          m = LET d == [AddRef(am, id, -1) EXCEPT !.vvNew[b] = @ \ {id}]
              IN  IF d.mapInfo[id].nRefCount = 0 THEN Erase(d, id) ELSE d
  BY DEF ShrinkNew
<1> DEFINE d == Dropped(am, id, b)
<1>2. m = IF d.mapInfo[id].nRefCount = 0 THEN Erase(d, id) ELSE d
  BY <1>1 DEF Dropped
<1>3. /\ Ok(d, x, id) /\ SameIndexes(am, d) /\ id \in Ids(am)
      /\ ~am.mapInfo[id].fInTried /\ ~d.mapInfo[id].fInTried
      /\ d.mapInfo[id].nRefCount = am.mapInfo[id].nRefCount - 1
      /\ \A j \in Ids(am) : j # id => d.mapInfo[j] = am.mapInfo[j]
      /\ d.vvNew = [am.vvNew EXCEPT ![b] = @ \ {id}]
  BY DroppedOk
<1> HIDE DEF d
<1>4. /\ Ids(d) = Ids(am) /\ d.mapAddr = am.mapAddr /\ d.nIdCount = am.nIdCount
      /\ \A j \in Ids(am) : d.mapInfo[j].addr = am.mapInfo[j].addr
  BY <1>3 DEF SameIndexes
<1>5. id # x
  OBVIOUS
<1>6. CASE d.mapInfo[id].nRefCount = 0
  <2>1. m = Erase(d, id)
    BY <1>2, <1>6
  <2>2. Ok(m, x, NoId)
    BY <1>3, <1>4, <1>5, <1>6, <2>1, EraseOk
  <2>3. Removed(d, m, id)
    BY <1>3, <1>4, <2>1, EraseFacts DEF Ok
  <2>4. NewBucketsOf(am, id) = {b}
    <3>1. Buckets(am, x, NoId) /\ Entries(am)
      BY DEF Ok
    <3>2. am.mapInfo[id] \in CAddrInfo
      BY <1>3, <3>1 DEF Entries
    <3>3. am.mapInfo[id].nRefCount = 1
      BY <1>3, <1>6, <3>2 DEF CAddrInfo
    <3>4. Cardinality(NewBucketsOf(am, id)) = 1
      BY <1>3, <1>5, <3>1, <3>3 DEF Buckets, NewEntry
    <3>5. b \in NewBucketsOf(am, id) /\ NewBucketsOf(am, id) \subseteq NewBucket
      BY DEF NewBucketsOf
    <3>6. PICK c : NewBucketsOf(am, id) = {c}
      BY <3>4, <3>5, FiniteBuckets, FS_Singleton
    <3> QED BY <3>5, <3>6
  <2>5. DOMAIN m.mapAddr = DOMAIN am.mapAddr \ {IpOf[am.mapInfo[id].addr]}
    BY <1>3, <1>4, <2>3 DEF Removed
  <2>6. \A j \in Ids(am) : j # id => /\ j \in Ids(m)
                                     /\ m.mapInfo[j].fInTried = am.mapInfo[j].fInTried
    BY <1>3, <1>4, <2>3 DEF Removed
  <2>7. m.nIdCount = am.nIdCount /\ m.vvNew = [am.vvNew EXCEPT ![b] = @ \ {id}]
    BY <1>3, <1>4, <2>3 DEF Removed
  <2>8. Shrunk(am, m, id, b)
    BY <2>4, <2>5, <2>6, <2>7 DEF Shrunk
  <2> QED BY <2>2, <2>8
<1>7. CASE d.mapInfo[id].nRefCount # 0
  <2>1. m = d
    BY <1>2, <1>7
  <2>2. Buckets(d, x, NoId)
    <3>1. Buckets(d, x, id)
      BY <1>3 DEF Ok
    <3> QED BY <1>7, <3>1 DEF Buckets, NewEntry
  <2>3. Ok(m, x, NoId)
    BY <1>3, <2>1, <2>2 DEF Ok
  <2>4. Shrunk(am, m, id, b)
    BY <1>3, <1>4, <2>1 DEF Shrunk
  <2> QED BY <2>3, <2>4
<1> QED BY <1>6, <1>7

-----------------------------------------------------------------------------
(***************************************************************************)
(* Add_.                                                                   *)
(***************************************************************************)
\* The reference is counted before the entry is in the bucket.
LEMMA CountedOk ==
    ASSUME NEW am, NEW id \in Ids(am), Ok(am, NoId, id), ~am.mapInfo[id].fInTried,
           am.mapInfo[id].nRefCount # ADDRMAN_NEW_BUCKETS_PER_ADDRESS
    PROVE  LET m == AddRef(am, id, 1)
           IN  /\ Ok(m, id, NoId) /\ SameIndexes(am, m) /\ m.vvNew = am.vvNew
               /\ \A j \in Ids(am) : m.mapInfo[j].fInTried = am.mapInfo[j].fInTried
<1> DEFINE m == AddRef(am, id, 1)
<1>1. /\ Entries(am) /\ Buckets(am, NoId, id) /\ AddrIndex(am) /\ RandomIndex(am)
      /\ Limits(am) /\ CountsAgree(am)
  BY DEF Ok
<1>2. /\ Entries(m) /\ Ids(m) = Ids(am)
      /\ m.mapInfo[id] = [am.mapInfo[id] EXCEPT !.nRefCount = @ + 1]
      /\ \A j \in Ids(am) : j # id => m.mapInfo[j] = am.mapInfo[j]
      /\ \A f \in Fields : f # "mapInfo" => m[f] = am[f]
  BY <1>1, AddRefFacts
<1> HIDE DEF m
<1>3. /\ m.nIdCount = am.nIdCount /\ m.mapAddr = am.mapAddr /\ m.vRandom = am.vRandom
      /\ m.nTried = am.nTried /\ m.vvTried = am.vvTried
      /\ m.nNew = am.nNew /\ m.vvNew = am.vvNew
  BY <1>2 DEF Fields
<1>4. \A j \in Ids(am) : /\ m.mapInfo[j].addr = am.mapInfo[j].addr
                         /\ m.mapInfo[j].source = am.mapInfo[j].source
                         /\ m.mapInfo[j].nRandomPos = am.mapInfo[j].nRandomPos
                         /\ m.mapInfo[j].fInTried = am.mapInfo[j].fInTried
                         /\ m.mapInfo[j].nRefCount =
                                am.mapInfo[j].nRefCount + IF j = id THEN 1 ELSE 0
  <2> TAKE j \in Ids(am)
  <2>1. am.mapInfo[j] \in CAddrInfo
    BY <1>1 DEF Entries
  <2> QED BY <1>2, <2>1 DEF CAddrInfo
<1>5. SameIndexes(am, m)
  BY <1>2, <1>3, <1>4 DEF SameIndexes
<1>6. CountsAgree(m)
  <2>1. Tried(m) = Tried(am) /\ New(m) = New(am)
    BY <1>2, <1>4 DEF Tried, New
  <2> QED BY <1>1, <1>3, <2>1 DEF CountsAgree
<1>7. Buckets(m, id, NoId)
  <2>1. \A j : /\ TriedBucketsOf(m, j) = TriedBucketsOf(am, j)
               /\ NewBucketsOf(m, j) = NewBucketsOf(am, j)
    BY <1>3 DEF TriedBucketsOf, NewBucketsOf
  <2>2. /\ m.vvTried \in [TriedBucket -> SUBSET Ids(m)]
        /\ m.vvNew \in [NewBucket -> SUBSET Ids(m)]
    BY <1>1, <1>2, <1>3 DEF Buckets
  <2>3. NewEntry(m, id, id, NoId)
    <3>1. /\ am.mapInfo[id].nRefCount \in 0..ADDRMAN_NEW_BUCKETS_PER_ADDRESS
          /\ Cardinality(NewBucketsOf(am, id)) = am.mapInfo[id].nRefCount
          /\ TriedBucketsOf(am, id) = {}
      BY <1>1 DEF Buckets, NewEntry, Entries, NoId
    <3>2. ADDRMAN_NEW_BUCKETS_PER_ADDRESS \in Nat
      BY AddrManAssumption
    <3>3. m.mapInfo[id].nRefCount = am.mapInfo[id].nRefCount + 1
      BY <1>4
    <3> QED BY <2>1, <3>1, <3>2, <3>3 DEF NewEntry
  <2>4. ASSUME NEW j \in Ids(m), j # id
        PROVE  /\ m.mapInfo[j].fInTried => TriedEntry(m, j)
               /\ ~m.mapInfo[j].fInTried => NewEntry(m, j, id, NoId)
    <3>1. /\ am.mapInfo[j].fInTried => TriedEntry(am, j)
          /\ ~am.mapInfo[j].fInTried => NewEntry(am, j, NoId, id)
          /\ j \in Ids(am) /\ j # NoId
      BY <1>1, <1>2 DEF Buckets, Entries, NoId
    <3> QED BY <1>2, <2>1, <2>4, <3>1 DEF TriedEntry, NewEntry
  <2>5. ~m.mapInfo[id].fInTried
    BY <1>4
  <2> QED BY <1>2, <2>2, <2>3, <2>4, <2>5 DEF Buckets
<1>8. Limits(m)
  BY <1>1, <1>3 DEF Limits
<1>9. Ok(m, id, NoId)
  BY <1>1, <1>5, <1>6, <1>7, <1>8, SameIndexesOk DEF Ok, SameIndexes
<1> QED BY <1>3, <1>4, <1>5, <1>9 DEF m

\* The entry gets the place that its last reference stands for.
LEMMA PlacedOk ==
    ASSUME NEW am, NEW x \in Ids(am), Ok(am, x, NoId), ~am.mapInfo[x].fInTried,
           NEW b \in NewBucket, x \notin am.vvNew[b],
           Cardinality(am.vvNew[b]) < ADDRMAN_NEW_BUCKET_SIZE
    PROVE  LET m == [am EXCEPT !.vvNew[b] = @ \cup {x}]
           IN  /\ Ok(m, NoId, NoId)
               /\ m.nIdCount = am.nIdCount /\ m.mapAddr = am.mapAddr
<1> DEFINE m == [am EXCEPT !.vvNew[b] = @ \cup {x}]
<1>1. /\ Entries(am) /\ Buckets(am, x, NoId) /\ AddrIndex(am) /\ RandomIndex(am)
      /\ Limits(am) /\ CountsAgree(am)
  BY DEF Ok
<1>2. DOMAIN am = Fields /\ am.vvNew \in [NewBucket -> SUBSET Ids(am)]
  BY <1>1 DEF Entries, Buckets
<1>3. /\ DOMAIN m = Fields /\ m.vvNew = [am.vvNew EXCEPT ![b] = @ \cup {x}]
      /\ \A f \in Fields : f # "vvNew" => m[f] = am[f]
  BY <1>2 DEF Fields
<1> HIDE DEF m
<1>4. /\ m.mapInfo = am.mapInfo /\ m.nIdCount = am.nIdCount /\ m.mapAddr = am.mapAddr
      /\ m.vRandom = am.vRandom /\ m.nTried = am.nTried /\ m.vvTried = am.vvTried
      /\ m.nNew = am.nNew /\ Ids(m) = Ids(am)
  BY <1>3 DEF Fields, Ids
<1>5. \A c \in NewBucket : m.vvNew[c] = IF c = b THEN am.vvNew[c] \cup {x} ELSE am.vvNew[c]
  BY <1>2, <1>3
<1>6. SameIndexes(am, m)
  BY <1>1, <1>3, <1>4 DEF SameIndexes, Entries
<1>7. CountsAgree(m)
  BY <1>1, <1>4 DEF CountsAgree, Tried, New
<1>8. Buckets(m, NoId, NoId)
  <2>1. \A j : TriedBucketsOf(m, j) = TriedBucketsOf(am, j)
    BY <1>4 DEF TriedBucketsOf
  <2>2. \A j : j # x => NewBucketsOf(m, j) = NewBucketsOf(am, j)
    BY <1>5 DEF NewBucketsOf
  <2>3. NewBucketsOf(m, x) = NewBucketsOf(am, x) \cup {b} /\ b \notin NewBucketsOf(am, x)
    BY <1>5 DEF NewBucketsOf
  <2>4. /\ m.vvTried \in [TriedBucket -> SUBSET Ids(m)]
        /\ m.vvNew \in [NewBucket -> SUBSET Ids(m)]
    BY <1>1, <1>2, <1>3, <1>4 DEF Buckets
  <2>5. NewEntry(m, x, NoId, NoId)
    <3>1. NewEntry(am, x, x, NoId) /\ x # NoId
      BY <1>1 DEF Buckets, Entries, NoId
    <3>2. NewBucketsOf(am, x) \subseteq NewBucket
      BY DEF NewBucketsOf
    <3>3. /\ Cardinality(NewBucketsOf(m, x)) = Cardinality(NewBucketsOf(am, x)) + 1
          /\ Cardinality(NewBucketsOf(am, x)) \in Nat
      BY <2>3, <3>2, FiniteBuckets, FS_AddElement
    <3> QED BY <1>4, <2>1, <3>1, <3>3 DEF NewEntry
  <2>6. ASSUME NEW j \in Ids(m), j # x
        PROVE  /\ m.mapInfo[j].fInTried => TriedEntry(m, j)
               /\ ~m.mapInfo[j].fInTried => NewEntry(m, j, NoId, NoId)
    <3>1. /\ am.mapInfo[j].fInTried => TriedEntry(am, j)
          /\ ~am.mapInfo[j].fInTried => NewEntry(am, j, x, NoId)
          /\ j # NoId
      BY <1>1, <1>4 DEF Buckets, Entries, NoId
    <3> QED BY <1>4, <2>1, <2>2, <2>6, <3>1 DEF TriedEntry, NewEntry
  <2>7. ~m.mapInfo[x].fInTried
    BY <1>4
  <2> QED BY <1>4, <2>4, <2>5, <2>6, <2>7 DEF Buckets
<1>9. Limits(m)
  <2>1. ASSUME NEW c \in NewBucket
        PROVE  Cardinality(m.vvNew[c]) <= ADDRMAN_NEW_BUCKET_SIZE
    <3>1. CASE c # b
      BY <1>1, <1>5, <3>1 DEF Limits
    <3>2. CASE c = b
      <4>1. IsFiniteSet(am.vvNew[b]) /\ Cardinality(am.vvNew[b]) \in Nat
        BY <1>1, <1>2, FiniteIds
      <4>2. Cardinality(m.vvNew[c]) = Cardinality(am.vvNew[b]) + 1
        BY <1>5, <3>2, <4>1, FS_AddElement
      <4> QED BY <4>1, <4>2, AddrManAssumption
    <3> QED BY <3>1, <3>2
  <2> QED BY <1>1, <1>4, <2>1 DEF Limits
<1>10. Ok(m, NoId, NoId)
  BY <1>1, <1>6, <1>7, <1>8, <1>9, SameIndexesOk DEF Ok, SameIndexes
<1> QED BY <1>4, <1>10 DEF m

\* Nothing is forgotten, or an entry whose last bucket was full.
KeepsOrMakesRoom(am, m) ==
    \/ DOMAIN am.mapAddr \subseteq DOMAIN m.mapAddr
    \/ \E v \in Ids(am), b \in NewBucket :
          /\ DOMAIN m.mapAddr \cap DOMAIN am.mapAddr =
                 DOMAIN am.mapAddr \ {IpOf[am.mapInfo[v].addr]}
          /\ v \in am.vvNew[b] /\ NewBucketsOf(am, v) = {b}
          /\ Cardinality(am.vvNew[b]) = ADDRMAN_NEW_BUCKET_SIZE

\* The end of Add_: another bucket for an entry.
LEMMA InsertOk ==
    ASSUME NEW am, NEW id \in Ids(am), Ok(am, NoId, id), ~am.mapInfo[id].fInTried,
           am.mapInfo[id].nRefCount # ADDRMAN_NEW_BUCKETS_PER_ADDRESS,
           NEW source \in Source, NEW m \in Insert(am, id, source)
    PROVE  /\ Ok(m, NoId, NoId) /\ m.nIdCount = am.nIdCount
           /\ DOMAIN m.mapAddr \subseteq DOMAIN am.mapAddr
           /\ KeepsOrMakesRoom(am, m)
<1> DEFINE b == GetNewBucket[IpOf[am.mapInfo[id].addr], source]
           c == AddRef(am, id, 1)
<1>1. Entries(am) /\ Buckets(am, NoId, id)
  BY DEF Ok
<1>2. b \in NewBucket
  <2>1. am.mapInfo[id].addr \in Service
    BY <1>1 DEF Entries, CAddrInfo
  <2>2. IpOf[am.mapInfo[id].addr] \in NetAddr
    BY <2>1, AddrManAssumption
  <2> HIDE DEF NewBucket
  <2> QED BY <2>2, AddrManAssumption
<1>3. m \in IF id \in am.vvNew[b] THEN {am}
            ELSE {[x EXCEPT !.vvNew[b] = @ \cup {id}] :
                    x \in IF Cardinality(c.vvNew[b]) = ADDRMAN_NEW_BUCKET_SIZE
                          THEN ShrinkNew(c, b) ELSE {c}}
  BY DEF Insert
<1> HIDE DEF b, c
<1>4. CASE id \in am.vvNew[b]
  <2>1. m = am
    BY <1>3, <1>4
  <2>2. NewEntry(am, id, NoId, NoId)
    <3>1. NewEntry(am, id, NoId, id)
      BY <1>1 DEF Buckets
    <3>2. b \in NewBucketsOf(am, id) /\ NewBucketsOf(am, id) \subseteq NewBucket
      BY <1>2, <1>4 DEF NewBucketsOf
    <3>3. Cardinality(NewBucketsOf(am, id)) # 0
      BY <3>2, FiniteBuckets, FS_EmptySet
    <3>4. id # NoId
      BY <1>1 DEF Entries, NoId
    <3> QED BY <3>1, <3>3, <3>4 DEF NewEntry
  <2>3. Buckets(am, NoId, NoId)
    BY <1>1, <2>2 DEF Buckets, NewEntry
  <2> QED BY <2>1, <2>3 DEF Ok, KeepsOrMakesRoom
<1>5. CASE id \notin am.vvNew[b]
  <2>1. /\ Ok(c, id, NoId) /\ SameIndexes(am, c) /\ c.vvNew = am.vvNew
        /\ \A j \in Ids(am) : c.mapInfo[j].fInTried = am.mapInfo[j].fInTried
    BY CountedOk DEF c
  <2>2. /\ Ids(c) = Ids(am) /\ c.nIdCount = am.nIdCount /\ c.mapAddr = am.mapAddr
        /\ \A j \in Ids(am) : c.mapInfo[j].addr = am.mapInfo[j].addr
    BY <2>1 DEF SameIndexes
  <2>3. \A j : NewBucketsOf(c, j) = NewBucketsOf(am, j)
    BY <2>1 DEF NewBucketsOf
  <2>4. IsFiniteSet(am.vvNew[b]) /\ Cardinality(am.vvNew[b]) \in Nat
    BY <1>1, <1>2, FiniteIds DEF Buckets
  <2>5. PICK x \in IF Cardinality(c.vvNew[b]) = ADDRMAN_NEW_BUCKET_SIZE
                   THEN ShrinkNew(c, b) ELSE {c} :
               m = [x EXCEPT !.vvNew[b] = @ \cup {id}]
    BY <1>3, <1>5
  <2>6. CASE Cardinality(c.vvNew[b]) = ADDRMAN_NEW_BUCKET_SIZE
    <3>1. x \in ShrinkNew(c, b)
      BY <2>6
    <3>2. Ok(x, id, NoId) /\ \E v \in c.vvNew[b] : Shrunk(c, x, v, b)
      BY <1>2, <1>5, <2>1, <3>1, ShrinkNewOk
    <3>3. PICK v \in am.vvNew[b] : Shrunk(c, x, v, b)
      BY <2>1, <3>2
    <3>4. v # id /\ v \in Ids(am)
      BY <1>1, <1>2, <1>5 DEF Buckets
    <3>5. id \in Ids(x) /\ x.nIdCount = am.nIdCount
      BY <2>2, <3>3, <3>4 DEF Shrunk
    <3>6. x.vvNew[b] = am.vvNew[b] \ {v}
      BY <1>1, <1>2, <2>1, <3>3 DEF Shrunk, Buckets
    <3>7. Cardinality(x.vvNew[b]) = ADDRMAN_NEW_BUCKET_SIZE - 1
      BY <2>1, <2>4, <2>6, <3>6, FS_RemoveElement
    <3>8. Cardinality(x.vvNew[b]) < ADDRMAN_NEW_BUCKET_SIZE
      BY <3>7, AddrManAssumption
    <3>9. ~x.mapInfo[id].fInTried
      BY <2>1, <2>2, <3>3, <3>4 DEF Shrunk
    <3>10. Ok(m, NoId, NoId) /\ m.nIdCount = x.nIdCount /\ m.mapAddr = x.mapAddr
      BY <1>2, <1>5, <2>5, <3>2, <3>5, <3>6, <3>8, <3>9, PlacedOk
    <3>11. \/ DOMAIN m.mapAddr = DOMAIN am.mapAddr
           \/ /\ DOMAIN m.mapAddr = DOMAIN am.mapAddr \ {IpOf[am.mapInfo[v].addr]}
              /\ NewBucketsOf(am, v) = {b}
      BY <2>2, <2>3, <3>3, <3>4, <3>10 DEF Shrunk
    <3>12. KeepsOrMakesRoom(am, m)
      BY <1>2, <2>1, <2>6, <3>4, <3>11 DEF KeepsOrMakesRoom
    <3> QED BY <3>5, <3>10, <3>11, <3>12
  <2>7. CASE Cardinality(c.vvNew[b]) # ADDRMAN_NEW_BUCKET_SIZE
    <3>1. x = c
      BY <2>5, <2>7
    <3>2. Cardinality(c.vvNew[b]) < ADDRMAN_NEW_BUCKET_SIZE
      <4>1. Cardinality(am.vvNew[b]) <= ADDRMAN_NEW_BUCKET_SIZE
        BY <1>2 DEF Ok, Limits
      <4> QED BY <2>1, <2>4, <2>7, <4>1, AddrManAssumption
    <3>3. Ok(m, NoId, NoId) /\ m.nIdCount = c.nIdCount /\ m.mapAddr = c.mapAddr
      BY <1>2, <1>5, <2>1, <2>2, <2>5, <3>1, <3>2, PlacedOk
    <3> QED BY <2>2, <3>3 DEF KeepsOrMakesRoom
  <2> QED BY <2>6, <2>7
<1> QED BY <1>4, <1>5

\* A new entry without references yet.
LEMMA CreatedOk ==
    ASSUME NEW am, Ok(am, NoId, NoId), NEW a \in Service, NEW source \in Source,
           ~Found(am, a)
    PROVE  LET m == [Create(am, a, source) EXCEPT !.nNew = @ + 1]
           IN  /\ Ok(m, NoId, am.nIdCount)
               /\ Ids(m) = Ids(am) \cup {am.nIdCount}
               /\ m.nIdCount = am.nIdCount + 1
               /\ ~m.mapInfo[am.nIdCount].fInTried
               /\ m.mapInfo[am.nIdCount].nRefCount = 0
               /\ m.vvNew = am.vvNew
               /\ \A j \in Ids(am) : m.mapInfo[j] = am.mapInfo[j]
               /\ DOMAIN m.mapAddr = DOMAIN am.mapAddr \cup {IpOf[a]}
<1> DEFINE id   == am.nIdCount
           info == [addr |-> a, source |-> source, nRefCount |-> 0, fInTried |-> FALSE,
                    nRandomPos |-> Len(am.vRandom) + 1]
           m    == [Create(am, a, source) EXCEPT !.nNew = @ + 1]
<1>1. /\ Entries(am) /\ Buckets(am, NoId, NoId) /\ AddrIndex(am) /\ RandomIndex(am)
      /\ Limits(am) /\ CountsAgree(am)
  BY DEF Ok
<1>2. /\ DOMAIN am = Fields /\ id \in Nat /\ id \notin Ids(am)
      /\ am.vRandom \in Seq(Ids(am)) /\ Len(am.vRandom) \in Nat
  BY <1>1 DEF Entries, RandomIndex
<1>3. /\ DOMAIN m = Fields
      /\ m.nIdCount = id + 1
      /\ m.mapInfo = Put(am.mapInfo, id, info)
      /\ m.mapAddr = Put(am.mapAddr, IpOf[a], id)
      /\ m.vRandom = Append(am.vRandom, id)
      /\ m.nNew = am.nNew + 1
      /\ m.nTried = am.nTried /\ m.vvTried = am.vvTried /\ m.vvNew = am.vvNew
  <2>1. Create(am, a, source) =
            [am EXCEPT !.nIdCount = @ + 1, !.mapInfo = Put(am.mapInfo, id, info),
                       !.mapAddr = Put(am.mapAddr, IpOf[a], id),
                       !.vRandom = Append(am.vRandom, id)]
    BY DEF Create
  <2> HIDE DEF info
  <2> QED BY <1>2, <2>1 DEF Fields
<1>4. info \in CAddrInfo
  BY <1>2 DEF CAddrInfo
<1>5. /\ info.addr = a /\ info.nRefCount = 0 /\ info.fInTried = FALSE
      /\ info.nRandomPos = Len(am.vRandom) + 1
  OBVIOUS
<1> HIDE DEF m, info
<1>6. /\ Ids(m) = Ids(am) \cup {id} /\ m.mapInfo[id] = info
      /\ \A j \in Ids(am) : m.mapInfo[j] = am.mapInfo[j]
  <2>1. DOMAIN m.mapInfo = DOMAIN am.mapInfo \cup {id}
    BY <1>3 DEF Put
  <2>2. m.mapInfo[id] = info
    BY <1>3 DEF Put
  <2>3. \A j \in DOMAIN am.mapInfo : j # id => m.mapInfo[j] = am.mapInfo[j]
    BY <1>3 DEF Put
  <2> QED BY <1>2, <2>1, <2>2, <2>3 DEF Ids
<1>7. /\ DOMAIN m.mapAddr = DOMAIN am.mapAddr \cup {IpOf[a]} /\ m.mapAddr[IpOf[a]] = id
      /\ \A ip \in DOMAIN am.mapAddr : m.mapAddr[ip] = am.mapAddr[ip]
      /\ IpOf[a] \notin DOMAIN am.mapAddr /\ IpOf[a] \in NetAddr
  <2>1. IpOf[a] \notin DOMAIN am.mapAddr /\ IpOf[a] \in NetAddr
    BY AddrManAssumption DEF Found
  <2>2. DOMAIN m.mapAddr = DOMAIN am.mapAddr \cup {IpOf[a]}
    BY <1>3 DEF Put
  <2>3. m.mapAddr[IpOf[a]] = id
    BY <1>3 DEF Put
  <2>4. \A ip \in DOMAIN am.mapAddr : ip # IpOf[a] => m.mapAddr[ip] = am.mapAddr[ip]
    BY <1>3 DEF Put
  <2> QED BY <2>1, <2>2, <2>3, <2>4
<1>8. Entries(m)
  <2>1. Ids(m) \subseteq 0..(m.nIdCount - 1)
    BY <1>1, <1>2, <1>3, <1>6 DEF Entries
  <2>2. \A j \in Ids(m) : m.mapInfo[j] \in CAddrInfo
    BY <1>1, <1>4, <1>6 DEF Entries
  <2> QED BY <1>2, <1>3, <2>1, <2>2 DEF Entries
<1>9. AddrIndex(m)
  <2>1. ASSUME NEW ip \in DOMAIN m.mapAddr
        PROVE  m.mapAddr[ip] \in Ids(m) /\ IpOf[m.mapInfo[m.mapAddr[ip]].addr] = ip
    <3>1. CASE ip = IpOf[a]
      BY <1>5, <1>6, <1>7, <3>1
    <3>2. CASE ip \in DOMAIN am.mapAddr
      BY <1>1, <1>6, <1>7, <3>2 DEF AddrIndex
    <3> QED BY <1>7, <3>1, <3>2
  <2>2. ASSUME NEW j \in Ids(m)
        PROVE  /\ IpOf[m.mapInfo[j].addr] \in DOMAIN m.mapAddr
               /\ m.mapAddr[IpOf[m.mapInfo[j].addr]] = j
    <3>1. CASE j = id
      BY <1>5, <1>6, <1>7, <3>1
    <3>2. CASE j \in Ids(am)
      BY <1>1, <1>6, <1>7, <3>2 DEF AddrIndex
    <3> QED BY <1>6, <3>1, <3>2
  <2>3. DOMAIN m.mapAddr \subseteq NetAddr
    BY <1>1, <1>7 DEF AddrIndex
  <2> QED BY <2>1, <2>2, <2>3 DEF AddrIndex
<1>10. RandomIndex(m)
  <2> DEFINE last == Len(am.vRandom) + 1
  <2>1. /\ m.vRandom \in Seq(Ids(m)) /\ Len(m.vRandom) = last /\ m.vRandom[last] = id
        /\ \A p \in 1..Len(am.vRandom) : m.vRandom[p] = am.vRandom[p]
    <3>1. am.vRandom \in Seq(Ids(m)) /\ id \in Ids(m)
      BY <1>2, <1>6
    <3> QED BY <1>2, <1>3, <3>1
  <2>2. ASSUME NEW p \in 1..last PROVE m.mapInfo[m.vRandom[p]].nRandomPos = p
    <3>1. CASE p = last
      BY <1>5, <1>6, <2>1, <3>1
    <3>2. CASE p \in 1..Len(am.vRandom)
      BY <1>1, <1>2, <1>6, <2>1, <3>2 DEF RandomIndex
    <3> QED BY <1>2, <3>1, <3>2
  <2>3. ASSUME NEW j \in Ids(m)
        PROVE  m.mapInfo[j].nRandomPos \in 1..last /\ m.vRandom[m.mapInfo[j].nRandomPos] = j
    <3>1. CASE j = id
      BY <1>2, <1>5, <1>6, <2>1, <3>1
    <3>2. CASE j \in Ids(am)
      <4>1. /\ am.mapInfo[j].nRandomPos \in 1..Len(am.vRandom)
            /\ am.vRandom[am.mapInfo[j].nRandomPos] = j
        BY <1>1, <3>2 DEF RandomIndex
      <4>2. m.mapInfo[j].nRandomPos = am.mapInfo[j].nRandomPos
        BY <1>6, <3>2
      <4>3. am.mapInfo[j].nRandomPos \in 1..last
        BY <1>2, <4>1
      <4> HIDE DEF last
      <4> QED BY <2>1, <4>1, <4>2, <4>3
    <3> QED BY <1>6, <3>1, <3>2
  <2> QED BY <2>1, <2>2, <2>3 DEF RandomIndex
<1>11. CountsAgree(m)
  <2>1. Tried(m) = Tried(am) /\ New(m) = New(am) \cup {id} /\ id \notin New(am)
    BY <1>2, <1>5, <1>6 DEF Tried, New
  <2>2. IsFiniteSet(New(am)) /\ Cardinality(New(am)) \in Nat /\ Cardinality(Tried(am)) \in Nat
    BY <1>1, FiniteIds DEF Tried, New
  <2>3. Cardinality(New(m)) = Cardinality(New(am)) + 1
    BY <2>1, <2>2, FS_AddElement
  <2>4. Len(m.vRandom) = Len(am.vRandom) + 1
    BY <1>2, <1>3
  <2> QED BY <1>1, <1>3, <2>1, <2>2, <2>3, <2>4 DEF CountsAgree
<1>12. Buckets(m, NoId, id)
  <2>1. \A j : /\ TriedBucketsOf(m, j) = TriedBucketsOf(am, j)
               /\ NewBucketsOf(m, j) = NewBucketsOf(am, j)
    BY <1>3 DEF TriedBucketsOf, NewBucketsOf
  <2>2. /\ m.vvTried \in [TriedBucket -> SUBSET Ids(m)]
        /\ m.vvNew \in [NewBucket -> SUBSET Ids(m)]
    BY <1>1, <1>3, <1>6 DEF Buckets
  <2>3. NewEntry(m, id, NoId, id)
    <3>1. NewBucketsOf(am, id) = {} /\ TriedBucketsOf(am, id) = {}
      BY <1>1, <1>2 DEF NewBucketsOf, TriedBucketsOf, Buckets
    <3>2. m.mapInfo[id].nRefCount = 0 /\ id # NoId
      BY <1>2, <1>5, <1>6 DEF NoId
    <3>3. ADDRMAN_NEW_BUCKETS_PER_ADDRESS \in Nat
      BY AddrManAssumption
    <3>4. Cardinality(NewBucketsOf(m, id)) = 0
      BY <2>1, <3>1, FS_EmptySet
    <3>5. TriedBucketsOf(m, id) = {}
      BY <2>1, <3>1
    <3>6. 0 \in 0..ADDRMAN_NEW_BUCKETS_PER_ADDRESS
      BY <3>3
    <3>7. (IF id = NoId THEN 1 ELSE 0) = 0
      BY <3>2
    <3>8. Cardinality(NewBucketsOf(m, id)) = m.mapInfo[id].nRefCount - (IF id = NoId THEN 1 ELSE 0)
      <4> DEFINE e == IF id = NoId THEN 1 ELSE 0
      <4>1. e = 0
        BY <3>7
      <4> HIDE DEF e
      <4>2. Cardinality(NewBucketsOf(m, id)) = m.mapInfo[id].nRefCount - e
        BY <3>2, <3>4, <4>1
      <4> QED BY <4>2 DEF e
    <3> HIDE DEF id
    <3> QED BY <3>2, <3>5, <3>6, <3>8 DEF NewEntry
  <2>4. ASSUME NEW j \in Ids(am)
        PROVE  /\ m.mapInfo[j].fInTried => TriedEntry(m, j)
               /\ ~m.mapInfo[j].fInTried => NewEntry(m, j, NoId, id)
    <3>1. /\ am.mapInfo[j].fInTried => TriedEntry(am, j)
          /\ ~am.mapInfo[j].fInTried => NewEntry(am, j, NoId, NoId)
          /\ j # NoId /\ m.mapInfo[j] = am.mapInfo[j]
      BY <1>1, <1>6 DEF Buckets, Entries, NoId
    <3> QED BY <2>1, <3>1 DEF TriedEntry, NewEntry
  <2>5. ~m.mapInfo[id].fInTried
    BY <1>5, <1>6
  <2> QED BY <1>6, <2>2, <2>3, <2>4, <2>5 DEF Buckets
<1>13. Limits(m)
  BY <1>1, <1>3 DEF Limits
<1>14. Ok(m, NoId, id)
  BY <1>8, <1>9, <1>10, <1>11, <1>12, <1>13 DEF Ok
<1> QED BY <1>3, <1>5, <1>6, <1>7, <1>14 DEF m

\* Whatever is announced, Add_ leaves a manager in order.
LEMMA AddOk ==
    ASSUME NEW am, Ok(am, NoId, NoId), NEW a \in Service, NEW source \in Source,
           NEW m \in Add_(am, a, source)
    PROVE  /\ Ok(m, NoId, NoId) /\ KeepsOrMakesRoom(am, m)
           /\ m.nIdCount <= am.nIdCount + IF Found(am, a) THEN 0 ELSE 1
<1>1. Entries(am) /\ AddrIndex(am) /\ Buckets(am, NoId, NoId) /\ am.nIdCount \in Nat
  BY DEF Ok, Entries
<1>2. CASE m = am
  BY <1>1, <1>2 DEF KeepsOrMakesRoom
<1>3. CASE ~Found(am, a) /\ m # am
  <2> DEFINE id == am.nIdCount
             c  == [Create(am, a, source) EXCEPT !.nNew = @ + 1]
  <2>1. m \in Insert(c, id, source)
    BY <1>3 DEF Add_
  <2>2. /\ Ok(c, NoId, id) /\ Ids(c) = Ids(am) \cup {id} /\ c.nIdCount = id + 1
        /\ ~c.mapInfo[id].fInTried /\ c.mapInfo[id].nRefCount = 0
        /\ c.vvNew = am.vvNew
        /\ \A j \in Ids(am) : c.mapInfo[j] = am.mapInfo[j]
        /\ DOMAIN c.mapAddr = DOMAIN am.mapAddr \cup {IpOf[a]}
    BY <1>3, CreatedOk
  <2> HIDE DEF c, id
  <2>3. 0 # ADDRMAN_NEW_BUCKETS_PER_ADDRESS
    BY AddrManAssumption
  <2>4. /\ Ok(m, NoId, NoId) /\ m.nIdCount = id + 1
        /\ DOMAIN m.mapAddr \subseteq DOMAIN c.mapAddr
        /\ KeepsOrMakesRoom(c, m)
    BY <2>1, <2>2, <2>3, InsertOk
  <2>5. CASE DOMAIN c.mapAddr \subseteq DOMAIN m.mapAddr
    BY <1>1, <1>3, <2>2, <2>4, <2>5 DEF KeepsOrMakesRoom, id
  <2>6. CASE ~(DOMAIN c.mapAddr \subseteq DOMAIN m.mapAddr)
    <3>1. PICK v \in Ids(c), b \in NewBucket :
             /\ DOMAIN m.mapAddr \cap DOMAIN c.mapAddr =
                    DOMAIN c.mapAddr \ {IpOf[c.mapInfo[v].addr]}
             /\ v \in c.vvNew[b] /\ NewBucketsOf(c, v) = {b}
             /\ Cardinality(c.vvNew[b]) = ADDRMAN_NEW_BUCKET_SIZE
      BY <2>4, <2>6 DEF KeepsOrMakesRoom
    <3>2. v \in Ids(am) /\ c.mapInfo[v] = am.mapInfo[v]
      BY <1>1, <2>2, <3>1 DEF Buckets
    <3>3. NewBucketsOf(am, v) = {b}
      BY <2>2, <3>1 DEF NewBucketsOf
    <3>4. DOMAIN m.mapAddr \cap DOMAIN am.mapAddr =
              DOMAIN am.mapAddr \ {IpOf[am.mapInfo[v].addr]}
      <4>1. DOMAIN am.mapAddr \subseteq DOMAIN c.mapAddr
        BY <2>2
      <4> QED BY <3>1, <3>2, <4>1
    <3>5. KeepsOrMakesRoom(am, m)
      BY <2>2, <3>1, <3>2, <3>3, <3>4 DEF KeepsOrMakesRoom
    <3> QED BY <1>1, <1>3, <2>4, <3>5 DEF id
  <2> QED BY <2>5, <2>6
<1>4. CASE Found(am, a) /\ m # am
  <2> DEFINE id == Find(am, a)
  <2>1. /\ m \in Insert(am, id, source) /\ ~am.mapInfo[id].fInTried
        /\ am.mapInfo[id].nRefCount # ADDRMAN_NEW_BUCKETS_PER_ADDRESS
    BY <1>4 DEF Add_
  <2>2. id \in Ids(am)
    BY <1>1, <1>4 DEF Found, Find, AddrIndex
  <2> HIDE DEF id
  <2>3. Ok(am, NoId, id)
    <3>1. Buckets(am, NoId, id)
      BY <1>1 DEF Buckets, NewEntry, Entries, NoId
    <3> QED BY <3>1 DEF Ok
  <2> QED BY <1>1, <1>4, <2>1, <2>2, <2>3, InsertOk
<1> QED BY <1>2, <1>3, <1>4

-----------------------------------------------------------------------------
(***************************************************************************)
(* Good_.                                                                  *)
(***************************************************************************)
\* An entry that leaves all its new buckets has no references left.
LEMMA LeaveNewFacts ==
    ASSUME NEW am, NEW id \in Ids(am), Ok(am, NoId, NoId), ~am.mapInfo[id].fInTried
    PROVE  LET m == LeaveNew(am, id)
           IN  /\ DOMAIN m = Fields
               /\ m.mapInfo = [am.mapInfo EXCEPT ![id].nRefCount = 0]
               /\ m.vvNew = [b \in NewBucket |-> am.vvNew[b] \ {id}]
               /\ m.nNew = am.nNew - 1
               /\ \A f \in {"nIdCount", "mapAddr", "vRandom", "nTried", "vvTried"} :
                     m[f] = am[f]
<1> DEFINE m == LeaveNew(am, id)
           n == Cardinality(NewBucketsOf(am, id))
<1>1. Entries(am) /\ Buckets(am, NoId, NoId) /\ DOMAIN am = Fields
  BY DEF Ok, Entries
<1>2. NewEntry(am, id, NoId, NoId) /\ id # NoId
  BY <1>1 DEF Buckets, Entries, NoId
<1>3. n = am.mapInfo[id].nRefCount /\ n \in Int
  BY <1>2, AddrManAssumption DEF NewEntry
<1>4. m = [am EXCEPT !.mapInfo[id].nRefCount = @ - n,
                     !.vvNew = [b \in NewBucket |-> am.vvNew[b] \ {id}],
                     !.nNew = @ - 1]
  BY DEF LeaveNew, NewBucketsOf
<1> HIDE DEF n, m
<1>5. m.mapInfo = [am.mapInfo EXCEPT ![id].nRefCount = @ - n]
  BY <1>1, <1>4 DEF Fields
<1>6. am.mapInfo[id].nRefCount - n = 0
  BY <1>3
<1>7. m.mapInfo = [am.mapInfo EXCEPT ![id].nRefCount = 0]
  BY <1>5, <1>6
<1>8. /\ DOMAIN m = Fields
      /\ m.vvNew = [b \in NewBucket |-> am.vvNew[b] \ {id}]
      /\ m.nNew = am.nNew - 1
      /\ \A f \in {"nIdCount", "mapAddr", "vRandom", "nTried", "vvTried"} :
            m[f] = am[f]
  BY <1>1, <1>4 DEF Fields
<1> QED BY <1>7, <1>8 DEF m

\* What MakeTried does when the tried bucket has room.
Room(am, id, k) ==
    [LeaveNew(am, id) EXCEPT !.vvTried[k] = @ \cup {id}, !.nTried = @ + 1,
                             !.mapInfo[id].fInTried = TRUE]

\* An entry moves to its tried bucket, where there is room.
LEMMA RoomOk ==
    ASSUME NEW am, NEW id \in Ids(am), Ok(am, NoId, NoId), ~am.mapInfo[id].fInTried,
           NEW k, k = Home(am, id),
           Cardinality(am.vvTried[k]) < ADDRMAN_TRIED_BUCKET_SIZE
    PROVE  Ok(Room(am, id, k), NoId, NoId) /\ SameIndexes(am, Room(am, id, k))
<1> DEFINE m == LeaveNew(am, id)
           r == Room(am, id, k)
<1>1. /\ Entries(am) /\ Buckets(am, NoId, NoId) /\ AddrIndex(am) /\ RandomIndex(am)
      /\ Limits(am) /\ CountsAgree(am)
  BY DEF Ok
<1>2. /\ DOMAIN m = Fields
      /\ m.mapInfo = [am.mapInfo EXCEPT ![id].nRefCount = 0]
      /\ m.vvNew = [b \in NewBucket |-> am.vvNew[b] \ {id}]
      /\ m.nNew = am.nNew - 1
      /\ \A f \in {"nIdCount", "mapAddr", "vRandom", "nTried", "vvTried"} : m[f] = am[f]
  BY LeaveNewFacts
<1>3. k \in TriedBucket
  <2>1. am.mapInfo[id].addr \in Service
    BY <1>1 DEF Entries, CAddrInfo
  <2> HIDE DEF TriedBucket
  <2> QED BY <2>1, AddrManAssumption DEF Home
<1> HIDE DEF m, r
<1>4. /\ DOMAIN r = Fields
      /\ r.mapInfo = [m.mapInfo EXCEPT ![id].fInTried = TRUE]
      /\ r.vvTried = [m.vvTried EXCEPT ![k] = @ \cup {id}]
      /\ r.nTried = m.nTried + 1
      /\ \A f \in {"nIdCount", "mapAddr", "vRandom", "nNew", "vvNew"} : r[f] = m[f]
  <2>1. r = [m EXCEPT !.vvTried[k] = @ \cup {id}, !.nTried = @ + 1, !.mapInfo[id].fInTried = TRUE]
    BY DEF m, r, Room
  <2> QED BY <1>2, <2>1 DEF Fields
<1>5. /\ r.nIdCount = am.nIdCount /\ r.mapAddr = am.mapAddr /\ r.vRandom = am.vRandom
      /\ r.nTried = am.nTried + 1 /\ r.vvTried = [am.vvTried EXCEPT ![k] = @ \cup {id}]
      /\ r.nNew = am.nNew - 1 /\ r.vvNew = [b \in NewBucket |-> am.vvNew[b] \ {id}]
  BY <1>2, <1>4
<1>6. /\ Ids(r) = Ids(am)
      /\ r.mapInfo[id] = AsTried(am.mapInfo[id])
      /\ \A j \in Ids(am) : j # id => r.mapInfo[j] = am.mapInfo[j]
  <2>1. id \in DOMAIN am.mapInfo /\ DOMAIN m.mapInfo = DOMAIN am.mapInfo
        /\ DOMAIN r.mapInfo = DOMAIN am.mapInfo
    BY <1>2, <1>4 DEF Ids
  <2>2. m.mapInfo[id] = [am.mapInfo[id] EXCEPT !.nRefCount = 0]
    BY <1>2, <2>1
  <2>3. r.mapInfo[id] = [m.mapInfo[id] EXCEPT !.fInTried = TRUE]
    BY <1>4, <2>1
  <2>4. \A j \in Ids(am) : j # id => r.mapInfo[j] = am.mapInfo[j]
    BY <1>2, <1>4, <2>1 DEF Ids
  <2>5. r.mapInfo[id] = AsTried(am.mapInfo[id])
    BY <2>2, <2>3 DEF AsTried
  <2> QED BY <2>1, <2>4, <2>5 DEF Ids
<1>7. \A j \in Ids(am) : /\ r.mapInfo[j].addr = am.mapInfo[j].addr
                         /\ r.mapInfo[j].source = am.mapInfo[j].source
                         /\ r.mapInfo[j].nRandomPos = am.mapInfo[j].nRandomPos
                         /\ r.mapInfo[j] \in CAddrInfo
  <2> SUFFICES ASSUME NEW j \in Ids(am)
               PROVE  /\ r.mapInfo[j].addr = am.mapInfo[j].addr
                      /\ r.mapInfo[j].source = am.mapInfo[j].source
                      /\ r.mapInfo[j].nRandomPos = am.mapInfo[j].nRandomPos
                      /\ r.mapInfo[j] \in CAddrInfo
    OBVIOUS
  <2>1. am.mapInfo[j] \in CAddrInfo
    BY <1>1 DEF Entries
  <2>2. CASE j # id
    BY <1>6, <2>1, <2>2
  <2>3. CASE j = id
    BY <1>6, <2>1, <2>3, AsTriedFacts
  <2> QED BY <2>2, <2>3
<1>8. r.mapInfo[id].nRefCount = 0 /\ r.mapInfo[id].fInTried = TRUE
  <2>1. am.mapInfo[id] \in CAddrInfo
    BY <1>1 DEF Entries
  <2> QED BY <1>6, <2>1, AsTriedFacts
<1>9. SameIndexes(am, r)
  BY <1>1, <1>4, <1>5, <1>6, <1>7 DEF SameIndexes, Entries
<1>10. CountsAgree(r)
  <2>1. /\ Tried(r) = Tried(am) \cup {id} /\ New(r) = New(am) \ {id}
        /\ id \notin Tried(am) /\ id \in New(am)
    BY <1>6, <1>8 DEF Tried, New
  <2>2. /\ IsFiniteSet(New(am)) /\ Cardinality(New(am)) \in Nat
        /\ IsFiniteSet(Tried(am)) /\ Cardinality(Tried(am)) \in Nat
    BY <1>1, FiniteIds DEF Tried, New
  <2>3. Cardinality(New(r)) = Cardinality(New(am)) - 1
    BY <2>1, <2>2, FS_RemoveElement
  <2>4. Cardinality(Tried(r)) = Cardinality(Tried(am)) + 1
    BY <2>1, <2>2, FS_AddElement
  <2> QED BY <1>1, <1>5, <2>2, <2>3, <2>4 DEF CountsAgree
<1>11. /\ am.vvTried \in [TriedBucket -> SUBSET Ids(am)]
       /\ am.vvNew \in [NewBucket -> SUBSET Ids(am)]
  BY <1>1 DEF Buckets
<1>12. /\ \A b \in NewBucket : r.vvNew[b] = am.vvNew[b] \ {id}
       /\ \A t \in TriedBucket : r.vvTried[t] = IF t = k THEN am.vvTried[t] \cup {id}
                                                ELSE am.vvTried[t]
  BY <1>5, <1>11
<1>13. Buckets(r, NoId, NoId)
  <2>1. /\ r.vvTried \in [TriedBucket -> SUBSET Ids(r)]
        /\ r.vvNew \in [NewBucket -> SUBSET Ids(r)]
    <3>1. DOMAIN r.vvTried = TriedBucket /\ r.vvTried = [t \in TriedBucket |-> r.vvTried[t]]
      BY <1>5, <1>11
    <3>2. \A t \in TriedBucket : r.vvTried[t] \subseteq Ids(r)
      BY <1>6, <1>11, <1>12
    <3>3. \A b \in NewBucket : am.vvNew[b] \ {id} \subseteq Ids(r)
      BY <1>6, <1>11
    <3>4. r.vvTried \in [TriedBucket -> SUBSET Ids(r)]
      BY <3>1, <3>2
    <3>5. r.vvNew \in [NewBucket -> SUBSET Ids(r)]
      BY <1>5, <3>3
    <3> QED BY <3>4, <3>5
  <2>2. \A j : j # id => /\ NewBucketsOf(r, j) = NewBucketsOf(am, j)
                         /\ TriedBucketsOf(r, j) = TriedBucketsOf(am, j)
    <3> TAKE j
    <3>1. j # id => \A b \in NewBucket : j \in r.vvNew[b] <=> j \in am.vvNew[b]
      BY <1>12
    <3>2. j # id => \A t \in TriedBucket : j \in r.vvTried[t] <=> j \in am.vvTried[t]
      BY <1>12
    <3> QED BY <3>1, <3>2 DEF NewBucketsOf, TriedBucketsOf
  <2>3. TriedEntry(r, id)
    <3>1. NewBucketsOf(r, id) = {}
      BY <1>12 DEF NewBucketsOf
    <3>2. TriedBucketsOf(am, id) = {}
      BY <1>1 DEF Buckets, NewEntry
    <3>3. TriedBucketsOf(r, id) = {k}
      BY <1>3, <1>12, <3>2 DEF TriedBucketsOf
    <3>4. k = GetTriedBucket[r.mapInfo[id].addr]
      BY <1>7 DEF Home
    <3> QED BY <1>8, <3>1, <3>3, <3>4 DEF TriedEntry
  <2>4. ASSUME NEW j \in Ids(am), j # id
        PROVE  /\ r.mapInfo[j].fInTried => TriedEntry(r, j)
               /\ ~r.mapInfo[j].fInTried => NewEntry(r, j, NoId, NoId)
    <3>1. /\ am.mapInfo[j].fInTried => TriedEntry(am, j)
          /\ ~am.mapInfo[j].fInTried => NewEntry(am, j, NoId, NoId)
          /\ r.mapInfo[j] = am.mapInfo[j]
      BY <1>1, <1>6, <2>4 DEF Buckets
    <3> QED BY <2>2, <2>4, <3>1 DEF TriedEntry, NewEntry
  <2> QED BY <1>6, <1>8, <2>1, <2>3, <2>4 DEF Buckets
<1>14. Limits(r)
  <2>1. ASSUME NEW b \in NewBucket
        PROVE  Cardinality(r.vvNew[b]) <= ADDRMAN_NEW_BUCKET_SIZE
    <3>1. IsFiniteSet(am.vvNew[b]) /\ Cardinality(am.vvNew[b]) \in Nat
      BY <1>1, <1>11, FiniteIds
    <3>2. r.vvNew[b] \subseteq am.vvNew[b]
      BY <1>12
    <3>3. Cardinality(r.vvNew[b]) <= Cardinality(am.vvNew[b]) /\ Cardinality(r.vvNew[b]) \in Nat
      BY <3>1, <3>2, FS_Subset, FS_CardinalityType
    <3> QED BY <1>1, <3>1, <3>3, AddrManAssumption DEF Limits
  <2>2. ASSUME NEW t \in TriedBucket
        PROVE  Cardinality(r.vvTried[t]) <= ADDRMAN_TRIED_BUCKET_SIZE
    <3>1. CASE t # k
      BY <1>1, <1>12, <3>1 DEF Limits
    <3>2. CASE t = k
      <4>1. IsFiniteSet(am.vvTried[k]) /\ Cardinality(am.vvTried[k]) \in Nat
        BY <1>1, <1>3, <1>11, FiniteIds
      <4> DEFINE S == am.vvTried[k]
      <4>2. Cardinality(S \cup {id}) <= Cardinality(S) + 1 /\ Cardinality(S \cup {id}) \in Nat
        BY <4>1, CardAdd
      <4>3. Cardinality(am.vvTried[k]) < ADDRMAN_TRIED_BUCKET_SIZE
        OBVIOUS
      <4>4. r.vvTried[t] = S \cup {id}
        BY <1>12, <3>2
      <4> QED BY <4>1, <4>2, <4>3, <4>4, AddrManAssumption
    <3> QED BY <3>1, <3>2
  <2> QED BY <2>1, <2>2 DEF Limits
<1>15. Ok(r, NoId, NoId)
  BY <1>1, <1>9, <1>10, <1>13, <1>14, SameIndexesOk DEF Ok, SameIndexes
<1> QED BY <1>9, <1>15 DEF r

\* The evicted entry goes to a new bucket that has room: its own, or the one
\* that the other entry has just left.
LEMMA EvictToFacts ==
    ASSUME NEW am, NEW id \in Ids(am), Ok(am, NoId, NoId), ~am.mapInfo[id].fInTried,
           NEW old \in Ids(am), old # id, NEW nOrigin \in NewBucket, id \in am.vvNew[nOrigin]
    PROVE  LET m == LeaveNew(am, id)
               e == EvictTo(m, old, nOrigin)
           IN  e \in NewBucket /\ Cardinality(m.vvNew[e]) < ADDRMAN_NEW_BUCKET_SIZE
<1> DEFINE m == LeaveNew(am, id)
           e == EvictTo(m, old, nOrigin)
           b == GetNewBucket[IpOf[m.mapInfo[old].addr], m.mapInfo[old].source]
<1>1. Entries(am) /\ Buckets(am, NoId, NoId) /\ Limits(am)
  BY DEF Ok
<1>2. /\ m.mapInfo = [am.mapInfo EXCEPT ![id].nRefCount = 0]
      /\ m.vvNew = [c \in NewBucket |-> am.vvNew[c] \ {id}]
  BY LeaveNewFacts
<1> HIDE DEF m
<1>3. m.mapInfo[old] = am.mapInfo[old] /\ am.mapInfo[old] \in CAddrInfo
  BY <1>1, <1>2 DEF Entries, Ids
<1>4. b \in NewBucket
  <2>1. m.mapInfo[old].addr \in Service /\ m.mapInfo[old].source \in Source
    BY <1>3 DEF CAddrInfo
  <2>2. IpOf[m.mapInfo[old].addr] \in NetAddr
    BY <2>1, AddrManAssumption
  <2> HIDE DEF NewBucket
  <2> QED BY <2>1, <2>2, AddrManAssumption
<1>5. e = IF Cardinality(m.vvNew[b]) < ADDRMAN_NEW_BUCKET_SIZE THEN b ELSE nOrigin
  BY DEF EvictTo
<1> HIDE DEF b, e
<1>6. Cardinality(m.vvNew[nOrigin]) < ADDRMAN_NEW_BUCKET_SIZE
  <2> DEFINE S == am.vvNew[nOrigin]
  <2>1. IsFiniteSet(S) /\ Cardinality(S) \in Nat
    BY <1>1, FiniteIds DEF Buckets
  <2>2. Cardinality(S \ {id}) = Cardinality(S) - 1
    BY <2>1, FS_RemoveElement
  <2>3. Cardinality(S) <= ADDRMAN_NEW_BUCKET_SIZE
    BY <1>1 DEF Limits
  <2>4. m.vvNew[nOrigin] = S \ {id}
    BY <1>2
  <2> QED BY <2>1, <2>2, <2>3, <2>4, AddrManAssumption
<1> QED BY <1>4, <1>5, <1>6 DEF e, m

\* An entry moves to its tried bucket, and another one makes room for it.
LEMMA EvictOk ==
    ASSUME NEW am, NEW id \in Ids(am), Ok(am, NoId, NoId), ~am.mapInfo[id].fInTried,
           NEW k, k = Home(am, id), NEW old \in am.vvTried[k],
           NEW nOrigin \in NewBucket, id \in am.vvNew[nOrigin]
    PROVE  LET r == Evict(LeaveNew(am, id), k, old, id, nOrigin)
           IN  Ok(r, NoId, NoId) /\ SameIndexes(am, r)
<1> DEFINE m == LeaveNew(am, id)
           e == EvictTo(m, old, nOrigin)
           r == Evict(m, k, old, id, nOrigin)
<1>1. /\ Entries(am) /\ Buckets(am, NoId, NoId) /\ AddrIndex(am) /\ RandomIndex(am)
      /\ Limits(am) /\ CountsAgree(am)
  BY DEF Ok
<1>2. /\ DOMAIN m = Fields
      /\ m.mapInfo = [am.mapInfo EXCEPT ![id].nRefCount = 0]
      /\ m.vvNew = [b \in NewBucket |-> am.vvNew[b] \ {id}]
      /\ m.nNew = am.nNew - 1
      /\ \A f \in {"nIdCount", "mapAddr", "vRandom", "nTried", "vvTried"} : m[f] = am[f]
  BY LeaveNewFacts
<1>3. k \in TriedBucket
  <2>1. am.mapInfo[id].addr \in Service
    BY <1>1 DEF Entries, CAddrInfo
  <2> HIDE DEF TriedBucket
  <2> QED BY <2>1, AddrManAssumption DEF Home
<1>4. /\ am.vvTried \in [TriedBucket -> SUBSET Ids(am)]
      /\ am.vvNew \in [NewBucket -> SUBSET Ids(am)]
  BY <1>1 DEF Buckets
<1>5. old \in Ids(am)
  BY <1>3, <1>4
<1>6. am.mapInfo[old].fInTried /\ old # id
  <2> SUFFICES ASSUME ~am.mapInfo[old].fInTried PROVE FALSE
    OBVIOUS
  <2>1. TriedBucketsOf(am, old) = {}
    BY <1>1, <1>5 DEF Buckets, NewEntry
  <2> QED BY <1>3, <2>1 DEF TriedBucketsOf
<1>7. NewBucketsOf(am, old) = {} /\ TriedBucketsOf(am, old) = {k}
  <2>1. TriedEntry(am, old)
    BY <1>1, <1>5, <1>6 DEF Buckets
  <2>2. k \in TriedBucketsOf(am, old)
    BY <1>3 DEF TriedBucketsOf
  <2> QED BY <2>1, <2>2 DEF TriedEntry
<1>8. e \in NewBucket /\ Cardinality(m.vvNew[e]) < ADDRMAN_NEW_BUCKET_SIZE
  BY <1>5, <1>6, EvictToFacts
<1> DEFINE i1 == [m.mapInfo EXCEPT ![old].fInTried = FALSE]
           i2 == [i1 EXCEPT ![old].nRefCount = 1]
           i3 == [i2 EXCEPT ![id].fInTried = TRUE]
<1>9. /\ DOMAIN r = Fields
      /\ r.mapInfo = i3
      /\ r.vvNew = [m.vvNew EXCEPT ![e] = @ \cup {old}]
      /\ r.vvTried = [m.vvTried EXCEPT ![k] = (@ \ {old}) \cup {id}]
      /\ r.nNew = m.nNew + 1
      /\ \A f \in {"nIdCount", "mapAddr", "vRandom", "nTried"} : r[f] = m[f]
  <2>1. r = [m EXCEPT !.mapInfo[old].fInTried = FALSE, !.mapInfo[old].nRefCount = 1,
                      !.vvNew[e] = @ \cup {old},
                      !.nNew = @ + 1,
                      !.vvTried[k] = (@ \ {old}) \cup {id},
                      !.mapInfo[id].fInTried = TRUE]
    BY DEF Evict
  <2> HIDE DEF m, r, e
  <2> QED BY <1>2, <2>1 DEF Fields
<1> HIDE DEF m, r, e
<1>10. /\ r.nIdCount = am.nIdCount /\ r.mapAddr = am.mapAddr /\ r.vRandom = am.vRandom
       /\ r.nTried = am.nTried /\ r.vvTried = [am.vvTried EXCEPT ![k] = (@ \ {old}) \cup {id}]
       /\ r.nNew = (am.nNew - 1) + 1
  BY <1>2, <1>9
<1>11. /\ Ids(r) = Ids(am)
       /\ r.mapInfo[id] = AsTried(am.mapInfo[id])
       /\ r.mapInfo[old] = AsNew(am.mapInfo[old])
       /\ \A j \in Ids(am) : j # id /\ j # old => r.mapInfo[j] = am.mapInfo[j]
  <2>1. /\ id \in DOMAIN am.mapInfo /\ old \in DOMAIN am.mapInfo
        /\ DOMAIN m.mapInfo = DOMAIN am.mapInfo
    BY <1>2, <1>5 DEF Ids
  <2>2. /\ m.mapInfo[id] = [am.mapInfo[id] EXCEPT !.nRefCount = 0]
        /\ \A j \in DOMAIN am.mapInfo : j # id => m.mapInfo[j] = am.mapInfo[j]
    BY <1>2, <2>1
  <2>3. /\ DOMAIN i1 = DOMAIN am.mapInfo
        /\ i1[old] = [m.mapInfo[old] EXCEPT !.fInTried = FALSE]
        /\ \A j \in DOMAIN am.mapInfo : j # old => i1[j] = m.mapInfo[j]
    BY <2>1
  <2> HIDE DEF i1
  <2>4. /\ DOMAIN i2 = DOMAIN am.mapInfo
        /\ i2[old] = [i1[old] EXCEPT !.nRefCount = 1]
        /\ \A j \in DOMAIN am.mapInfo : j # old => i2[j] = i1[j]
    BY <2>1, <2>3
  <2> HIDE DEF i2
  <2>5. /\ DOMAIN i3 = DOMAIN am.mapInfo
        /\ i3[id] = [i2[id] EXCEPT !.fInTried = TRUE]
        /\ \A j \in DOMAIN am.mapInfo : j # id => i3[j] = i2[j]
    BY <2>1, <2>4
  <2> HIDE DEF i3
  <2>6. i3[id] = AsTried(am.mapInfo[id])
    BY <1>6, <2>1, <2>2, <2>3, <2>4, <2>5 DEF AsTried
  <2>7. i3[old] = AsNew(am.mapInfo[old])
    BY <1>6, <2>1, <2>2, <2>3, <2>4, <2>5 DEF AsNew
  <2>8. \A j \in DOMAIN am.mapInfo : j # id /\ j # old => i3[j] = am.mapInfo[j]
    BY <2>2, <2>3, <2>4, <2>5
  <2> QED BY <1>9, <2>5, <2>6, <2>7, <2>8 DEF Ids
<1> HIDE DEF i3
<1>12. /\ r.mapInfo[id].nRefCount = 0 /\ r.mapInfo[id].fInTried = TRUE
       /\ r.mapInfo[old].nRefCount = 1 /\ r.mapInfo[old].fInTried = FALSE
  <2>1. am.mapInfo[id] \in CAddrInfo /\ am.mapInfo[old] \in CAddrInfo
    BY <1>1, <1>5 DEF Entries
  <2> QED BY <1>11, <2>1, AsTriedFacts, AsNewFacts
<1>13. \A j \in Ids(am) : /\ r.mapInfo[j].addr = am.mapInfo[j].addr
                          /\ r.mapInfo[j].source = am.mapInfo[j].source
                          /\ r.mapInfo[j].nRandomPos = am.mapInfo[j].nRandomPos
                          /\ r.mapInfo[j] \in CAddrInfo
  <2> SUFFICES ASSUME NEW j \in Ids(am)
               PROVE  /\ r.mapInfo[j].addr = am.mapInfo[j].addr
                      /\ r.mapInfo[j].source = am.mapInfo[j].source
                      /\ r.mapInfo[j].nRandomPos = am.mapInfo[j].nRandomPos
                      /\ r.mapInfo[j] \in CAddrInfo
    OBVIOUS
  <2>1. am.mapInfo[j] \in CAddrInfo
    BY <1>1 DEF Entries
  <2>2. CASE j # id /\ j # old
    BY <1>11, <2>1, <2>2
  <2>3. CASE j = id
    BY <1>11, <2>1, <2>3, AsTriedFacts
  <2>4. CASE j = old
    BY <1>11, <2>1, <2>4, AsNewFacts
  <2> QED BY <2>2, <2>3, <2>4
<1>14. SameIndexes(am, r)
  BY <1>1, <1>9, <1>10, <1>11, <1>13 DEF SameIndexes, Entries
<1>15. CountsAgree(r)
  <2>1. /\ Tried(r) = (Tried(am) \ {old}) \cup {id} /\ New(r) = (New(am) \ {id}) \cup {old}
        /\ id \notin Tried(am) /\ id \in New(am) /\ old \in Tried(am) /\ old \notin New(am)
    BY <1>5, <1>6, <1>11, <1>12 DEF Tried, New
  <2>2. /\ IsFiniteSet(New(am)) /\ Cardinality(New(am)) \in Nat
        /\ IsFiniteSet(Tried(am)) /\ Cardinality(Tried(am)) \in Nat
    BY <1>1, FiniteIds DEF Tried, New
  <2>3. Cardinality(New(r)) = Cardinality(New(am))
    <3> DEFINE S == New(am) \ {id}
    <3>1. IsFiniteSet(S) /\ Cardinality(S) = Cardinality(New(am)) - 1
      BY <2>1, <2>2, FS_RemoveElement
    <3>2. Cardinality(S \cup {old}) = Cardinality(S) + 1
      BY <2>1, <3>1, FS_AddElement
    <3> QED BY <2>1, <2>2, <3>1, <3>2
  <2>4. Cardinality(Tried(r)) = Cardinality(Tried(am))
    <3> DEFINE S == Tried(am) \ {old}
    <3>1. IsFiniteSet(S) /\ Cardinality(S) = Cardinality(Tried(am)) - 1
      BY <2>1, <2>2, FS_RemoveElement
    <3>2. Cardinality(S \cup {id}) = Cardinality(S) + 1
      BY <2>1, <3>1, FS_AddElement
    <3> QED BY <2>1, <2>2, <3>1, <3>2
  <2> QED BY <1>1, <1>10, <2>2, <2>3, <2>4 DEF CountsAgree
<1>16. /\ \A b \in NewBucket : b # e => r.vvNew[b] = am.vvNew[b] \ {id}
       /\ r.vvNew[e] = (am.vvNew[e] \ {id}) \cup {old}
       /\ \A t \in TriedBucket : t # k => r.vvTried[t] = am.vvTried[t]
       /\ r.vvTried[k] = (am.vvTried[k] \ {old}) \cup {id}
       /\ r.vvNew = [b \in NewBucket |-> r.vvNew[b]]
       /\ r.vvTried = [t \in TriedBucket |-> r.vvTried[t]]
  <2>1. r.vvNew = [m.vvNew EXCEPT ![e] = @ \cup {old}]
    BY <1>9
  <2>2. m.vvNew = [b \in NewBucket |-> am.vvNew[b] \ {id}]
    BY <1>2
  <2>3. /\ \A b \in NewBucket : b # e => r.vvNew[b] = m.vvNew[b]
        /\ r.vvNew[e] = m.vvNew[e] \cup {old}
        /\ r.vvNew = [b \in NewBucket |-> r.vvNew[b]]
    BY <1>8, <2>1, <2>2
  <2>4. \A b \in NewBucket : m.vvNew[b] = am.vvNew[b] \ {id}
    BY <2>2
  <2>5. r.vvTried = [am.vvTried EXCEPT ![k] = (@ \ {old}) \cup {id}]
    BY <1>10
  <2>6. /\ \A t \in TriedBucket : t # k => r.vvTried[t] = am.vvTried[t]
        /\ r.vvTried[k] = (am.vvTried[k] \ {old}) \cup {id}
        /\ r.vvTried = [t \in TriedBucket |-> r.vvTried[t]]
    BY <1>3, <1>4, <2>5
  <2> QED BY <1>8, <2>3, <2>4, <2>6
<1> HIDE DEF i1, i2
<1>17. Buckets(r, NoId, NoId)
  <2>1. /\ r.vvTried \in [TriedBucket -> SUBSET Ids(r)]
        /\ r.vvNew \in [NewBucket -> SUBSET Ids(r)]
    <3>1. ASSUME NEW t \in TriedBucket PROVE r.vvTried[t] \subseteq Ids(r)
      <4>1. am.vvTried[t] \subseteq Ids(r) /\ id \in Ids(r)
        BY <1>4, <1>11
      <4> QED BY <1>16, <4>1
    <3>2. ASSUME NEW b \in NewBucket PROVE r.vvNew[b] \subseteq Ids(r)
      <4>1. am.vvNew[b] \subseteq Ids(r) /\ old \in Ids(r)
        BY <1>4, <1>5, <1>11
      <4> QED BY <1>16, <4>1
    <3>3. r.vvTried \in [TriedBucket -> SUBSET Ids(r)]
      BY <1>16, <3>1
    <3>4. r.vvNew \in [NewBucket -> SUBSET Ids(r)]
      BY <1>16, <3>2
    <3> QED BY <3>3, <3>4
  <2>2. \A j : j # id /\ j # old => /\ NewBucketsOf(r, j) = NewBucketsOf(am, j)
                                    /\ TriedBucketsOf(r, j) = TriedBucketsOf(am, j)
    <3> TAKE j
    <3>1. j # id /\ j # old => \A b \in NewBucket : j \in r.vvNew[b] <=> j \in am.vvNew[b]
      BY <1>16
    <3>2. j # id /\ j # old => \A t \in TriedBucket : j \in r.vvTried[t] <=> j \in am.vvTried[t]
      BY <1>16
    <3> QED BY <3>1, <3>2 DEF NewBucketsOf, TriedBucketsOf
  <2>3. TriedEntry(r, id)
    <3>1. NewBucketsOf(r, id) = {}
      BY <1>6, <1>16 DEF NewBucketsOf
    <3>2. TriedBucketsOf(am, id) = {}
      BY <1>1 DEF Buckets, NewEntry
    <3>3. TriedBucketsOf(r, id) = {k}
      <4>1. \A t \in TriedBucket : id \in r.vvTried[t] <=> t = k
        BY <1>16, <3>2 DEF TriedBucketsOf
      <4> QED BY <1>3, <4>1 DEF TriedBucketsOf
    <3>4. k = GetTriedBucket[r.mapInfo[id].addr]
      BY <1>13 DEF Home
    <3> QED BY <1>12, <3>1, <3>3, <3>4 DEF TriedEntry
  <2>4. NewEntry(r, old, NoId, NoId)
    <3>1. TriedBucketsOf(r, old) = {}
      <4>1. \A t \in TriedBucket : old \notin r.vvTried[t]
        BY <1>6, <1>7, <1>16 DEF TriedBucketsOf
      <4> QED BY <4>1 DEF TriedBucketsOf
    <3>2. NewBucketsOf(r, old) = {e}
      <4>1. \A b \in NewBucket : old \in r.vvNew[b] <=> b = e
        BY <1>7, <1>16 DEF NewBucketsOf
      <4> QED BY <1>8, <4>1 DEF NewBucketsOf
    <3>3. Cardinality(NewBucketsOf(r, old)) = 1
      BY <3>2, FS_Singleton
    <3>4. old # NoId
      BY <1>1, <1>5 DEF Entries, NoId
    <3>5. 1 \in 0..ADDRMAN_NEW_BUCKETS_PER_ADDRESS
      BY AddrManAssumption
    <3> QED BY <1>12, <3>1, <3>3, <3>4, <3>5 DEF NewEntry
  <2>5. ASSUME NEW j \in Ids(am), j # id, j # old
        PROVE  /\ r.mapInfo[j].fInTried => TriedEntry(r, j)
               /\ ~r.mapInfo[j].fInTried => NewEntry(r, j, NoId, NoId)
    <3>1. /\ am.mapInfo[j].fInTried => TriedEntry(am, j)
          /\ ~am.mapInfo[j].fInTried => NewEntry(am, j, NoId, NoId)
          /\ r.mapInfo[j] = am.mapInfo[j]
      BY <1>1, <1>11, <2>5 DEF Buckets
    <3> QED BY <2>2, <2>5, <3>1 DEF TriedEntry, NewEntry
  <2> QED BY <1>11, <1>12, <2>1, <2>3, <2>4, <2>5 DEF Buckets
<1>18. Limits(r)
  <2>1. ASSUME NEW b \in NewBucket
        PROVE  Cardinality(r.vvNew[b]) <= ADDRMAN_NEW_BUCKET_SIZE
    <3> DEFINE S == am.vvNew[b]
    <3>1. IsFiniteSet(S) /\ Cardinality(S) \in Nat
      BY <1>1, <1>4, FiniteIds
    <3>2. /\ Cardinality(S \ {id}) <= Cardinality(S) /\ Cardinality(S \ {id}) \in Nat
          /\ IsFiniteSet(S \ {id})
      <4> DEFINE R == S \ {id}
      <4>1. R \in SUBSET S
        OBVIOUS
      <4> HIDE DEF R
      <4>2. Cardinality(R) <= Cardinality(S) /\ IsFiniteSet(R)
        BY <3>1, <4>1, FS_Subset
      <4>3. Cardinality(R) \in Nat
        BY <4>2, FS_CardinalityType
      <4> QED BY <4>2, <4>3 DEF R
    <3>3. CASE b # e
      <4>1. r.vvNew[b] = S \ {id}
        BY <1>16, <3>3
      <4>2. Cardinality(S) <= ADDRMAN_NEW_BUCKET_SIZE
        BY <1>1 DEF Limits
      <4> HIDE DEF S
      <4> QED BY <3>1, <3>2, <4>1, <4>2, AddrManAssumption
    <3>4. CASE b = e
      <4>1. r.vvNew[b] = (S \ {id}) \cup {old}
        BY <1>16, <3>4
      <4>2. Cardinality(S \ {id}) < ADDRMAN_NEW_BUCKET_SIZE
        BY <1>2, <1>8, <3>4
      <4>3. /\ Cardinality((S \ {id}) \cup {old}) <= Cardinality(S \ {id}) + 1
            /\ Cardinality((S \ {id}) \cup {old}) \in Nat
        BY <3>2, CardAdd
      <4> QED BY <3>2, <4>1, <4>2, <4>3, AddrManAssumption
    <3> QED BY <3>3, <3>4
  <2>2. ASSUME NEW t \in TriedBucket
        PROVE  Cardinality(r.vvTried[t]) <= ADDRMAN_TRIED_BUCKET_SIZE
    <3>1. CASE t # k
      BY <1>1, <1>16, <3>1 DEF Limits
    <3>2. CASE t = k
      <4> DEFINE S == am.vvTried[k]
      <4>1. IsFiniteSet(S) /\ Cardinality(S) \in Nat
        BY <1>1, <1>3, <1>4, FiniteIds
      <4>2. IsFiniteSet(S \ {old}) /\ Cardinality(S \ {old}) = Cardinality(S) - 1
        BY <4>1, FS_RemoveElement
      <4>3. /\ Cardinality((S \ {old}) \cup {id}) <= Cardinality(S \ {old}) + 1
            /\ Cardinality((S \ {old}) \cup {id}) \in Nat
        BY <4>2, CardAdd
      <4>4. Cardinality(S) <= ADDRMAN_TRIED_BUCKET_SIZE
        BY <1>1, <1>3 DEF Limits
      <4>5. r.vvTried[t] = (S \ {old}) \cup {id}
        BY <1>16, <3>2
      <4> QED BY <4>1, <4>2, <4>3, <4>4, <4>5, AddrManAssumption
    <3> QED BY <3>1, <3>2
  <2> QED BY <2>1, <2>2 DEF Limits
<1>19. Ok(r, NoId, NoId)
  BY <1>1, <1>14, <1>15, <1>17, <1>18, SameIndexesOk DEF Ok, SameIndexes
<1> QED BY <1>14, <1>19 DEF r, m

\* Good_ moves an entry to the tried table or changes nothing.
LEMMA GoodOk ==
    ASSUME NEW am, Ok(am, NoId, NoId), NEW a \in Service, NEW r \in Good_(am, a)
    PROVE  Ok(r, NoId, NoId) /\ SameIndexes(am, r)
<1>1. Entries(am) /\ AddrIndex(am)
  BY DEF Ok
<1>2. CASE r = am
  BY <1>1, <1>2 DEF SameIndexes
<1>3. CASE r # am
  <2> DEFINE id == Find(am, a)
             m  == LeaveNew(am, id)
             k  == GetTriedBucket[am.mapInfo[id].addr]
  <2>1. /\ Found(am, a) /\ ~am.mapInfo[id].fInTried
        /\ \E b \in {b \in NewBucket : id \in am.vvNew[b]} : r \in MakeTried(am, id, b)
    BY <1>3 DEF Good_
  <2>2. id \in Ids(am)
    BY <1>1, <2>1 DEF Found, Find, AddrIndex
  <2> HIDE DEF id
  <2>3. PICK b \in NewBucket : id \in am.vvNew[b] /\ r \in MakeTried(am, id, b)
    BY <2>1
  <2>4. r \in IF Cardinality(m.vvTried[k]) < ADDRMAN_TRIED_BUCKET_SIZE
              THEN {Room(am, id, k)}
              ELSE {Evict(m, k, old, id, b) : old \in m.vvTried[k]}
    BY <2>3 DEF MakeTried, Room
  <2>5. m.vvTried = am.vvTried
    BY <2>1, <2>2, LeaveNewFacts
  <2>6. k = Home(am, id)
    BY DEF Home
  <2> HIDE DEF k, m
  <2>7. CASE Cardinality(am.vvTried[k]) < ADDRMAN_TRIED_BUCKET_SIZE
    <3>1. r = Room(am, id, k)
      BY <2>4, <2>5, <2>7
    <3> QED BY <2>1, <2>2, <2>6, <2>7, <3>1, RoomOk
  <2>8. CASE ~(Cardinality(am.vvTried[k]) < ADDRMAN_TRIED_BUCKET_SIZE)
    <3>1. PICK old \in am.vvTried[k] : r = Evict(m, k, old, id, b)
      BY <2>4, <2>5, <2>8
    <3> QED BY <2>1, <2>2, <2>3, <2>6, <3>1, EvictOk DEF m
  <2> QED BY <2>7, <2>8
<1> QED BY <1>2, <1>3

-----------------------------------------------------------------------------
(***************************************************************************)
(* GetAddr_.                                                               *)
(***************************************************************************)
ShuffleBody(am, ms, n) == Shuffle(am, ms, n)

Rounds == INSTANCE FoldFacts WITH op <- ShuffleBody

\* GetAddr_ changes the places in vRandom and nothing else.
LEMMA GetAddrOk ==
    ASSUME NEW am, Ok(am, NoId, NoId), NEW r \in GetAddr_(am)
    PROVE  Ok(r, NoId, NoId) /\ SameTable(am, r)
<1> DEFINE pct    == (ADDRMAN_GETADDR_MAX_PCT * Len(am.vRandom)) \div 100
           nNodes == IF pct > ADDRMAN_GETADDR_MAX THEN ADDRMAN_GETADDR_MAX ELSE pct
           seq    == [n \in 1..nNodes |-> n]
<1>1. Entries(am) /\ RandomIndex(am) /\ Len(am.vRandom) \in Nat
  BY DEF Ok, RandomIndex
<1>2. pct \in Nat /\ pct <= Len(am.vRandom)
  <2> DEFINE L == Len(am.vRandom)
             P == ADDRMAN_GETADDR_MAX_PCT
  <2>1. L \in Nat /\ P \in 0..100
    BY <1>1, AddrManAssumption
  <2> HIDE DEF L, P
  <2>2. P * L \in Nat /\ P * L <= 100 * L
    BY <2>1
  <2>3. (P * L) \div 100 \in Nat /\ (P * L) \div 100 <= L
    BY <2>1, <2>2
  <2> QED BY <2>3 DEF L, P
<1>3. nNodes \in Nat /\ nNodes <= Len(am.vRandom)
  <2>1. ADDRMAN_GETADDR_MAX \in Nat
    BY AddrManAssumption
  <2> HIDE DEF pct
  <2> QED BY <1>1, <1>2, <2>1
<1>4. GetAddr_(am) = Rounds!Fold(am, {am}, seq)
  BY DEF GetAddr_, FoldLeft, MapThenFoldSet, Max, Rounds!Fold, Rounds!Largest, ShuffleBody
<1> HIDE DEF nNodes
<1>5. seq \in Seq(Nat) /\ Len(seq) = nNodes /\ \A n \in 1..nNodes : seq[n] = n
  BY <1>3
<1> HIDE DEF seq
<1>6. PICK acc : /\ Rounds!Accumulates(acc, am, {am}, seq)
                 /\ Rounds!Fold(am, {am}, seq) = acc[Len(seq)]
  BY <1>5, Rounds!FoldSteps
<1>7. /\ acc[0] = {am}
      /\ \A n \in 0 .. nNodes - 1 : acc[n + 1] = Shuffle(am, acc[n], n + 1)
  BY <1>3, <1>5, <1>6 DEF Rounds!Accumulates, ShuffleBody
<1> DEFINE S == {n \in Nat : \A m \in acc[n] : Ok(m, NoId, NoId) /\ SameTable(am, m)}
<1>8. 0 \in S
  BY <1>7 DEF SameTable
<1>9. ASSUME NEW n \in 0 .. nNodes - 1, n \in S PROVE n + 1 \in S
  <2>1. ASSUME NEW m \in acc[n + 1] PROVE Ok(m, NoId, NoId) /\ SameTable(am, m)
    <3>1. PICK s \in acc[n], q \in (n + 1)..Len(am.vRandom) : m = SwapRandom(s, n + 1, q)
      BY <1>7, <2>1 DEF Shuffle
    <3>2. Ok(s, NoId, NoId) /\ SameTable(am, s)
      BY <1>9
    <3>3. Len(s.vRandom) = Len(am.vRandom)
      BY <3>2 DEF SameTable
    <3>4. n + 1 \in 1..Len(s.vRandom) /\ q \in 1..Len(s.vRandom)
      BY <1>1, <1>3, <3>3
    <3>5. SameTable(s, m) /\ Entries(m) /\ RandomIndex(m)
      BY <3>1, <3>2, <3>4, SwapRandomFacts DEF Ok
    <3>6. Ok(m, NoId, NoId)
      BY <3>2, <3>5, SameTableOk
    <3>7. SameTable(am, m)
      BY <3>2, <3>5 DEF SameTable
    <3> QED BY <3>6, <3>7
  <2> QED BY <2>1
<1> HIDE DEF S
<1>10. nNodes \in S
  BY <1>3, <1>8, <1>9, Rounds!CountUp
<1> QED BY <1>4, <1>5, <1>6, <1>10 DEF S

-----------------------------------------------------------------------------
(***************************************************************************)
(* peers.dat: the numbers that entries have in the file.                   *)
(***************************************************************************)
\* Counting those below it numbers the elements of a set from 0.
LEMMA RankFacts ==
    ASSUME NEW S, S \subseteq Nat, IsFiniteSet(S)
    PROVE  /\ \A i \in S : Rank(S, i) \in 0..(Cardinality(S) - 1)
           /\ \A i, j \in S : Rank(S, i) = Rank(S, j) => i = j
           /\ \A n \in 0..(Cardinality(S) - 1) : Nth(S, n) \in S /\ Rank(S, Nth(S, n)) = n
           /\ \A i \in S : Nth(S, Rank(S, i)) = i
<1> DEFINE C == Cardinality(S)
           B(i) == {j \in S : j < i}
           f == [i \in S |-> Rank(S, i)]
<1>1. C \in Nat
  BY FS_CardinalityType
<1>2. \A i \in S : IsFiniteSet(B(i)) /\ Cardinality(B(i)) \in Nat
  <2> TAKE i \in S
  <2>1. B(i) \in SUBSET S
    OBVIOUS
  <2> QED BY <2>1, FS_Subset, FS_CardinalityType
<1>3. ASSUME NEW i \in S PROVE Rank(S, i) \in 0..(C - 1)
  <2>1. B(i) \in SUBSET S /\ B(i) # S
    OBVIOUS
  <2>2. Cardinality(B(i)) <= C /\ Cardinality(B(i)) # C
    BY <2>1, FS_Subset
  <2>3. Rank(S, i) = Cardinality(B(i))
    BY DEF Rank
  <2> HIDE DEF B, C
  <2> QED BY <1>1, <1>2, <2>2, <2>3
<1>4. ASSUME NEW i \in S, NEW j \in S, i < j PROVE Rank(S, i) # Rank(S, j)
  <2>1. i \in Nat /\ j \in Nat
    OBVIOUS
  <2>2. B(i) \in SUBSET B(j) /\ i \in B(j) /\ i \notin B(i)
    <3>1. \A x \in S : x < i => x < j
      BY <1>4, <2>1
    <3>2. B(i) \in SUBSET B(j)
      BY <3>1
    <3>3. i \in B(j) /\ i \notin B(i)
      BY <1>4, <2>1
    <3> QED BY <3>2, <3>3
  <2> HIDE DEF B
  <2>3. B(i) # B(j)
    BY <2>2
  <2>4. Cardinality(B(i)) # Cardinality(B(j))
    BY <1>2, <2>2, <2>3, FS_Subset
  <2> QED BY <2>4 DEF Rank, B
<1>5. ASSUME NEW i \in S, NEW j \in S, Rank(S, i) = Rank(S, j) PROVE i = j
  <2>1. i \in Nat /\ j \in Nat
    OBVIOUS
  <2>2. ~(i < j) /\ ~(j < i)
    BY <1>4, <1>5
  <2> QED BY <2>1, <2>2
<1>6. f \in Injection(S, 0..(C - 1))
  <2>1. f \in [S -> 0..(C - 1)]
    BY <1>3
  <2>2. \A i, j \in S : f[i] = f[j] => i = j
    BY <1>5
  <2> QED BY <2>1, <2>2 DEF Injection, IsInjective
<1>7. IsFiniteSet(0..(C - 1)) /\ Cardinality(0..(C - 1)) = C
  <2>1. IsFiniteSet(0..(C - 1)) /\ Cardinality(0..(C - 1)) = IF 0 > C - 1 THEN 0 ELSE (C - 1) - 0 + 1
    BY <1>1, FS_Interval
  <2> QED BY <1>1, <2>1
<1>8. f \in Surjection(S, 0..(C - 1))
  BY <1>6, <1>7, FS_Injection
<1>9. \A n \in 0..(C - 1) : \E i \in S : Rank(S, i) = n
  BY <1>8 DEF Surjection
<1>10. \A n \in 0..(C - 1) : Nth(S, n) \in S /\ Rank(S, Nth(S, n)) = n
  BY <1>9 DEF Nth
<1>11. \A i \in S : Nth(S, Rank(S, i)) = i
  BY <1>3, <1>5, <1>10
<1> QED BY <1>3, <1>5, <1>10, <1>11

\* The n-th of the first K numbers is n.
LEMMA NthOfInterval ==
    ASSUME NEW K \in Nat, NEW n \in 0..(K - 1)
    PROVE  Nth(0..(K - 1), n) = n
<1> DEFINE S == 0..(K - 1)
<1>1. IsFiniteSet(S) /\ S \subseteq Nat
  BY FS_Interval
<1>2. {j \in S : j < n} = 0..(n - 1)
  OBVIOUS
<1>3. Cardinality(0..(n - 1)) = n
  <2>1. Cardinality(0..(n - 1)) = IF 0 > n - 1 THEN 0 ELSE (n - 1) - 0 + 1
    BY FS_Interval
  <2> QED BY <2>1
<1>4. Rank(S, n) = n
  BY <1>2, <1>3 DEF Rank
<1> HIDE DEF S
<1>5. \A i \in S : Nth(S, Rank(S, i)) = i
  BY <1>1, RankFacts
<1> QED BY <1>4, <1>5 DEF S


\* A one-to-one function bounds the size of its domain.
LEMMA CardInjection ==
    ASSUME NEW S, NEW T, IsFiniteSet(T), NEW g \in [S -> T],
           \A i, j \in S : g[i] = g[j] => i = j
    PROVE  IsFiniteSet(S) /\ Cardinality(S) \in Nat /\ Cardinality(S) <= Cardinality(T)
<1>1. DOMAIN g = S
  OBVIOUS
<1>2. g \in Injection(S, T)
  BY <1>1 DEF Injection, IsInjective
<1> QED BY <1>2, FS_Injection, FS_CardinalityType

\* The number of numbers below n.
LEMMA CardBelow ==
    ASSUME NEW m \in Nat, NEW n \in Nat
    PROVE  /\ IsFiniteSet(m..(m + n - 1)) /\ Cardinality(m..(m + n - 1)) = n
<1>1. m \in Int /\ m + n - 1 \in Int
  OBVIOUS
<1>2. /\ IsFiniteSet(m..(m + n - 1))
      /\ Cardinality(m..(m + n - 1)) = IF m > m + n - 1 THEN 0 ELSE (m + n - 1) - m + 1
  BY <1>1, FS_Interval
<1> QED BY <1>2

\* Which entries have references and how many there are of each kind.
LEMMA KindFacts ==
    ASSUME NEW am, Ok(am, NoId, NoId)
    PROVE  /\ Tried(am) \subseteq Nat /\ IsFiniteSet(Tried(am))
           /\ New(am) \subseteq Nat /\ IsFiniteSet(New(am))
           /\ am.nTried \in Nat /\ am.nTried = Cardinality(Tried(am))
           /\ am.nNew \in Nat /\ am.nNew = Cardinality(New(am))
           /\ Ids(am) = New(am) \cup Tried(am) /\ New(am) \cap Tried(am) = {}
           /\ {id \in Ids(am) : am.mapInfo[id].nRefCount # 0} = New(am)
<1>1. Entries(am) /\ CountsAgree(am) /\ Buckets(am, NoId, NoId)
  BY DEF Ok
<1>2. Ids(am) \subseteq Nat
  BY <1>1 DEF Entries
<1>3. Tried(am) \subseteq Ids(am) /\ New(am) \subseteq Ids(am)
  BY DEF Tried, New
<1>4. /\ IsFiniteSet(Tried(am)) /\ Cardinality(Tried(am)) \in Nat
      /\ IsFiniteSet(New(am)) /\ Cardinality(New(am)) \in Nat
  BY <1>1, <1>3, FiniteIds
<1>5. am.nTried = Cardinality(Tried(am)) /\ am.nNew = Cardinality(New(am))
  BY <1>1 DEF CountsAgree
<1>6. \A id \in Ids(am) : am.mapInfo[id].nRefCount # 0 <=> ~am.mapInfo[id].fInTried
  <2> TAKE id \in Ids(am)
  <2>1. id # NoId
    BY <1>2 DEF NoId
  <2>2. am.mapInfo[id].fInTried => am.mapInfo[id].nRefCount = 0
    BY <1>1 DEF Buckets, TriedEntry
  <2>3. ~am.mapInfo[id].fInTried => am.mapInfo[id].nRefCount # 0
    BY <1>1, <2>1 DEF Buckets, NewEntry
  <2>4. am.mapInfo[id] \in CAddrInfo
    BY <1>1 DEF Entries
  <2> QED BY <2>2, <2>3
<1>7. {id \in Ids(am) : am.mapInfo[id].nRefCount # 0} = New(am)
  BY <1>6 DEF New, Tried
<1>8. Ids(am) = New(am) \cup Tried(am) /\ New(am) \cap Tried(am) = {}
  BY <1>3 DEF New
<1> QED BY <1>2, <1>3, <1>4, <1>5, <1>7, <1>8

\* The entry that a number stands for after a restart, and the converse.
Orig(am, n) == IF n < am.nNew THEN Nth(New(am), n) ELSE Nth(Tried(am), n - am.nNew)
Renumber(am, id) == IF id \in New(am) THEN Rank(New(am), id)
                    ELSE am.nNew + Rank(Tried(am), id)

\* Renumbering is one-to-one, and keeps the new entries and the tried ones apart.
LEMMA RenumberFacts ==
    ASSUME NEW am, Ok(am, NoId, NoId)
    PROVE  /\ \A n \in 0..(am.nNew - 1) : /\ Orig(am, n) \in New(am)
                                          /\ Orig(am, n) = Nth(New(am), n)
                                          /\ Rank(New(am), Orig(am, n)) = n
           /\ \A n \in am.nNew..(am.nNew + am.nTried - 1) : Orig(am, n) \in Tried(am)
           /\ \A n \in 0..(am.nTried - 1) : Orig(am, am.nNew + n) = Nth(Tried(am), n)
           /\ \A i, j \in 0..(am.nNew + am.nTried - 1) : Orig(am, i) = Orig(am, j) => i = j
           /\ \A id \in Ids(am) : /\ Renumber(am, id) \in 0..(am.nNew + am.nTried - 1)
                                  /\ Orig(am, Renumber(am, id)) = id
<1> DEFINE N == am.nNew
           K == am.nTried
           U == New(am)
           T == Tried(am)
<1>1. /\ T \subseteq Nat /\ IsFiniteSet(T) /\ U \subseteq Nat /\ IsFiniteSet(U)
      /\ K \in Nat /\ K = Cardinality(T) /\ N \in Nat /\ N = Cardinality(U)
      /\ Ids(am) = U \cup T /\ U \cap T = {}
  BY KindFacts
<1>2. /\ \A i \in U : Rank(U, i) \in 0..(N - 1)
      /\ \A n \in 0..(N - 1) : Nth(U, n) \in U /\ Rank(U, Nth(U, n)) = n
      /\ \A i \in U : Nth(U, Rank(U, i)) = i
  BY <1>1, RankFacts
<1>3. /\ \A i \in T : Rank(T, i) \in 0..(K - 1)
      /\ \A n \in 0..(K - 1) : Nth(T, n) \in T /\ Rank(T, Nth(T, n)) = n
      /\ \A i \in T : Nth(T, Rank(T, i)) = i
  BY <1>1, RankFacts
<1>4. \A n : n < N => Orig(am, n) = Nth(U, n)
  BY DEF Orig
<1>5. \A n : ~(n < N) => Orig(am, n) = Nth(T, n - N)
  BY DEF Orig
<1>6. \A id \in U : Renumber(am, id) = Rank(U, id)
  BY DEF Renumber
<1>7. \A id \in T : Renumber(am, id) = N + Rank(T, id)
  BY <1>1 DEF Renumber
<1> HIDE DEF N, K, U, T
<1>8. \A n \in 0..(N - 1) : Orig(am, n) \in U /\ Orig(am, n) = Nth(U, n) /\ Rank(U, Orig(am, n)) = n
  BY <1>1, <1>2, <1>4
<1>9. \A n \in N..(N + K - 1) : Orig(am, n) \in T /\ Rank(T, Orig(am, n)) = n - N
  <2> TAKE n \in N..(N + K - 1)
  <2>1. ~(n < N) /\ n - N \in 0..(K - 1)
    BY <1>1
  <2> QED BY <1>3, <1>5, <2>1
<1>10. \A n \in 0..(K - 1) : Orig(am, N + n) = Nth(T, n)
  <2> TAKE n \in 0..(K - 1)
  <2>1. ~(N + n < N) /\ (N + n) - N = n
    BY <1>1
  <2>2. Orig(am, N + n) = Nth(T, (N + n) - N)
    BY <1>5, <2>1
  <2> QED BY <2>1, <2>2
<1>11. ASSUME NEW i \in 0..(N + K - 1), NEW j \in 0..(N + K - 1), Orig(am, i) = Orig(am, j)
       PROVE  i = j
  <2>1. i \in 0..(N - 1) \/ i \in N..(N + K - 1)
    BY <1>1
  <2>2. j \in 0..(N - 1) \/ j \in N..(N + K - 1)
    BY <1>1
  <2>3. CASE i \in 0..(N - 1) /\ j \in 0..(N - 1)
    BY <1>8, <1>11, <2>3
  <2>4. CASE i \in N..(N + K - 1) /\ j \in N..(N + K - 1)
    <3>1. i - N = j - N
      BY <1>9, <1>11, <2>4
    <3> QED BY <1>1, <3>1
  <2>5. CASE i \in 0..(N - 1) /\ j \in N..(N + K - 1)
    BY <1>1, <1>8, <1>9, <1>11, <2>5
  <2>6. CASE i \in N..(N + K - 1) /\ j \in 0..(N - 1)
    BY <1>1, <1>8, <1>9, <1>11, <2>6
  <2> QED BY <2>1, <2>2, <2>3, <2>4, <2>5, <2>6
<1>12. ASSUME NEW id \in Ids(am)
       PROVE  Renumber(am, id) \in 0..(N + K - 1) /\ Orig(am, Renumber(am, id)) = id
  <2>1. CASE id \in U
    <3>1. Rank(U, id) \in 0..(N - 1) /\ Nth(U, Rank(U, id)) = id
      BY <1>2, <2>1
    <3>2. Rank(U, id) \in 0..(N + K - 1)
      BY <1>1, <3>1
    <3> QED BY <1>6, <1>8, <2>1, <3>1, <3>2
  <2>2. CASE id \in T
    <3>1. Rank(T, id) \in 0..(K - 1) /\ Nth(T, Rank(T, id)) = id
      BY <1>3, <2>2
    <3>2. N + Rank(T, id) \in 0..(N + K - 1)
      BY <1>1, <3>1
    <3> QED BY <1>7, <1>10, <2>2, <3>1, <3>2
  <2> QED BY <1>1, <2>1, <2>2
<1> QED BY <1>8, <1>9, <1>10, <1>11, <1>12 DEF N, K, U, T


-----------------------------------------------------------------------------
(***************************************************************************)
(* peers.dat: what is written and what is read back.                       *)
(***************************************************************************)
\* What Save writes of a consistent manager.
LEMMA SaveFacts ==
    ASSUME NEW am, Ok(am, NoId, NoId)
    PROVE  LET f == Save(am)
           IN  /\ f.nNew = am.nNew
               /\ \A n \in 0..(am.nNew - 1) : f.new[n] = Entry(am.mapInfo[Orig(am, n)])
               /\ DOMAIN f.tried = 0..(am.nTried - 1)
               /\ \A n \in 0..(am.nTried - 1) :
                     f.tried[n] = Entry(am.mapInfo[Orig(am, am.nNew + n)])
               /\ \A b \in NewBucket : f.vvNew[b] = {Rank(New(am), id) : id \in am.vvNew[b]}
<1> DEFINE U == New(am)
           T == Tried(am)
<1>1. {id \in Ids(am) : am.mapInfo[id].nRefCount # 0} = U
  BY KindFacts
<1>2. {id \in Ids(am) : am.mapInfo[id].fInTried} = T
  BY DEF Tried
<1>3. Save(am) =
        [nNew  |-> am.nNew,
         new   |-> [n \in 0..(am.nNew - 1)   |-> Entry(am.mapInfo[Nth(U, n)])],
         tried |-> [n \in 0..(am.nTried - 1) |-> Entry(am.mapInfo[Nth(T, n)])],
         vvNew |-> [b \in NewBucket |-> {UnkId(am, U, id) : id \in am.vvNew[b]}]]
  BY <1>1, <1>2 DEF Save
<1>4. /\ \A n \in 0..(am.nNew - 1) : Nth(U, n) = Orig(am, n)
      /\ \A n \in 0..(am.nTried - 1) : Nth(T, n) = Orig(am, am.nNew + n)
  BY RenumberFacts
<1> HIDE DEF U, T
<1>5. \A b \in NewBucket : Save(am).vvNew[b] = {Rank(U, id) : id \in am.vvNew[b]}
  BY <1>3 DEF UnkId
<1>6. /\ Save(am).nNew = am.nNew
      /\ \A n \in 0..(am.nNew - 1) : Save(am).new[n] = Entry(am.mapInfo[Nth(U, n)])
      /\ DOMAIN Save(am).tried = 0..(am.nTried - 1)
      /\ \A n \in 0..(am.nTried - 1) : Save(am).tried[n] = Entry(am.mapInfo[Nth(T, n)])
  BY <1>3
<1> QED BY <1>4, <1>5, <1>6 DEF U

\* The parts of Load.
LoadBucket(f, n) == GetTriedBucket[f.tried[n].addr]
LoadKept(f) ==
    {n \in DOMAIN f.tried :
        Cardinality({m \in DOMAIN f.tried : m < n /\ LoadBucket(f, m) = LoadBucket(f, n)})
            < ADDRMAN_TRIED_BUCKET_SIZE}
LoadIds(f) == 0..(f.nNew + Cardinality(LoadKept(f)) - 1)
LoadEntry(f) == [id \in LoadIds(f) |-> IF id < f.nNew THEN f.new[id]
                                       ELSE f.tried[Nth(LoadKept(f), id - f.nNew)]]
LoadNew(f) ==
    [b \in NewBucket |->
        {n \in f.vvNew[b] : Cardinality({c \in 0..(b - 1) : n \in f.vvNew[c]})
                                < ADDRMAN_NEW_BUCKETS_PER_ADDRESS}]

\* The manager that is made of them.
LoadManager(N, K, ids, size, ent, new) ==
    [nIdCount |-> N + K,
     mapInfo  |-> [id \in ids |->
                     [addr |-> ent[id].addr, source |-> ent[id].source,
                      nRefCount |-> Cardinality({b \in NewBucket : id \in new[b]}),
                      fInTried |-> id >= N, nRandomPos |-> id + 1]],
     mapAddr  |-> [ip \in {IpOf[ent[id].addr] : id \in ids} |->
                     CHOOSE id \in ids : /\ IpOf[ent[id].addr] = ip
                                         /\ \A j \in ids : IpOf[ent[j].addr] = ip => j <= id],
     vRandom  |-> [n \in 1..size |-> n - 1],
     nTried   |-> K,
     vvTried  |-> [k \in TriedBucket |->
                     {id \in ids : id >= N /\ GetTriedBucket[ent[id].addr] = k}],
     nNew     |-> N,
     vvNew    |-> new]

\* Load in terms of its parts.
LEMMA LoadParts ==
    ASSUME NEW f
    PROVE  Load(f) = LoadManager(f.nNew, Cardinality(LoadKept(f)), LoadIds(f),
                                 Cardinality(LoadIds(f)), LoadEntry(f), LoadNew(f))
BY DEF Load, LoadManager, LoadIds, LoadEntry, LoadNew, LoadKept, LoadBucket

\* The tried entries fit into the buckets that they are read into.
LEMMA KeptAll ==
    ASSUME NEW am, Ok(am, NoId, NoId)
    PROVE  LoadKept(Save(am)) = 0..(am.nTried - 1)
<1> DEFINE f == Save(am)
           N == am.nNew
           K == am.nTried
           orig(n) == Orig(am, N + n)
<1>1. /\ DOMAIN f.tried = 0..(K - 1)
      /\ \A n \in 0..(K - 1) : f.tried[n] = Entry(am.mapInfo[orig(n)])
  BY SaveFacts
<1>2. N \in Nat /\ K \in Nat
  BY KindFacts
<1>3. \A n \in 0..(K - 1) : orig(n) \in Tried(am)
  <2> TAKE n \in 0..(K - 1)
  <2>1. N + n \in N..(N + K - 1)
    BY <1>2
  <2> QED BY <2>1, RenumberFacts
<1>4. \A i, j \in 0..(K - 1) : orig(i) = orig(j) => i = j
  <2> TAKE i, j \in 0..(K - 1)
  <2>1. N + i \in 0..(N + K - 1) /\ N + j \in 0..(N + K - 1)
    BY <1>2
  <2>2. orig(i) = orig(j) => N + i = N + j
    BY <2>1, RenumberFacts
  <2> HIDE DEF orig
  <2> QED BY <1>2, <2>2
<1>5. \A n \in 0..(K - 1) : LoadBucket(f, n) = Home(am, orig(n))
  <2> HIDE DEF f, N, K, orig
  <2> TAKE n \in 0..(K - 1)
  <2>1. f.tried[n] = Entry(am.mapInfo[orig(n)])
    BY <1>1
  <2>2. Entry(am.mapInfo[orig(n)]).addr = am.mapInfo[orig(n)].addr
    BY DEF Entry
  <2> QED BY <2>1, <2>2 DEF LoadBucket, Home
<1>6. \A id \in Tried(am) : Home(am, id) \in TriedBucket /\ id \in am.vvTried[Home(am, id)]
  <2> TAKE id \in Tried(am)
  <2>1. TriedBucketsOf(am, id) = {Home(am, id)}
    BY DEF Ok, Buckets, TriedEntry, Home, Tried
  <2>2. Home(am, id) \in TriedBucketsOf(am, id)
    BY <2>1
  <2> QED BY <2>2 DEF TriedBucketsOf
<1> HIDE DEF f, N, K, orig
<1>7. ASSUME NEW n \in 0..(K - 1)
      PROVE  Cardinality({m \in 0..(K - 1) : m < n /\ LoadBucket(f, m) = LoadBucket(f, n)})
                < ADDRMAN_TRIED_BUCKET_SIZE
  <2> DEFINE D == {m \in 0..(K - 1) : m < n /\ LoadBucket(f, m) = LoadBucket(f, n)}
             E == D \cup {n}
             V == am.vvTried[LoadBucket(f, n)]
             g == [m \in E |-> orig(m)]
  <2>1. n \notin D /\ E \in SUBSET (0..(K - 1)) /\ D \in SUBSET (0..(K - 1))
    BY <1>2
  <2>2. \A m \in E : LoadBucket(f, m) = LoadBucket(f, n)
    OBVIOUS
  <2> HIDE DEF D
  <2>3. LoadBucket(f, n) \in TriedBucket
    BY <1>3, <1>5, <1>6
  <2>4. \A m \in E : orig(m) \in V
    <3> TAKE m \in E
    <3>1. m \in 0..(K - 1) /\ LoadBucket(f, m) = Home(am, orig(m))
      BY <1>5, <2>1
    <3> QED BY <1>3, <1>6, <2>2, <3>1
  <2>5. V \subseteq Ids(am) /\ Cardinality(V) <= ADDRMAN_TRIED_BUCKET_SIZE
    BY <2>3 DEF Ok, Buckets, Limits
  <2>6. IsFiniteSet(V) /\ Cardinality(V) \in Nat
    BY <2>5, FiniteIds DEF Ok
  <2> HIDE DEF E, V
  <2>7. g \in [E -> V] /\ \A i, j \in E : g[i] = g[j] => i = j
    BY <1>4, <2>1, <2>4
  <2> HIDE DEF g
  <2>8. IsFiniteSet(E) /\ Cardinality(E) \in Nat /\ Cardinality(E) <= Cardinality(V)
    BY <2>6, <2>7, CardInjection
  <2>9. D \in SUBSET E /\ D # E
    BY <2>1 DEF E
  <2>10. IsFiniteSet(D) /\ Cardinality(D) <= Cardinality(E) /\ Cardinality(D) # Cardinality(E)
    BY <2>8, <2>9, FS_Subset
  <2>11. Cardinality(D) \in Nat /\ ADDRMAN_TRIED_BUCKET_SIZE \in Nat
    BY <2>10, FS_CardinalityType, AddrManAssumption
  <2>12. Cardinality(D) < ADDRMAN_TRIED_BUCKET_SIZE
    BY <2>5, <2>6, <2>8, <2>10, <2>11
  <2> QED BY <2>12 DEF D
<1>8. LoadKept(f) = 0..(K - 1)
  BY <1>1, <1>7 DEF LoadKept
<1> QED BY <1>8 DEF f, K


\* The new entries are read back into all their buckets.
LEMMA LoadNewFacts ==
    ASSUME NEW am, Ok(am, NoId, NoId), NEW b \in NewBucket
    PROVE  /\ LoadNew(Save(am))[b] \subseteq 0..(am.nNew - 1)
           /\ \A n \in 0..(am.nNew + am.nTried - 1) :
                 n \in LoadNew(Save(am))[b] <=> Orig(am, n) \in am.vvNew[b]
<1> DEFINE f == Save(am)
           U == New(am)
           N == am.nNew
           K == am.nTried
           max == ADDRMAN_NEW_BUCKETS_PER_ADDRESS
<1>1. \A c \in NewBucket : f.vvNew[c] = {Rank(U, id) : id \in am.vvNew[c]}
  BY SaveFacts
<1>2. U \subseteq Nat /\ IsFiniteSet(U) /\ N \in Nat /\ K \in Nat /\ N = Cardinality(U)
  BY KindFacts
<1>3. /\ \A i \in U : Rank(U, i) \in 0..(N - 1)
      /\ \A i, j \in U : Rank(U, i) = Rank(U, j) => i = j
  BY <1>2, RankFacts
<1>4. \A c \in NewBucket : am.vvNew[c] \subseteq U
  <2>1. ASSUME NEW c \in NewBucket, NEW id \in am.vvNew[c] PROVE id \in U
    <3>1. id \in Ids(am)
      BY DEF Ok, Buckets
    <3>2. c \in NewBucketsOf(am, id)
      BY DEF NewBucketsOf
    <3>3. ~am.mapInfo[id].fInTried
      BY <3>1, <3>2 DEF Ok, Buckets, TriedEntry
    <3> QED BY <3>1, <3>3 DEF New, Tried
  <2> QED BY <2>1
<1>5. \A id \in U : /\ Cardinality(NewBucketsOf(am, id)) <= max
                    /\ IsFiniteSet(NewBucketsOf(am, id))
                    /\ Cardinality(NewBucketsOf(am, id)) \in Nat
  <2> TAKE id \in U
  <2>1. id \in Ids(am) /\ ~am.mapInfo[id].fInTried
    BY DEF New, Tried
  <2>2. id # NoId
    BY <1>2 DEF NoId
  <2>3. NewEntry(am, id, NoId, NoId)
    BY <2>1 DEF Ok, Buckets
  <2>4. /\ am.mapInfo[id].nRefCount \in 0..max
        /\ Cardinality(NewBucketsOf(am, id)) = am.mapInfo[id].nRefCount - 0
    BY <2>2, <2>3 DEF NewEntry
  <2>5. NewBucketsOf(am, id) \subseteq NewBucket
    BY DEF NewBucketsOf
  <2>6. IsFiniteSet(NewBucketsOf(am, id)) /\ Cardinality(NewBucketsOf(am, id)) \in Nat
    BY <2>5, FiniteBuckets
  <2> QED BY <2>4, <2>6
<1>6. LoadNew(f)[b] = {n \in f.vvNew[b] : Cardinality({c \in 0..(b - 1) : n \in f.vvNew[c]}) < max}
  BY DEF LoadNew
<1>7. max \in Nat
  BY AddrManAssumption
<1>8. b \in Nat /\ 0..(b - 1) \subseteq NewBucket
  BY AddrManAssumption DEF NewBucket
<1> HIDE DEF f, U, N, K, max
<1>9. \A c \in NewBucket, id \in U : Rank(U, id) \in f.vvNew[c] <=> id \in am.vvNew[c]
  BY <1>1, <1>3, <1>4
<1>10. ASSUME NEW n \in f.vvNew[b]
       PROVE  Cardinality({c \in 0..(b - 1) : n \in f.vvNew[c]}) < max
  <2>1. PICK id \in am.vvNew[b] : n = Rank(U, id)
    BY <1>1
  <2> DEFINE D == {c \in 0..(b - 1) : n \in f.vvNew[c]}
             E == NewBucketsOf(am, id)
  <2>2. id \in U
    BY <1>4
  <2>3. b \in E
    BY DEF NewBucketsOf
  <2>4. D \in SUBSET E
    BY <1>8, <1>9, <2>1, <2>2 DEF NewBucketsOf
  <2>5. b \notin D
    BY <1>8
  <2>6. IsFiniteSet(E) /\ Cardinality(E) \in Nat /\ Cardinality(E) <= max
    BY <1>5, <2>2
  <2> HIDE DEF D, E
  <2>7. IsFiniteSet(D) /\ Cardinality(D) <= Cardinality(E) /\ Cardinality(D) # Cardinality(E)
    BY <2>3, <2>4, <2>5, <2>6, FS_Subset
  <2>8. Cardinality(D) \in Nat
    BY <2>7, FS_CardinalityType
  <2>9. Cardinality(D) < max
    BY <1>7, <2>6, <2>7, <2>8
  <2> QED BY <2>9 DEF D
<1>11. LoadNew(f)[b] = f.vvNew[b]
  BY <1>6, <1>10
<1>12. f.vvNew[b] \subseteq 0..(N - 1)
  BY <1>1, <1>3, <1>4
<1>13. ASSUME NEW n \in 0..(N + K - 1)
       PROVE  n \in f.vvNew[b] <=> Orig(am, n) \in am.vvNew[b]
  <2>1. CASE n \in 0..(N - 1)
    <3>1. Orig(am, n) \in U /\ Rank(U, Orig(am, n)) = n
      BY <2>1, RenumberFacts DEF N, U
    <3> QED BY <1>9, <3>1
  <2>2. CASE n \notin 0..(N - 1)
    <3>1. n \in N..(N + K - 1)
      BY <1>2, <2>2
    <3>2. Orig(am, n) \in Tried(am)
      BY <3>1, RenumberFacts DEF N, K
    <3>3. Orig(am, n) \notin am.vvNew[b]
      BY <1>4, <3>2 DEF New, U
    <3> QED BY <1>12, <2>2, <3>3
  <2> QED BY <2>1, <2>2
<1> QED BY <1>11, <1>12, <1>13 DEF f, N, K

\* A manager that was written and read back.
Reloaded(am, l) ==
    /\ DOMAIN l = Fields
    /\ l.nIdCount = am.nNew + am.nTried /\ l.nNew = am.nNew /\ l.nTried = am.nTried
    /\ Ids(l) = 0..(am.nNew + am.nTried - 1)
    /\ \A n \in Ids(l) : /\ l.mapInfo[n] \in CAddrInfo
                         /\ l.mapInfo[n].addr = am.mapInfo[Orig(am, n)].addr
                         /\ l.mapInfo[n].source = am.mapInfo[Orig(am, n)].source
                         /\ l.mapInfo[n].nRefCount = Cardinality(NewBucketsOf(l, n))
                         /\ l.mapInfo[n].fInTried = (n >= am.nNew)
                         /\ l.mapInfo[n].nRandomPos = n + 1
    /\ AddrIndex(l)
    /\ l.vRandom = [n \in 1..(am.nNew + am.nTried) |-> n - 1]
    /\ l.vvNew \in [NewBucket -> SUBSET Ids(l)]
    /\ l.vvTried \in [TriedBucket -> SUBSET Ids(l)]
    /\ \A b \in NewBucket, n \in Ids(l) : n \in l.vvNew[b] <=> Orig(am, n) \in am.vvNew[b]
    /\ \A k \in TriedBucket, n \in Ids(l) : n \in l.vvTried[k] <=> Orig(am, n) \in am.vvTried[k]


\* What is read back is a renumbering of what was written.
LEMMA LoadReloaded ==
    ASSUME NEW am, Ok(am, NoId, NoId)
    PROVE  Reloaded(am, Load(Save(am)))
<1> DEFINE f == Save(am)
           l == Load(f)
           N == am.nNew
           K == am.nTried
           ids == 0..(N + K - 1)
           ent == LoadEntry(f)
           new == LoadNew(f)
           refs(n) == Cardinality({b \in NewBucket : n \in new[b]})
           info(n) == [addr |-> ent[n].addr, source |-> ent[n].source,
                       nRefCount |-> refs(n),
                       fInTried |-> n >= N, nRandomPos |-> n + 1]
           ipOf(n) == IpOf[ent[n].addr]
           byAddr == [ip \in {ipOf(n) : n \in ids} |->
                        CHOOSE n \in ids : ipOf(n) = ip /\ \A j \in ids : ipOf(j) = ip => j <= n]
<1>1. N \in Nat /\ K \in Nat /\ f.nNew = N
  BY KindFacts, SaveFacts
<1>2. LoadKept(f) = 0..(K - 1)
  BY KeptAll
<1>3. Cardinality(0..(K - 1)) = K /\ Cardinality(ids) = N + K
  <2>1. Cardinality(0..(0 + K - 1)) = K /\ Cardinality(0..(0 + (N + K) - 1)) = N + K
    BY <1>1, CardBelow, 0 \in Nat, N + K \in Nat
  <2>2. 0 + K - 1 = K - 1 /\ 0 + (N + K) - 1 = N + K - 1
    BY <1>1
  <2> QED BY <2>1, <2>2
<1>4. LoadIds(f) = ids
  BY <1>1, <1>2, <1>3 DEF LoadIds
<1>5. \A n \in ids : ent[n] = Entry(am.mapInfo[Orig(am, n)])
  <2> TAKE n \in ids
  <2> HIDE DEF f, N, K
  <2>1. CASE n < N
    <3>1. ent[n] = f.new[n]
      BY <1>1, <1>4, <2>1 DEF LoadEntry
    <3>2. n \in 0..(N - 1)
      BY <1>1, <2>1
    <3> QED BY <3>1, <3>2, SaveFacts DEF f, N
  <2>2. CASE ~(n < N)
    <3>1. ent[n] = f.tried[Nth(LoadKept(f), n - N)]
      BY <1>1, <1>4, <2>2 DEF LoadEntry
    <3>2. n - N \in 0..(K - 1) /\ N + (n - N) = n
      BY <1>1, <2>2
    <3>3. Nth(LoadKept(f), n - N) = n - N
      BY <1>1, <1>2, <3>2, NthOfInterval
    <3>4. f.tried[n - N] = Entry(am.mapInfo[Orig(am, N + (n - N))])
      BY <3>2, SaveFacts DEF f, N, K
    <3> QED BY <3>1, <3>2, <3>3, <3>4
  <2> QED BY <2>1, <2>2
<1>6. \A n \in ids : Orig(am, n) \in Ids(am)
  <2> TAKE n \in ids
  <2> HIDE DEF N, K
  <2>1. n \in 0..(N - 1) \/ n \in N..(N + K - 1)
    BY <1>1
  <2> QED BY <2>1, RenumberFacts, KindFacts DEF N, K
<1>7. \A n \in ids : /\ ent[n].addr = am.mapInfo[Orig(am, n)].addr
                     /\ ent[n].source = am.mapInfo[Orig(am, n)].source
                     /\ ent[n].addr \in Service /\ ent[n].source \in Source
  <2> TAKE n \in ids
  <2>1. am.mapInfo[Orig(am, n)] \in CAddrInfo
    BY <1>6 DEF Ok, Entries
  <2>2. ent[n] = Entry(am.mapInfo[Orig(am, n)])
    BY <1>5
  <2> HIDE DEF ent, ids
  <2> QED BY <2>1, <2>2 DEF Entry, CAddrInfo
<1>8. /\ DOMAIN l = Fields /\ l.nIdCount = N + K /\ l.nNew = N /\ l.nTried = K
      /\ l.mapInfo = [n \in ids |-> info(n)]
      /\ l.mapAddr = byAddr
      /\ l.vRandom = [n \in 1..(N + K) |-> n - 1]
      /\ l.vvTried = [k \in TriedBucket |-> {n \in ids : n >= N /\ GetTriedBucket[ent[n].addr] = k}]
      /\ l.vvNew = new
  <2>1. l = LoadManager(f.nNew, Cardinality(LoadKept(f)), LoadIds(f),
                        Cardinality(LoadIds(f)), ent, new)
    BY LoadParts
  <2> HIDE DEF f, l, N, K, ids, ent, new
  <2>2. l = LoadManager(N, K, ids, N + K, ent, new)
    BY <1>1, <1>2, <1>3, <1>4, <2>1
  <2> QED BY <2>2 DEF LoadManager, Fields
<1>9. \A b \in NewBucket : /\ new[b] \subseteq ids
                           /\ \A n \in ids : n \in new[b] <=> Orig(am, n) \in am.vvNew[b]
  <2> TAKE b \in NewBucket
  <2>1. new[b] \subseteq 0..(N - 1) /\ \A n \in ids : n \in new[b] <=> Orig(am, n) \in am.vvNew[b]
    BY LoadNewFacts
  <2> HIDE DEF N, K, new
  <2>2. 0..(N - 1) \subseteq ids
    BY <1>1
  <2> QED BY <2>1, <2>2
<1>10. DOMAIN new = NewBucket
  BY DEF LoadNew
<1> HIDE DEF f, l, ent, new
<1>11. Ids(l) = ids
  BY <1>8 DEF Ids
<1>12. \A n \in ids : l.mapInfo[n] = info(n)
  BY <1>8
<1>13. \A n \in ids : refs(n) \in Nat /\ refs(n) = Cardinality(NewBucketsOf(l, n))
  <2> TAKE n \in ids
  <2>1. {b \in NewBucket : n \in new[b]} \subseteq NewBucket
    OBVIOUS
  <2> QED BY <1>8, <2>1, FiniteBuckets DEF NewBucketsOf
<1>14. \A n \in ids : /\ info(n) \in CAddrInfo
                      /\ info(n).addr = ent[n].addr /\ info(n).source = ent[n].source
                      /\ info(n).nRefCount = refs(n)
                      /\ info(n).fInTried = (n >= N) /\ info(n).nRandomPos = n + 1
  <2> TAKE n \in ids
  <2>1. n + 1 \in Int
    BY <1>1
  <2>2. refs(n) \in Int
    BY <1>13
  <2>3. ent[n].addr \in Service /\ ent[n].source \in Source
    BY <1>7
  <2> HIDE DEF refs, ids, N
  <2>4. (n >= N) \in BOOLEAN
    OBVIOUS
  <2> QED BY <2>1, <2>2, <2>3, <2>4 DEF CAddrInfo
<1> HIDE DEF refs, info
<1>15. AddrIndex(l)
  <2>1. \A i, j \in ids : ipOf(i) = ipOf(j) => i = j
    <3> TAKE i, j \in ids
    <3>1. HAVE ipOf(i) = ipOf(j)
    <3>2. IpOf[am.mapInfo[Orig(am, i)].addr] = IpOf[am.mapInfo[Orig(am, j)].addr]
      BY <1>7, <3>1
    <3>3. Orig(am, i) = Orig(am, j)
      BY <1>6, <3>2 DEF Ok, AddrIndex
    <3> QED BY <3>3, RenumberFacts
  <2>2. \A i \in ids : i <= i /\ i \in Int
    BY <1>1
  <2>3. \A i \in ids : l.mapInfo[i].addr = ent[i].addr
    BY <1>12, <1>14
  <2>4. \A n \in ids : ipOf(n) \in NetAddr
    BY <1>7, AddrManAssumption
  <2> HIDE DEF ids, ipOf
  <2>5. /\ DOMAIN byAddr = {ipOf(n) : n \in ids}
        /\ \A ip \in DOMAIN byAddr : byAddr[ip] \in ids /\ ipOf(byAddr[ip]) = ip
    <3>1. DOMAIN byAddr = {ipOf(n) : n \in ids}
      OBVIOUS
    <3>2. ASSUME NEW ip \in DOMAIN byAddr PROVE byAddr[ip] \in ids /\ ipOf(byAddr[ip]) = ip
      <4>1. PICK n \in ids : ipOf(n) = ip
        BY <3>1, <3>2
      <4>2. \A j \in ids : ipOf(j) = ip => j <= n
        BY <2>1, <2>2, <4>1
      <4>3. \E i \in ids : ipOf(i) = ip /\ \A j \in ids : ipOf(j) = ip => j <= i
        BY <4>1, <4>2
      <4>4. byAddr[ip] = CHOOSE i \in ids : ipOf(i) = ip /\ \A j \in ids : ipOf(j) = ip => j <= i
        BY <3>1, <3>2
      <4> QED BY <4>3, <4>4
    <3> QED BY <3>1, <3>2
  <2> HIDE DEF byAddr
  <2>6. \A n \in ids : ipOf(n) \in DOMAIN byAddr /\ byAddr[ipOf(n)] = n
    BY <2>1, <2>5
  <2>7. \A n \in ids : IpOf[l.mapInfo[n].addr] = ipOf(n)
    BY <2>3 DEF ipOf
  <2>8. DOMAIN byAddr \subseteq NetAddr
    BY <2>4, <2>5
  <2> QED BY <1>8, <1>11, <2>5, <2>6, <2>7, <2>8 DEF AddrIndex
<1>16. \A k \in TriedBucket, n \in ids : n \in l.vvTried[k] <=> Orig(am, n) \in am.vvTried[k]
  <2> TAKE k \in TriedBucket, n \in ids
  <2> DEFINE o == Orig(am, n)
  <2>1. n \in l.vvTried[k] <=> (n >= N /\ Home(am, o) = k)
    BY <1>7, <1>8 DEF Home
  <2>2. n >= N <=> o \in Tried(am)
    <3> HIDE DEF N, K
    <3>1. CASE n < N
      <4>1. n \in 0..(N - 1) /\ ~(n >= N)
        BY <1>1, <3>1
      <4> QED BY <4>1, RenumberFacts DEF New, N
    <3>2. CASE ~(n < N)
      <4>1. n \in N..(N + K - 1) /\ n >= N
        BY <1>1, <3>2
      <4> QED BY <4>1, RenumberFacts DEF N, K
    <3> QED BY <3>1, <3>2
  <2>3. o \in Ids(am)
    BY <1>6
  <2> HIDE DEF o, N
  <2>4. o \in am.vvTried[k] <=> k \in TriedBucketsOf(am, o)
    BY DEF TriedBucketsOf
  <2>5. o \in Tried(am) => TriedBucketsOf(am, o) = {Home(am, o)}
    BY <2>3 DEF Ok, Buckets, TriedEntry, Home, Tried
  <2>6. o \notin Tried(am) => TriedBucketsOf(am, o) = {}
    BY <2>3 DEF Ok, Buckets, NewEntry, Tried
  <2> QED BY <2>1, <2>2, <2>4, <2>5, <2>6 DEF o
<1>17. l.vvNew \in [NewBucket -> SUBSET ids]
  <2>1. new = [b \in NewBucket |-> new[b]]
    BY <1>10 DEF new, LoadNew
  <2> QED BY <1>8, <1>9, <2>1
<1>18. l.vvTried \in [TriedBucket -> SUBSET ids]
  BY <1>8
<1>19. \A n \in ids : /\ l.mapInfo[n] \in CAddrInfo
                      /\ l.mapInfo[n].addr = am.mapInfo[Orig(am, n)].addr
                      /\ l.mapInfo[n].source = am.mapInfo[Orig(am, n)].source
                      /\ l.mapInfo[n].nRefCount = Cardinality(NewBucketsOf(l, n))
                      /\ l.mapInfo[n].fInTried = (n >= N)
                      /\ l.mapInfo[n].nRandomPos = n + 1
  BY <1>7, <1>12, <1>13, <1>14
<1>20. \A b \in NewBucket, n \in ids : n \in l.vvNew[b] <=> Orig(am, n) \in am.vvNew[b]
  BY <1>8, <1>9
<1> HIDE DEF byAddr
<1>21. Reloaded(am, l)
  BY <1>8, <1>11, <1>15, <1>16, <1>17, <1>18, <1>19, <1>20 DEF Reloaded
<1> QED BY <1>21 DEF l, f


\* The entries keep their places under their new numbers.
LEMMA ReloadedPlaces ==
    ASSUME NEW am, Ok(am, NoId, NoId), NEW l, Reloaded(am, l), NEW n \in Ids(l)
    PROVE  /\ Orig(am, n) \in Ids(am)
           /\ Entry(l.mapInfo[n]) = Entry(am.mapInfo[Orig(am, n)])
           /\ NewBucketsOf(l, n) = NewBucketsOf(am, Orig(am, n))
           /\ TriedBucketsOf(l, n) = TriedBucketsOf(am, Orig(am, n))
           /\ l.mapInfo[n].fInTried <=> am.mapInfo[Orig(am, n)].fInTried
           /\ l.mapInfo[n].fInTried <=> n \in am.nNew..(am.nNew + am.nTried - 1)
           /\ ~l.mapInfo[n].fInTried <=> n \in 0..(am.nNew - 1)
<1> DEFINE N == am.nNew
           K == am.nTried
           o == Orig(am, n)
<1>1. N \in Nat /\ K \in Nat
  BY KindFacts
<1>2. n \in 0..(N + K - 1) /\ (l.mapInfo[n].fInTried <=> n >= N)
  BY DEF Reloaded
<1> HIDE DEF N, K
<1>3. \/ n \in 0..(N - 1) /\ ~(n >= N) /\ n \notin N..(N + K - 1)
      \/ n \in N..(N + K - 1) /\ n >= N /\ n \notin 0..(N - 1)
  BY <1>1, <1>2
<1>4. /\ n \in 0..(N - 1) => o \in New(am)
      /\ n \in N..(N + K - 1) => o \in Tried(am)
  BY RenumberFacts DEF N, K
<1>5. o \in Ids(am) /\ (l.mapInfo[n].fInTried <=> am.mapInfo[o].fInTried)
  BY <1>2, <1>3, <1>4 DEF New, Tried
<1>6. Entry(l.mapInfo[n]) = Entry(am.mapInfo[o])
  BY DEF Reloaded, Entry
<1>7. NewBucketsOf(l, n) = NewBucketsOf(am, o) /\ TriedBucketsOf(l, n) = TriedBucketsOf(am, o)
  BY DEF Reloaded, NewBucketsOf, TriedBucketsOf
<1> QED BY <1>2, <1>3, <1>5, <1>6, <1>7 DEF N, K

\* A manager that was read back is consistent.
LEMMA ReloadedOk ==
    ASSUME NEW am, Ok(am, NoId, NoId), NEW l, Reloaded(am, l)
    PROVE  Ok(l, NoId, NoId) /\ l.nIdCount <= am.nIdCount
<1> DEFINE N == am.nNew
           K == am.nTried
           ids == 0..(N + K - 1)
           g == [n \in ids |-> Orig(am, n)]
<1>1. N \in Nat /\ K \in Nat
  BY KindFacts
<1>2. /\ Ids(l) = ids /\ l.nNew = N /\ l.nTried = K /\ l.nIdCount = N + K
      /\ l.vRandom = [n \in 1..(N + K) |-> n - 1]
      /\ \A n \in ids : l.mapInfo[n].nRandomPos = n + 1
  BY DEF Reloaded
<1>3. \A i, j \in ids : Orig(am, i) = Orig(am, j) => i = j
  BY RenumberFacts
<1>4. \A n \in ids : /\ Orig(am, n) \in Ids(am)
                     /\ l.mapInfo[n].fInTried <=> n \in N..(N + K - 1)
                     /\ ~l.mapInfo[n].fInTried <=> n \in 0..(N - 1)
  BY <1>2, ReloadedPlaces
<1> HIDE DEF N, K
<1>5. Entries(l)
  BY <1>1, <1>2 DEF Entries, Reloaded
<1>6. RandomIndex(l)
  <2> HIDE DEF ids
  <2>1. Len(l.vRandom) = N + K /\ l.vRandom \in Seq(ids)
    <3>1. \A n \in 1..(N + K) : n - 1 \in ids
      BY <1>1 DEF ids
    <3> QED BY <1>1, <1>2, <3>1
  <2>2. \A p \in 1..(N + K) : p - 1 \in ids /\ l.vRandom[p] = p - 1 /\ (p - 1) + 1 = p
    BY <1>1, <1>2 DEF ids
  <2>3. \A n \in ids : n + 1 \in 1..(N + K) /\ l.vRandom[n + 1] = n
    BY <1>1, <1>2 DEF ids
  <2>4. ASSUME NEW p \in 1..(N + K) PROVE l.mapInfo[l.vRandom[p]].nRandomPos = p
    <3>1. p - 1 \in ids /\ l.vRandom[p] = p - 1
      BY <2>2
    <3>2. l.mapInfo[p - 1].nRandomPos = (p - 1) + 1
      BY <1>2, <3>1
    <3> QED BY <2>2, <3>1, <3>2
  <2>5. ASSUME NEW n \in ids
        PROVE  /\ l.mapInfo[n].nRandomPos \in 1..(N + K)
               /\ l.vRandom[l.mapInfo[n].nRandomPos] = n
    <3>1. l.mapInfo[n].nRandomPos = n + 1
      BY <1>2
    <3> QED BY <2>3, <3>1
  <2>6. l.vRandom \in Seq(Ids(l)) /\ Ids(l) = ids
    BY <1>2, <2>1
  <2> HIDE DEF N, K
  <2> QED BY <2>1, <2>4, <2>5, <2>6 DEF RandomIndex
<1>7. CountsAgree(l)
  <2>1. Tried(l) = N..(N + K - 1)
    <3>1. \A n : n \in N..(N + K - 1) => n \in ids
      BY <1>1
    <3> HIDE DEF ids
    <3> QED BY <1>2, <1>4, <3>1 DEF Tried
  <2>2. New(l) = 0..(N - 1)
    <3>1. \A n : n \in 0..(N - 1) => n \in ids
      BY <1>1
    <3> HIDE DEF ids
    <3> QED BY <1>2, <1>4, <3>1 DEF New, Tried
  <2>3. Cardinality(N..(N + K - 1)) = K
    BY <1>1, CardBelow
  <2>4. Cardinality(0..(N - 1)) = N
    <3>1. Cardinality(0..(0 + N - 1)) = N
      BY <1>1, CardBelow
    <3>2. 0 + N - 1 = N - 1
      BY <1>1
    <3> QED BY <3>1, <3>2
  <2>5. Len(l.vRandom) = K + N
    BY <1>1, <1>2
  <2> QED BY <1>2, <2>1, <2>2, <2>3, <2>4, <2>5 DEF CountsAgree
<1> HIDE DEF ids
<1>8. Buckets(l, NoId, NoId)
  <2>1. ASSUME NEW n \in ids, l.mapInfo[n].fInTried PROVE TriedEntry(l, n)
    <3>1. am.mapInfo[Orig(am, n)].fInTried
      BY <1>2, <2>1, ReloadedPlaces
    <3>2. TriedEntry(am, Orig(am, n))
      BY <1>4, <3>1 DEF Ok, Buckets
    <3>3. /\ NewBucketsOf(l, n) = {}
          /\ TriedBucketsOf(l, n) = {GetTriedBucket[am.mapInfo[Orig(am, n)].addr]}
      BY <1>2, <3>2, ReloadedPlaces DEF TriedEntry
    <3>4. l.mapInfo[n].nRefCount = Cardinality({}) /\ l.mapInfo[n].addr = am.mapInfo[Orig(am, n)].addr
      BY <1>2, <3>3 DEF Reloaded
    <3> QED BY <3>3, <3>4, FS_EmptySet DEF TriedEntry
  <2>2. ASSUME NEW n \in ids, ~l.mapInfo[n].fInTried PROVE NewEntry(l, n, NoId, NoId)
    <3> DEFINE o == Orig(am, n)
    <3>1. ~am.mapInfo[o].fInTried
      BY <1>2, <2>2, ReloadedPlaces
    <3>2. NewEntry(am, o, NoId, NoId)
      BY <1>4, <3>1 DEF Ok, Buckets
    <3>3. o # NoId
      <4>1. o \in Nat
        BY <1>4 DEF Ok, Entries
      <4> QED BY <4>1 DEF NoId
    <3>4. /\ am.mapInfo[o].nRefCount \in 0..ADDRMAN_NEW_BUCKETS_PER_ADDRESS
          /\ am.mapInfo[o].nRefCount # 0
          /\ Cardinality(NewBucketsOf(am, o)) = am.mapInfo[o].nRefCount - 0
          /\ TriedBucketsOf(am, o) = {}
      BY <3>2, <3>3 DEF NewEntry
    <3> HIDE DEF o
    <3>5. NewBucketsOf(l, n) = NewBucketsOf(am, o) /\ TriedBucketsOf(l, n) = TriedBucketsOf(am, o)
      BY <1>2, ReloadedPlaces DEF o
    <3>6. l.mapInfo[n].nRefCount = Cardinality(NewBucketsOf(am, o))
      BY <1>2, <3>5 DEF Reloaded
    <3>7. l.mapInfo[n].nRefCount = am.mapInfo[o].nRefCount
      BY <3>4, <3>6
    <3>8. n # NoId
      BY <1>1 DEF NoId, ids
    <3>9. Cardinality(NewBucketsOf(l, n)) = l.mapInfo[n].nRefCount - 0
      BY <3>4, <3>5, <3>7
    <3> QED BY <3>4, <3>5, <3>7, <3>8, <3>9 DEF NewEntry
  <2> QED BY <1>2, <2>1, <2>2 DEF Buckets, Reloaded
<1>9. Limits(l)
  <2>1. ASSUME NEW S \in SUBSET ids, NEW V \in SUBSET Ids(am), \A n \in S : Orig(am, n) \in V
        PROVE  Cardinality(S) \in Nat /\ Cardinality(V) \in Nat /\ Cardinality(S) <= Cardinality(V)
    <3> DEFINE h == [n \in S |-> Orig(am, n)]
    <3>1. h \in [S -> V] /\ \A i, j \in S : h[i] = h[j] => i = j
      BY <1>3, <2>1
    <3>2. IsFiniteSet(V) /\ Cardinality(V) \in Nat
      BY FiniteIds DEF Ok
    <3> HIDE DEF h
    <3> QED BY <3>1, <3>2, CardInjection
  <2>2. ASSUME NEW b \in NewBucket PROVE Cardinality(l.vvNew[b]) <= ADDRMAN_NEW_BUCKET_SIZE
    <3>1. l.vvNew[b] \in SUBSET ids /\ \A n \in l.vvNew[b] : Orig(am, n) \in am.vvNew[b]
      BY <1>2 DEF Reloaded
    <3>2. am.vvNew[b] \in SUBSET Ids(am) /\ Cardinality(am.vvNew[b]) <= ADDRMAN_NEW_BUCKET_SIZE
      BY DEF Ok, Buckets, Limits
    <3>3. /\ Cardinality(l.vvNew[b]) \in Nat /\ Cardinality(am.vvNew[b]) \in Nat
          /\ Cardinality(l.vvNew[b]) <= Cardinality(am.vvNew[b])
      BY <2>1, <3>1, <3>2
    <3> QED BY <3>2, <3>3, AddrManAssumption
  <2>3. ASSUME NEW k \in TriedBucket PROVE Cardinality(l.vvTried[k]) <= ADDRMAN_TRIED_BUCKET_SIZE
    <3>1. l.vvTried[k] \in SUBSET ids /\ \A n \in l.vvTried[k] : Orig(am, n) \in am.vvTried[k]
      BY <1>2 DEF Reloaded
    <3>2. am.vvTried[k] \in SUBSET Ids(am) /\ Cardinality(am.vvTried[k]) <= ADDRMAN_TRIED_BUCKET_SIZE
      BY DEF Ok, Buckets, Limits
    <3>3. /\ Cardinality(l.vvTried[k]) \in Nat /\ Cardinality(am.vvTried[k]) \in Nat
          /\ Cardinality(l.vvTried[k]) <= Cardinality(am.vvTried[k])
      BY <2>1, <3>1, <3>2
    <3> QED BY <3>2, <3>3, AddrManAssumption
  <2> QED BY <2>2, <2>3 DEF Limits
<1>10. N + K <= am.nIdCount
  <2> DEFINE C == am.nIdCount
  <2>1. C \in Nat /\ Ids(am) \subseteq 0..(C - 1)
    BY DEF Ok, Entries
  <2> HIDE DEF C
  <2>2. IsFiniteSet(0..(0 + C - 1)) /\ Cardinality(0..(0 + C - 1)) = C
    BY <2>1, CardBelow
  <2>3. 0 + C - 1 = C - 1 /\ 0 + (N + K) - 1 = N + K - 1 /\ N + K \in Nat
    BY <1>1, <2>1
  <2>4. Cardinality(ids) = N + K
    <3>1. Cardinality(0..(0 + (N + K) - 1)) = N + K
      BY <2>3, CardBelow
    <3> QED BY <2>3, <3>1 DEF ids
  <2>5. g \in [ids -> 0..(C - 1)] /\ \A i, j \in ids : g[i] = g[j] => i = j
    BY <1>3, <1>4, <2>1
  <2> HIDE DEF g
  <2>6. Cardinality(ids) <= Cardinality(0..(C - 1))
    BY <2>2, <2>3, <2>5, CardInjection
  <2> QED BY <2>2, <2>3, <2>4, <2>6 DEF C
<1>11. AddrIndex(l)
  BY DEF Reloaded
<1> QED BY <1>2, <1>5, <1>6, <1>7, <1>8, <1>9, <1>10, <1>11 DEF Ok

\* A manager that was read back has the same addresses in the same buckets.
LEMMA ReloadedTable ==
    ASSUME NEW am, Ok(am, NoId, NoId), NEW l, Reloaded(am, l)
    PROVE  Table(l) = Table(am) /\ DOMAIN l.mapAddr = DOMAIN am.mapAddr
<1> DEFINE row(m, id) == <<Entry(m.mapInfo[id]), NewBucketsOf(m, id), TriedBucketsOf(m, id)>>
           ip(m, id) == IpOf[m.mapInfo[id].addr]
<1>1. \A n \in Ids(l) : Orig(am, n) \in Ids(am) /\ row(l, n) = row(am, Orig(am, n))
  BY ReloadedPlaces
<1>2. \A id \in Ids(am) : Renumber(am, id) \in Ids(l) /\ Orig(am, Renumber(am, id)) = id
  BY RenumberFacts DEF Reloaded
<1>3. Table(l) = {row(l, n) : n \in Ids(l)} /\ Table(am) = {row(am, id) : id \in Ids(am)}
  BY DEF Table
<1>4. \A n \in Ids(l) : ip(l, n) = ip(am, Orig(am, n))
  BY DEF Reloaded
<1>5. DOMAIN l.mapAddr = {ip(l, n) : n \in Ids(l)}
  BY DEF Reloaded, AddrIndex
<1>6. DOMAIN am.mapAddr = {ip(am, id) : id \in Ids(am)}
  BY DEF Ok, AddrIndex
<1> HIDE DEF row, ip
<1>7. Table(l) = Table(am)
  BY <1>1, <1>2, <1>3
<1>8. DOMAIN l.mapAddr = DOMAIN am.mapAddr
  BY <1>1, <1>2, <1>4, <1>5, <1>6
<1> QED BY <1>7, <1>8


-----------------------------------------------------------------------------
(***************************************************************************)
(* The properties of the address manager.                                  *)
(***************************************************************************)
\* A manager without entries is in order.
LEMMA EmptyOk == Ok(Empty, NoId, NoId)
<1>1. /\ DOMAIN Empty = Fields /\ Empty.nIdCount = 0
      /\ Empty.mapInfo = <<>> /\ Empty.mapAddr = <<>> /\ Empty.vRandom = <<>>
      /\ Empty.nTried = 0 /\ Empty.nNew = 0
      /\ Empty.vvTried = [k \in TriedBucket |-> {}] /\ Empty.vvNew = [b \in NewBucket |-> {}]
  BY DEF Empty, Fields
<1>2. Ids(Empty) = {} /\ DOMAIN Empty.mapAddr = {} /\ Len(Empty.vRandom) = 0
  BY <1>1 DEF Ids
<1>3. Entries(Empty)
  BY <1>1, <1>2 DEF Entries
<1>4. AddrIndex(Empty)
  BY <1>2 DEF AddrIndex
<1>5. RandomIndex(Empty)
  <2>1. Empty.vRandom \in Seq(Ids(Empty)) /\ 1..Len(Empty.vRandom) = {}
    BY <1>1, <1>2
  <2> QED BY <1>2, <2>1 DEF RandomIndex
<1>6. CountsAgree(Empty)
  <2>1. Tried(Empty) = {} /\ New(Empty) = {}
    BY <1>2 DEF Tried, New
  <2> QED BY <1>1, <1>2, <2>1, FS_EmptySet DEF CountsAgree
<1>7. Buckets(Empty, NoId, NoId)
  <2>1. /\ Empty.vvTried \in [TriedBucket -> SUBSET Ids(Empty)]
        /\ Empty.vvNew \in [NewBucket -> SUBSET Ids(Empty)]
    BY <1>1, <1>2
  <2> QED BY <1>2, <2>1 DEF Buckets
<1>8. Limits(Empty)
  <2>1. Cardinality({}) = 0
    BY FS_EmptySet
  <2>2. \A b \in NewBucket : Cardinality(Empty.vvNew[b]) = 0
    BY <1>1, <2>1
  <2>3. \A k \in TriedBucket : Cardinality(Empty.vvTried[k]) = 0
    BY <1>1, <2>1
  <2> QED BY <2>2, <2>3, AddrManAssumption DEF Limits
<1> QED BY <1>3, <1>4, <1>5, <1>6, <1>7, <1>8 DEF Ok

\* What Check_ looks at is part of Ok.
LEMMA OkAgrees ==
    ASSUME NEW am, Ok(am, NoId, NoId)
    PROVE  CountsAgree(am) /\ BucketsAgree(am) /\ IndexesAgree(am)
<1>1. /\ Entries(am) /\ AddrIndex(am) /\ RandomIndex(am)
      /\ CountsAgree(am) /\ Buckets(am, NoId, NoId)
  BY DEF Ok
<1>2. ASSUME NEW id \in Tried(am)
      PROVE  /\ am.mapInfo[id].nRefCount = 0 /\ NewBucketsOf(am, id) = {}
             /\ Cardinality(TriedBucketsOf(am, id)) = 1
  <2>1. TriedEntry(am, id)
    BY <1>1 DEF Buckets, Tried
  <2> QED BY <2>1, FS_Singleton DEF TriedEntry
<1>3. ASSUME NEW id \in New(am)
      PROVE  /\ am.mapInfo[id].nRefCount \in 1..ADDRMAN_NEW_BUCKETS_PER_ADDRESS
             /\ Cardinality(NewBucketsOf(am, id)) = am.mapInfo[id].nRefCount
             /\ TriedBucketsOf(am, id) = {}
  <2>1. NewEntry(am, id, NoId, NoId)
    BY <1>1 DEF Buckets, New, Tried
  <2>2. id # NoId
    BY <1>1 DEF Entries, New, NoId
  <2>3. /\ am.mapInfo[id].nRefCount \in 0..ADDRMAN_NEW_BUCKETS_PER_ADDRESS
        /\ am.mapInfo[id].nRefCount # 0
        /\ Cardinality(NewBucketsOf(am, id)) = am.mapInfo[id].nRefCount - 0
        /\ TriedBucketsOf(am, id) = {}
    BY <2>1, <2>2 DEF NewEntry
  <2> QED BY <2>3, AddrManAssumption
<1>4. BucketsAgree(am)
  BY <1>2, <1>3 DEF BucketsAgree
<1>5. IndexesAgree(am)
  <2>1. DOMAIN am.vRandom = 1..Len(am.vRandom)
    BY <1>1 DEF RandomIndex
  <2> QED BY <1>1, <2>1 DEF IndexesAgree, AddrIndex, RandomIndex
<1> QED BY <1>1, <1>4, <1>5

\* The addresses in the file are those of the manager that was written.
LEMMA WrittenAll ==
    ASSUME NEW am, Ok(am, NoId, NoId), Save(am) # NoFile
    PROVE  Written(Save(am)) = DOMAIN am.mapAddr
<1> DEFINE f == Save(am)
           ip(id) == IpOf[am.mapInfo[id].addr]
<1>1. /\ \A n \in 0..(am.nNew - 1) : f.new[n] = Entry(am.mapInfo[Orig(am, n)])
      /\ DOMAIN f.tried = 0..(am.nTried - 1)
      /\ \A n \in 0..(am.nTried - 1) : f.tried[n] = Entry(am.mapInfo[Orig(am, am.nNew + n)])
  BY SaveFacts
<1>2. DOMAIN f.new = 0..(am.nNew - 1)
  BY DEF Save
<1>3. f # NoFile
  OBVIOUS
<1> HIDE DEF f
<1>4. \A id : Entry(am.mapInfo[id]).addr = am.mapInfo[id].addr
  BY DEF Entry
<1>5. Written(f) = {ip(Orig(am, n)) : n \in 0..(am.nNew - 1)}
                      \cup {ip(Orig(am, am.nNew + n)) : n \in 0..(am.nTried - 1)}
  BY <1>1, <1>2, <1>3, <1>4 DEF Written
<1>6. am.nNew \in Nat /\ am.nTried \in Nat /\ Ids(am) = New(am) \cup Tried(am)
  BY KindFacts
<1>7. /\ \A n \in 0..(am.nNew - 1) : Orig(am, n) \in Ids(am)
      /\ \A n \in 0..(am.nTried - 1) : Orig(am, am.nNew + n) \in Ids(am)
  BY <1>6, RenumberFacts
<1>8. ASSUME NEW id \in Ids(am)
      PROVE  \/ \E n \in 0..(am.nNew - 1) : Orig(am, n) = id
             \/ \E n \in 0..(am.nTried - 1) : Orig(am, am.nNew + n) = id
  <2>1. PICK r \in 0..(am.nNew + am.nTried - 1) : Orig(am, r) = id
    BY RenumberFacts
  <2>2. CASE r < am.nNew
    BY <1>6, <2>1, <2>2
  <2>3. CASE ~(r < am.nNew)
    <3>1. r - am.nNew \in 0..(am.nTried - 1) /\ am.nNew + (r - am.nNew) = r
      BY <1>6, <2>3
    <3> QED BY <2>1, <3>1
  <2> QED BY <2>2, <2>3
<1>9. Written(f) = {ip(id) : id \in Ids(am)}
  BY <1>5, <1>7, <1>8
<1>10. DOMAIN am.mapAddr = {ip(id) : id \in Ids(am)}
  BY DEF Ok, AddrIndex
<1> QED BY <1>9, <1>10 DEF f

\* What a manager in order writes is a file that can be started with.
LEMMA SavedFileOk ==
    ASSUME NEW am, Ok(am, NoId, NoId), am.nIdCount <= MaxId
    PROVE  FileOk(Save(am))
<1> SUFFICES ASSUME Save(am) # NoFile
             PROVE  /\ DOMAIN Save(am) = {"nNew", "new", "tried", "vvNew"}
                    /\ Ok(Load(Save(am)), NoId, NoId) /\ Load(Save(am)).nIdCount <= MaxId
                    /\ DOMAIN Load(Save(am)).mapAddr = Written(Save(am))
  BY DEF FileOk
<1> DEFINE l == Load(Save(am))
<1>1. Reloaded(am, l)
  BY LoadReloaded
<1>2. DOMAIN Save(am) = {"nNew", "new", "tried", "vvNew"}
  BY DEF Save
<1> HIDE DEF l
<1>3. Ok(l, NoId, NoId) /\ l.nIdCount <= am.nIdCount /\ DOMAIN l.mapAddr = DOMAIN am.mapAddr
  BY <1>1, ReloadedOk, ReloadedTable
<1>4. l.nIdCount \in Nat /\ am.nIdCount \in Nat /\ MaxId \in Nat
  BY <1>3, AddrManAssumption DEF Ok, Entries
<1>5. l.nIdCount <= MaxId
  BY <1>3, <1>4
<1> QED BY <1>2, <1>3, <1>5, WrittenAll DEF l

\* Making a CAddrDB leaves a file that can be started with, or none.
LEMMA FileLeft ==
    ASSUME FileOk(peers), fOld \in BOOLEAN, NEW f, CAddrDB(f)
    PROVE  FileOk(f) /\ fOld' \in BOOLEAN
<1>1. f = peers \/ f = NoFile
  BY DEF CAddrDB
<1>2. fOld' \in BOOLEAN
  BY DEF CAddrDB
<1> QED BY <1>1, <1>2 DEF FileOk

\* Every operation keeps the manager in order, and the file.
LEMMA StepOk ==
    ASSUME IInv, [Next]_vars
    PROVE  IInv'
<1>1. /\ Ok(addrman, NoId, NoId) /\ addrman.nIdCount <= MaxId /\ addrman.nIdCount \in Nat
      /\ FileOk(peers) /\ fOld \in BOOLEAN
  BY DEF IInv, Ok, Entries
<1>2. MaxId \in Nat
  BY AddrManAssumption
<1>3. ASSUME NEW a \in Service, NEW source \in Source, Add(a, source) PROVE IInv'
  <2> DEFINE m == addrman'
  <2>1. /\ Found(addrman, a) \/ addrman.nIdCount < MaxId
        /\ m \in Add_(addrman, a, source) /\ UNCHANGED <<peers, fOld>>
    BY <1>3 DEF Add
  <2> HIDE DEF m
  <2>2. /\ Ok(m, NoId, NoId)
        /\ m.nIdCount <= addrman.nIdCount + IF Found(addrman, a) THEN 0 ELSE 1
    BY <1>1, <2>1, AddOk
  <2>3. m.nIdCount \in Nat
    BY <2>2 DEF Ok, Entries
  <2>4. m.nIdCount <= MaxId
    BY <1>1, <1>2, <2>1, <2>2, <2>3
  <2> QED BY <1>1, <2>1, <2>2, <2>4 DEF IInv, m
<1>4. ASSUME NEW a \in Service, Good(a) PROVE IInv'
  <2>1. /\ Ok(addrman', NoId, NoId) /\ SameIndexes(addrman, addrman')
        /\ UNCHANGED <<peers, fOld>>
    BY <1>1, <1>4, GoodOk DEF Good
  <2>2. addrman'.nIdCount = addrman.nIdCount
    BY <2>1 DEF SameIndexes
  <2> QED BY <1>1, <2>1, <2>2 DEF IInv
<1>5. CASE GetAddr
  <2>1. /\ Ok(addrman', NoId, NoId) /\ SameTable(addrman, addrman')
        /\ UNCHANGED <<peers, fOld>>
    BY <1>1, <1>5, GetAddrOk DEF GetAddr
  <2>2. addrman'.nIdCount = addrman.nIdCount
    BY <2>1 DEF SameTable
  <2> QED BY <1>1, <2>1, <2>2 DEF IInv
<1>6. CASE DumpAddresses
  <2>1. PICK file \in {peers, NoFile} :
          CAddrDB(file) /\ peers' \in {file, Save(addrman)}
    BY <1>6 DEF DumpAddresses
  <2>2. FileOk(file) /\ fOld' \in BOOLEAN
    BY <1>1, <2>1, FileLeft
  <2>3. FileOk(Save(addrman))
    BY <1>1, SavedFileOk
  <2>4. FileOk(peers')
    BY <2>1, <2>2, <2>3
  <2>5. addrman' = addrman
    BY <1>6 DEF DumpAddresses
  <2> QED BY <1>1, <2>2, <2>4, <2>5 DEF IInv
<1>7. Ok(Empty, NoId, NoId) /\ Empty.nIdCount <= MaxId
  <2>1. Empty.nIdCount = 0
    BY DEF Empty
  <2> QED BY <1>2, <2>1, EmptyOk
<1>8. CASE Restart
  <2>1. FileOk(peers') /\ fOld' \in BOOLEAN
    BY <1>1, <1>8, FileLeft DEF Restart
  <2>2. addrman' = IF peers' = NoFile THEN Empty ELSE Load(peers')
    BY <1>8 DEF Restart
  <2>3. Ok(addrman', NoId, NoId) /\ addrman'.nIdCount <= MaxId
    BY <1>7, <2>1, <2>2 DEF FileOk
  <2> QED BY <2>1, <2>3 DEF IInv
<1>9. CASE RestartRecreating
  <2>1. FileOk(peers') /\ fOld' \in BOOLEAN
    BY <1>1, <1>9, FileLeft DEF RestartRecreating
  <2>2. addrman' = Empty
    BY <1>9 DEF RestartRecreating
  <2> QED BY <1>7, <2>1, <2>2 DEF IInv
<1>10. CASE UNCHANGED vars
  <2>1. addrman' = addrman /\ peers' = peers /\ fOld' = fOld
    BY <1>10 DEF vars
  <2> QED BY <1>1, <2>1 DEF IInv
<1> QED BY <1>3, <1>4, <1>5, <1>6, <1>8, <1>9, <1>10 DEF Next

\* The address manager is in order after any sequence of operations and
\* restarts, with whichever peers.dat: mapInfo, mapAddr, vRandom, the counts
\* and the buckets of CAddrMan agree, and every entry is where a reload
\* puts it.
THEOREM Inductive == Spec => []IInv
<1>1. Init => IInv
  <2> HAVE Init
  <2>1. addrman = Empty /\ Empty.nIdCount = 0
    BY DEF Init, Empty
  <2>2. FileOk(peers) /\ fOld \in BOOLEAN
    BY DEF Init, FileOk
  <2> QED BY <2>1, <2>2, EmptyOk, AddrManAssumption DEF IInv
<1>2. IInv /\ [Next]_vars => IInv'
  BY StepOk
<1> QED BY <1>1, <1>2, PTL DEF Spec

\* CAddrMan::Check_ never finds a fault.
THEOREM CheckFindsNoFault == Spec => []Consistent
<1>1. IInv => Consistent
  <2> HAVE IInv
  <2>1. Ok(addrman, NoId, NoId) /\ addrman.nIdCount <= MaxId
    BY DEF IInv
  <2>2. DOMAIN addrman = DOMAIN Empty
    BY <2>1 DEF Ok, Entries, Fields, Empty
  <2>3. addrman.nIdCount \in 0..MaxId
    BY <2>1, AddrManAssumption DEF Ok, Entries
  <2>4. addrman.nTried \in Nat /\ addrman.nNew \in Nat
    BY <2>1, KindFacts
  <2>5. peers = NoFile \/ DOMAIN peers = {"nNew", "new", "tried", "vvNew"}
    BY DEF IInv, FileOk
  <2>6. fOld \in BOOLEAN
    BY DEF IInv
  <2>7. TypeOK
    BY <2>1, <2>2, <2>3, <2>4, <2>5, <2>6 DEF TypeOK, Ok, Entries, AddrIndex, RandomIndex, Buckets
  <2> QED BY <2>1, <2>7, OkAgrees DEF Consistent
<1> QED BY <1>1, Inductive, PTL

\* No bucket outgrows ADDRMAN_NEW_BUCKET_SIZE or ADDRMAN_TRIED_BUCKET_SIZE:
\* when MakeTried moves an entry out of a full tried bucket, one of the two
\* new buckets it considers has room.
THEOREM BucketsStayInBounds == Spec => []BucketLimits
<1>1. IInv => BucketLimits
  BY DEF IInv, Ok, Limits, BucketLimits
<1> QED BY <1>1, Inductive, PTL

\* CAddrMan's serialization is faithful: reading peers.dat back gives the
\* same addresses in the same buckets and a consistent manager.
THEOREM ReloadIsFaithful == Spec => []ReloadFaithful
<1>1. IInv => ReloadFaithful
  <2> HAVE IInv
  <2>1. Ok(addrman, NoId, NoId)
    BY DEF IInv
  <2> DEFINE l == Load(Save(addrman))
  <2>2. Reloaded(addrman, l)
    BY <2>1, LoadReloaded
  <2> HIDE DEF l
  <2>3. Ok(l, NoId, NoId) /\ Table(l) = Table(addrman)
    BY <2>1, <2>2, ReloadedOk, ReloadedTable
  <2>4. CountsAgree(l) /\ BucketsAgree(l) /\ IndexesAgree(l)
    BY <2>3, OkAgrees
  <2> QED BY <2>3, <2>4 DEF ReloadFaithful, l
<1> QED BY <1>1, Inductive, PTL

\* What a step of a running node may forget.
MayForget(am, m) ==
    \/ Lost(am, m) = {}
    \/ \E id \in New(am), b \in NewBucket :
          /\ Lost(am, m) = {id}
          /\ NewBucketsOf(am, id) = {b}
          /\ Cardinality(am.vvNew[b]) = ADDRMAN_NEW_BUCKET_SIZE

\* Add_ forgets one entry at most, from a full bucket.
LEMMA AddForgets ==
    ASSUME NEW am, Ok(am, NoId, NoId), NEW m, KeepsOrMakesRoom(am, m)
    PROVE  MayForget(am, m)
<1>1. AddrIndex(am) /\ Buckets(am, NoId, NoId)
  BY DEF Ok
<1>2. CASE DOMAIN am.mapAddr \subseteq DOMAIN m.mapAddr
  BY <1>1, <1>2 DEF AddrIndex, Lost, MayForget
<1>3. CASE ~(DOMAIN am.mapAddr \subseteq DOMAIN m.mapAddr)
  <2>1. PICK v \in Ids(am), b \in NewBucket :
          /\ DOMAIN m.mapAddr \cap DOMAIN am.mapAddr =
                 DOMAIN am.mapAddr \ {IpOf[am.mapInfo[v].addr]}
          /\ v \in am.vvNew[b] /\ NewBucketsOf(am, v) = {b}
          /\ Cardinality(am.vvNew[b]) = ADDRMAN_NEW_BUCKET_SIZE
    BY <1>3 DEF KeepsOrMakesRoom
  <2>2. \A id \in Ids(am) : IpOf[am.mapInfo[id].addr] \notin DOMAIN m.mapAddr
                              <=> IpOf[am.mapInfo[id].addr] = IpOf[am.mapInfo[v].addr]
    BY <1>1, <2>1 DEF AddrIndex
  <2>3. \A id \in Ids(am) : IpOf[am.mapInfo[id].addr] = IpOf[am.mapInfo[v].addr] => id = v
    BY <1>1 DEF AddrIndex
  <2>4. Lost(am, m) = {v}
    BY <2>2, <2>3 DEF Lost
  <2>5. v \in New(am)
    BY <1>1, <2>1 DEF Buckets, TriedEntry, New, Tried
  <2> QED BY <2>1, <2>4, <2>5 DEF MayForget
<1> QED BY <1>2, <1>3

\* A manager with the same mapAddr keys has forgotten nothing.
LEMMA SameAddresses ==
    ASSUME NEW am, Ok(am, NoId, NoId), NEW m, DOMAIN m.mapAddr = DOMAIN am.mapAddr
    PROVE  MayForget(am, m)
BY DEF Ok, AddrIndex, Lost, MayForget

\* A running node forgets an address only in ShrinkNew, for the room in a
\* full bucket that is its last one, and never a tried one.  A node that
\* starts again knows what was written to the peers.dat it finds, of
\* whatever age, all of it and nothing else.
THEOREM ForgetsOnlyForRoom == Spec => ForgetsOnlyToMakeRoom
<1> DEFINE Step == \/ Lost(addrman, addrman') = {}
                   \/ \E id \in New(addrman), b \in NewBucket :
                         /\ Lost(addrman, addrman') = {id}
                         /\ NewBucketsOf(addrman, id) = {b}
                         /\ Cardinality(addrman.vvNew[b]) = ADDRMAN_NEW_BUCKET_SIZE
                   \/ Restart /\ DOMAIN addrman'.mapAddr = Written(peers')
                   \/ RestartRecreating
<1>1. IInv /\ [Next]_vars => [Step]_vars
  <2> SUFFICES ASSUME IInv, Next
               PROVE  \/ MayForget(addrman, addrman')
                      \/ Restart /\ DOMAIN addrman'.mapAddr = Written(peers')
                      \/ RestartRecreating
    BY DEF MayForget
  <2>1. Ok(addrman, NoId, NoId) /\ FileOk(peers) /\ fOld \in BOOLEAN
    BY DEF IInv
  <2>2. ASSUME NEW a \in Service, NEW source \in Source, Add(a, source)
        PROVE  MayForget(addrman, addrman')
    <3>1. KeepsOrMakesRoom(addrman, addrman')
      BY <2>1, <2>2, AddOk DEF Add
    <3> QED BY <2>1, <3>1, AddForgets
  <2>3. ASSUME NEW a \in Service, Good(a) PROVE MayForget(addrman, addrman')
    <3>1. SameIndexes(addrman, addrman')
      BY <2>1, <2>3, GoodOk DEF Good
    <3>2. DOMAIN addrman'.mapAddr = DOMAIN addrman.mapAddr
      BY <3>1 DEF SameIndexes
    <3> QED BY <2>1, <3>2, SameAddresses
  <2>4. CASE GetAddr
    <3>1. SameTable(addrman, addrman')
      BY <2>1, <2>4, GetAddrOk DEF GetAddr
    <3>2. DOMAIN addrman'.mapAddr = DOMAIN addrman.mapAddr
      BY <3>1 DEF SameTable
    <3>3. MayForget(addrman, addrman')
      BY <2>1, <3>2, SameAddresses
    <3> QED BY <3>3
  <2>5. CASE DumpAddresses
    <3>1. DOMAIN addrman'.mapAddr = DOMAIN addrman.mapAddr
      BY <2>5 DEF DumpAddresses
    <3>2. MayForget(addrman, addrman')
      BY <2>1, <3>1, SameAddresses
    <3> QED BY <3>2
  <2>6. CASE Restart
    <3>1. FileOk(peers')
      BY <2>1, <2>6, FileLeft DEF Restart
    <3>2. addrman' = IF peers' = NoFile THEN Empty ELSE Load(peers')
      BY <2>6 DEF Restart
    <3>3. DOMAIN Empty.mapAddr = {}
      BY DEF Empty
    <3>4. DOMAIN addrman'.mapAddr = Written(peers')
      <4>1. CASE peers' = NoFile
        BY <3>2, <3>3, <4>1 DEF Written
      <4>2. CASE peers' # NoFile
        BY <3>1, <3>2, <4>2 DEF FileOk
      <4> QED BY <4>1, <4>2
    <3> QED BY <2>6, <3>4
  <2>7. CASE RestartRecreating
    BY <2>7
  <2> QED BY <2>2, <2>3, <2>4, <2>5, <2>6, <2>7 DEF Next
<1>2. ForgetsOnlyToMakeRoom <=> [][Step]_vars
  BY DEF ForgetsOnlyToMakeRoom
<1> QED BY <1>1, <1>2, Inductive, PTL DEF Spec
=============================================================================
