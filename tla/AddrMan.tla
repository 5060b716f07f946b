------------------------------ MODULE AddrMan ------------------------------
(***************************************************************************)
(* The address manager (CAddrMan): the peers a node knows of, those never  *)
(* connected to in "new" buckets, those it has connected to in "tried"     *)
(* buckets, with the indexes that the code keeps beside the buckets.       *)
(*                                                                         *)
(* Every operation holds cs and is one step; addresses announced together  *)
(* are added one after the other.  Times and attempt counts are left out:  *)
(* they only decide whether an announcement is news and which entry of a   *)
(* full bucket goes, and here either may be anything.  (SelectTried        *)
(* shuffles the bucket it inspects; any entry may end at the position it   *)
(* returns, so a tried bucket is a set.)  Attempt_, Connected_, Select_    *)
(* and GetOnlineAddr_ change nothing else and are no steps.                *)
(*                                                                         *)
(* An operation with a random or a time-dependent outcome is the set of    *)
(* the managers it may leave.  Positions in vRandom count from 1.          *)
(***************************************************************************)
EXTENDS Integers, Sequences, FiniteSets, SequencesExt

CONSTANTS
    Service,                            \* addresses with ports
    NetAddr,                            \* addresses without
    Source,                             \* those that announce addresses
    IpOf,                               \* Service -> NetAddr
    Routable,                           \* the services that IsRoutable
    NewBuckets, TriedBuckets,           \* how many buckets there are
    GetNewBucket,                       \* <<address, source>> -> bucket
    GetTriedBucket,                     \* service -> bucket
    ADDRMAN_NEW_BUCKET_SIZE,
    ADDRMAN_TRIED_BUCKET_SIZE,
    ADDRMAN_NEW_BUCKETS_PER_ADDRESS,
    ADDRMAN_GETADDR_MAX, ADDRMAN_GETADDR_MAX_PCT,
    MaxId,                              \* bound: entries created in one run
    DumpAt                              \* bound: how many entries a dump may have

NewBucket   == 0..(NewBuckets - 1)
TriedBucket == 0..(TriedBuckets - 1)

ASSUME AddrManAssumption ==
    /\ IpOf \in [Service -> NetAddr] /\ Routable \subseteq Service
    /\ Source \subseteq NetAddr
    /\ NewBuckets \in Nat /\ TriedBuckets \in Nat /\ MaxId \in Nat /\ DumpAt \subseteq Nat
    /\ GetNewBucket \in [NetAddr \X Source -> NewBucket]
    /\ GetTriedBucket \in [Service -> TriedBucket]
    /\ ADDRMAN_NEW_BUCKET_SIZE \in Nat \ {0} /\ ADDRMAN_TRIED_BUCKET_SIZE \in Nat \ {0}
    /\ ADDRMAN_NEW_BUCKETS_PER_ADDRESS \in Nat \ {0}
    /\ ADDRMAN_GETADDR_MAX \in Nat /\ ADDRMAN_GETADDR_MAX_PCT \in 0..100

VARIABLES
    addrman,    \* the CAddrMan
    peers,      \* the file peers.dat
    fOld        \* there is a peers.dat.v1.old

vars == <<addrman, peers, fOld>>

CAddrInfo == [addr : Service, source : Source, nRefCount : Int,
              fInTried : BOOLEAN, nRandomPos : Int]

Empty == [nIdCount |-> 0, mapInfo |-> <<>>, mapAddr |-> <<>>, vRandom |-> <<>>,
          nTried |-> 0, vvTried |-> [k \in TriedBucket |-> {}],
          nNew |-> 0, vvNew |-> [b \in NewBucket |-> {}]]

Ids(am) == DOMAIN am.mapInfo

NoFile == <<>>

TypeOK ==
    /\ DOMAIN addrman = DOMAIN Empty
    /\ addrman.nIdCount \in 0..MaxId
    /\ Ids(addrman) \subseteq 0..(addrman.nIdCount - 1)
    /\ \A id \in Ids(addrman) : addrman.mapInfo[id] \in CAddrInfo
    /\ DOMAIN addrman.mapAddr \subseteq NetAddr
    /\ \A ip \in DOMAIN addrman.mapAddr : addrman.mapAddr[ip] \in Ids(addrman)
    /\ addrman.vRandom \in Seq(Ids(addrman))
    /\ addrman.nTried \in Nat /\ addrman.nNew \in Nat
    /\ addrman.vvTried \in [TriedBucket -> SUBSET Ids(addrman)]
    /\ addrman.vvNew \in [NewBucket -> SUBSET Ids(addrman)]
    /\ peers = NoFile \/ DOMAIN peers = {"nNew", "new", "tried", "vvNew"}
    /\ fOld \in BOOLEAN
-----------------------------------------------------------------------------
(***************************************************************************)
(* Entries and their places in vRandom.                                    *)
(***************************************************************************)
Found(am, a) == IpOf[a] \in DOMAIN am.mapAddr
Find(am, a)  == am.mapAddr[IpOf[a]]

(* Add or replace one entry of a map.                                      *)
Put(f, x, y) == [z \in DOMAIN f \cup {x} |-> IF z = x THEN y ELSE f[z]]

AddRef(am, id, n) ==
    [am EXCEPT !.mapInfo = Put(@, id, [am.mapInfo[id] EXCEPT !.nRefCount = @ + n])]

SetRandomPos(am, id, p) ==
    [am EXCEPT !.mapInfo = Put(@, id, [am.mapInfo[id] EXCEPT !.nRandomPos = p])]

Create(am, a, source) ==
    LET info == [addr |-> a, source |-> source, nRefCount |-> 0, fInTried |-> FALSE,
                 nRandomPos |-> Len(am.vRandom) + 1]
    IN  [am EXCEPT !.nIdCount = @ + 1,
                   !.mapInfo  = Put(@, am.nIdCount, info),
                   !.mapAddr  = Put(@, IpOf[a], am.nIdCount),
                   !.vRandom  = Append(@, am.nIdCount)]

(* Mutant of SwapRandom: only one of the two entries learns its place.     *)
SwapRandomOneSided(am, p, q) ==
    [SetRandomPos(am, am.vRandom[p], q)
        EXCEPT !.vRandom[p] = am.vRandom[q], !.vRandom[q] = am.vRandom[p]]

SwapRandom(am, p, q) ==
    IF p = q THEN am
    ELSE [SetRandomPos(SetRandomPos(am, am.vRandom[p], q), am.vRandom[q], p)
             EXCEPT !.vRandom[p] = am.vRandom[q], !.vRandom[q] = am.vRandom[p]]

(* The last reference to a new entry is gone, and so is the entry.         *)
Erase(am, id) ==
    LET last == Len(am.vRandom)
        s    == SwapRandom(am, am.mapInfo[id].nRandomPos, last)
    IN  [s EXCEPT !.vRandom = SubSeq(@, 1, last - 1),
                  !.mapAddr = Restrict(@, DOMAIN @ \ {IpOf[am.mapInfo[id].addr]}),
                  !.mapInfo = Restrict(@, DOMAIN @ \ {id}),
                  !.nNew = @ - 1]

(* Remove an entry, a terrible or an old one, from a full new bucket.      *)
ShrinkNew(am, b) ==
    {LET m == [AddRef(am, id, -1) EXCEPT !.vvNew[b] = @ \ {id}]
     IN  IF m.mapInfo[id].nRefCount = 0 THEN Erase(m, id) ELSE m : id \in am.vvNew[b]}
-----------------------------------------------------------------------------
(***************************************************************************)
(* Add_: an address is announced by source.                                *)
(***************************************************************************)
Insert(am, id, source) ==
    LET b == GetNewBucket[IpOf[am.mapInfo[id].addr], source]
        m == AddRef(am, id, 1)
    IN  IF id \in am.vvNew[b] THEN {am}
        ELSE {[x EXCEPT !.vvNew[b] = @ \cup {id}] :
                x \in IF Cardinality(m.vvNew[b]) = ADDRMAN_NEW_BUCKET_SIZE
                      THEN ShrinkNew(m, b) ELSE {m}}

(* A known address may be no news, or fail the stochastic test.            *)
Add_(am, a, source) ==
    IF a \notin Routable THEN {am}
    ELSE IF ~Found(am, a)
    THEN Insert([Create(am, a, source) EXCEPT !.nNew = @ + 1], am.nIdCount, source)
    ELSE LET info == am.mapInfo[Find(am, a)]
         IN  {am} \cup (IF \/ info.fInTried
                           \/ info.nRefCount = ADDRMAN_NEW_BUCKETS_PER_ADDRESS
                        THEN {} ELSE Insert(am, Find(am, a), source))
-----------------------------------------------------------------------------
(***************************************************************************)
(* Good_: the node is connected to the address.                            *)
(***************************************************************************)
(* What MakeTried does first: id leaves all its new buckets.               *)
LeaveNew(am, id) ==
    [am EXCEPT !.mapInfo[id].nRefCount =
                    @ - Cardinality({b \in NewBucket : id \in am.vvNew[b]}),
               !.vvNew = [b \in NewBucket |-> am.vvNew[b] \ {id}],
               !.nNew = @ - 1]

(* Mutant of EvictTo: back to its own bucket, full or not.                 *)
EvictHome(am, old, nOrigin) ==
    GetNewBucket[IpOf[am.mapInfo[old].addr], am.mapInfo[old].source]

(* The new bucket for an entry that makes room in a tried bucket.          *)
EvictTo(am, old, nOrigin) ==
    LET b == GetNewBucket[IpOf[am.mapInfo[old].addr], am.mapInfo[old].source]
    IN  IF Cardinality(am.vvNew[b]) < ADDRMAN_NEW_BUCKET_SIZE THEN b ELSE nOrigin

Evict(am, k, old, id, nOrigin) ==
    [am EXCEPT !.mapInfo[old].fInTried = FALSE, !.mapInfo[old].nRefCount = 1,
               !.vvNew[EvictTo(am, old, nOrigin)] = @ \cup {old},
               !.nNew = @ + 1,
               !.vvTried[k] = (@ \ {old}) \cup {id},
               !.mapInfo[id].fInTried = TRUE]

MakeTried(am, id, nOrigin) ==
    LET m == LeaveNew(am, id)
        k == GetTriedBucket[am.mapInfo[id].addr]
    IN  IF Cardinality(m.vvTried[k]) < ADDRMAN_TRIED_BUCKET_SIZE
        THEN {[m EXCEPT !.vvTried[k] = @ \cup {id}, !.nTried = @ + 1,
                        !.mapInfo[id].fInTried = TRUE]}
        ELSE {Evict(m, k, old, id, nOrigin) : old \in m.vvTried[k]}

(* Good_ looks for a bucket with the entry from a random one on.           *)
Good_(am, a) ==
    IF ~Found(am, a) THEN {am}
    ELSE LET id == Find(am, a)
             nU == {b \in NewBucket : id \in am.vvNew[b]}
         IN  IF am.mapInfo[id].addr # a \/ am.mapInfo[id].fInTried \/ nU = {}
             THEN {am} ELSE UNION {MakeTried(am, id, b) : b \in nU}

(* GetAddr_ shuffles the first nNodes places of vRandom, selecting from    *)
(* all; ms is the managers that the shuffle of the places before n leaves. *)
Shuffle(am, ms, n) == {SwapRandom(m, n, r) : m \in ms, r \in n..Len(am.vRandom)}

GetAddr_(am) ==
    LET pct    == (ADDRMAN_GETADDR_MAX_PCT * Len(am.vRandom)) \div 100
        nNodes == IF pct > ADDRMAN_GETADDR_MAX THEN ADDRMAN_GETADDR_MAX ELSE pct
    IN  FoldLeft(LAMBDA ms, n : Shuffle(am, ms, n), {am}, [n \in 1..nNodes |-> n])
-----------------------------------------------------------------------------
(***************************************************************************)
(* peers.dat.  Entries are written in the order of their numbers, the new  *)
(* ones first, and numbered again from 0 when they are read.               *)
(***************************************************************************)
Rank(S, id) == Cardinality({j \in S : j < id})
Nth(S, n)   == CHOOSE id \in S : Rank(S, id) = n

Entry(info) == [addr |-> info.addr, source |-> info.source]

(* Mutant of UnkId: the number among all entries, tried ones included.     *)
UnkIdOfAll(am, U, id) == Rank(Ids(am), id)

(* mapUnkIds: the number in the file of a new entry; U is all of them.     *)
UnkId(am, U, id) == Rank(U, id)

Save(am) ==
    LET U == {id \in Ids(am) : am.mapInfo[id].nRefCount # 0}
        T == {id \in Ids(am) : am.mapInfo[id].fInTried}
    IN  [nNew  |-> am.nNew,
         new   |-> [n \in 0..(am.nNew - 1)   |-> Entry(am.mapInfo[Nth(U, n)])],
         tried |-> [n \in 0..(am.nTried - 1) |-> Entry(am.mapInfo[Nth(T, n)])],
         vvNew |-> [b \in NewBucket |-> {UnkId(am, U, id) : id \in am.vvNew[b]}]]

Load(f) ==
    LET bucket(n) == GetTriedBucket[f.tried[n].addr]
        kept  == {n \in DOMAIN f.tried :
                    Cardinality({m \in DOMAIN f.tried : m < n /\ bucket(m) = bucket(n)})
                        < ADDRMAN_TRIED_BUCKET_SIZE}
        ids   == 0..(f.nNew + Cardinality(kept) - 1)
        entry == [id \in ids |-> IF id < f.nNew THEN f.new[id]
                                 ELSE f.tried[Nth(kept, id - f.nNew)]]
        vvNew == [b \in NewBucket |->
                    {n \in f.vvNew[b] : Cardinality({c \in 0..(b - 1) : n \in f.vvNew[c]})
                                            < ADDRMAN_NEW_BUCKETS_PER_ADDRESS}]
    IN  [nIdCount |-> f.nNew + Cardinality(kept),
         mapInfo  |-> [id \in ids |->
                         [addr |-> entry[id].addr, source |-> entry[id].source,
                          nRefCount |-> Cardinality({b \in NewBucket : id \in vvNew[b]}),
                          fInTried |-> id >= f.nNew, nRandomPos |-> id + 1]],
         mapAddr  |-> [ip \in {IpOf[entry[id].addr] : id \in ids} |->
                         CHOOSE id \in ids : /\ IpOf[entry[id].addr] = ip
                                             /\ \A j \in ids : IpOf[entry[j].addr] = ip => j <= id],
         vRandom  |-> [n \in 1..Cardinality(ids) |-> n - 1],
         nTried   |-> Cardinality(kept),
         vvTried  |-> [k \in TriedBucket |->
                         {id \in ids : id >= f.nNew /\ GetTriedBucket[entry[id].addr] = k}],
         nNew     |-> f.nNew,
         vvNew    |-> vvNew]
-----------------------------------------------------------------------------
(***************************************************************************)
(* The file.  Making a CAddrDB renames the first peers.dat it finds away.  *)
(***************************************************************************)
CAddrDB(file) ==
    /\ file = IF fOld THEN peers ELSE NoFile
    /\ fOld' = (fOld \/ peers # NoFile)

Init == addrman = Empty /\ peers = NoFile /\ fOld = FALSE

Add(a, source) ==
    /\ Found(addrman, a) \/ addrman.nIdCount < MaxId
    /\ addrman' \in Add_(addrman, a, source)
    /\ UNCHANGED <<peers, fOld>>

Good(a) == addrman' \in Good_(addrman, a) /\ UNCHANGED <<peers, fOld>>

GetAddr == addrman' \in GetAddr_(addrman) /\ UNCHANGED <<peers, fOld>>

(* Every ten minutes and at a shutdown.  The file is replaced as a whole,  *)
(* unless writing fails or the process ends before.                        *)
DumpAddresses ==
    /\ Len(addrman.vRandom) \in DumpAt
    /\ \E file \in {peers, NoFile} :
          CAddrDB(file) /\ peers' \in {file, Save(addrman)}
    /\ UNCHANGED addrman

(* Mutant of Restart: the tried entries are not read.                      *)
RestartNewOnly ==
    /\ CAddrDB(peers')
    /\ addrman' = IF peers' = NoFile THEN Empty ELSE Load([peers' EXCEPT !.tried = <<>>])

(* The process ends, at any time, and starts again with the file it finds. *)
Restart ==
    /\ CAddrDB(peers')
    /\ addrman' = IF peers' = NoFile THEN Empty ELSE Load(peers')

(* The same with a file that cannot be read: "recreating".                 *)
RestartRecreating ==
    /\ CAddrDB(peers')
    /\ addrman' = Empty

Next ==
    \/ \E a \in Service, source \in Source : Add(a, source)
    \/ \E a \in Service : Good(a)
    \/ GetAddr
    \/ DumpAddresses
    \/ Restart
    \/ RestartRecreating

Spec == Init /\ [][Next]_vars
-----------------------------------------------------------------------------
Tried(am) == {id \in Ids(am) : am.mapInfo[id].fInTried}
New(am)   == Ids(am) \ Tried(am)

NewBucketsOf(am, id)   == {b \in NewBucket : id \in am.vvNew[b]}
TriedBucketsOf(am, id) == {k \in TriedBucket : id \in am.vvTried[k]}

(* The counts are those of the tables: Select_ loops over random buckets   *)
(* until it meets an entry of the table that a count says has one.         *)
CountsAgree(am) ==
    /\ Len(am.vRandom) = am.nTried + am.nNew
    /\ am.nTried = Cardinality(Tried(am)) /\ am.nNew = Cardinality(New(am))

(* Every entry is in one tried bucket, or in as many new buckets as it has *)
(* references, at most ADDRMAN_NEW_BUCKETS_PER_ADDRESS.                    *)
BucketsAgree(am) ==
    /\ \A id \in Tried(am) : /\ am.mapInfo[id].nRefCount = 0
                             /\ NewBucketsOf(am, id) = {}
                             /\ Cardinality(TriedBucketsOf(am, id)) = 1
    /\ \A id \in New(am) : /\ am.mapInfo[id].nRefCount \in 1..ADDRMAN_NEW_BUCKETS_PER_ADDRESS
                           /\ Cardinality(NewBucketsOf(am, id)) = am.mapInfo[id].nRefCount
                           /\ TriedBucketsOf(am, id) = {}

(* Every entry is found at its address and at its place in vRandom.        *)
IndexesAgree(am) ==
    \A id \in Ids(am) :
        LET info == am.mapInfo[id]
        IN  /\ IpOf[info.addr] \in DOMAIN am.mapAddr
            /\ am.mapAddr[IpOf[info.addr]] = id
            /\ info.nRandomPos \in DOMAIN am.vRandom
            /\ am.vRandom[info.nRandomPos] = id

(* Check_ (addrman.cpp, compiled only with DEBUG_ADDRMAN) finds no fault   *)
(* after any sequence of operations and restarts.                          *)
Consistent ==
    /\ TypeOK
    /\ CountsAgree(addrman) /\ BucketsAgree(addrman) /\ IndexesAgree(addrman)

(* No bucket outgrows its size, also when an entry is evicted from a full  *)
(* tried bucket and its own new bucket is full: "there is certainly place" *)
(* where the other entry came from (MakeTried).                            *)
BucketLimits ==
    /\ \A b \in NewBucket : Cardinality(addrman.vvNew[b]) <= ADDRMAN_NEW_BUCKET_SIZE
    /\ \A k \in TriedBucket : Cardinality(addrman.vvTried[k]) <= ADDRMAN_TRIED_BUCKET_SIZE

Table(am) == {<<Entry(am.mapInfo[id]), NewBucketsOf(am, id), TriedBucketsOf(am, id)>> :
                id \in Ids(am)}

(* Writing peers.dat and reading it back (the two halves of                *)
(* CAddrMan::SerializationOp) gives the same addresses in the same buckets *)
(* and a consistent manager, although entries are numbered again, tried    *)
(* buckets are computed again and reference counts are not in the file.    *)
ReloadFaithful ==
    LET am == Load(Save(addrman))
    IN  /\ Table(am) = Table(addrman)
        /\ CountsAgree(am) /\ BucketsAgree(am) /\ IndexesAgree(am)

Lost(am, m) == {id \in Ids(am) : IpOf[am.mapInfo[id].addr] \notin DOMAIN m.mapAddr}

(* The addresses in a file.                                                *)
Written(f) ==
    IF f = NoFile THEN {}
    ELSE {IpOf[f.new[n].addr] : n \in DOMAIN f.new}
            \cup {IpOf[f.tried[n].addr] : n \in DOMAIN f.tried}

(* A running node forgets an address only to make room in a new bucket     *)
(* that was full and was its last one, one address at a time, and never    *)
(* while it is in the tried table (ShrinkNew is "the only place where      *)
(* actual deletes occur").  A node that is started again, after a crash    *)
(* with a file that is old, knows all the addresses of the peers.dat that  *)
(* it finds and no others, unless that file cannot be read.                *)
ForgetsOnlyToMakeRoom ==
    [][\/ Lost(addrman, addrman') = {}
       \/ \E id \in New(addrman), b \in NewBucket :
             /\ Lost(addrman, addrman') = {id}
             /\ NewBucketsOf(addrman, id) = {b}
             /\ Cardinality(addrman.vvNew[b]) = ADDRMAN_NEW_BUCKET_SIZE
       \/ Restart /\ DOMAIN addrman'.mapAddr = Written(peers')
       \/ RestartRecreating]_vars
=============================================================================
