--------------------------- MODULE ServicesProofs ---------------------------
(***************************************************************************)
(* The calls of Cache keep the caches in step with the memory, for a       *)
(* memory, caches, lines and mappings of any size.  The times of Clock are *)
(* right, for words, registers and rates of any size, as long as the       *)
(* product of settimeofday fits in a word.  And the profile is complete:   *)
(* its counts add up to the calls, but for those that a handler and the    *)
(* program have stored over each other, and its sampler is started.        *)
(***************************************************************************)
EXTENDS ServicesMC, Sequences, FiniteSetTheorems, TLAPS

\* Blocks are whole lines; there are none before the program runs.
WholeLines ==
  /\ \A b \in blocks : b.first[2] = 0 /\ b.end[2] = 0
  /\ boot # "run" => blocks = {}

\* But for the words that are given up, whatever line is in the data cache holds the last
\* word, and the memory does unless that line is dirty.
Known == memory \cup given
Copies == \A w \in Words : Cached(w) /\ w \notin given => FreshCopy(w)
Kept == \A w \in Words : w \notin Known => Cached(w) /\ dcache[dset[w[1]]].dirty

\* No line of uncached memory is in the data cache.
Apart == \A w \in Words : w \in Uncached => ~Cached(w)

\* What was handed over is in the memory, from the moment that alt_load has flushed it.
Reached == boot # "copy" => handed.words \subseteq Known

DataInv == Copies /\ Kept
IInv == TypeOK /\ WholeLines /\ DataInv /\ Apart /\ Reached /\ ExecutesLast

-----------------------------------------------------------------------------
\* The parts of a word.
LEMMA WordType ==
  /\ \A w \in Words : w[1] \in Lines /\ w[2] \in Offsets /\ w = <<w[1], w[2]>>
                      /\ dset[w[1]] \in DSets /\ iset[w[1]] \in ISets
  /\ Lines \subseteq Int /\ Offsets \subseteq Int /\ 0 \in Offsets /\ NONE \notin Lines
<1>1. \A w \in Words : w[1] \in Lines /\ w[2] \in Offsets /\ w = <<w[1], w[2]>>
  BY DEF Words
<1>2. \A l \in Lines : dset[l] \in DSets /\ iset[l] \in ISets
  BY CacheConstants DEF CacheConstants
<1>3. Lines \subseteq Int /\ Offsets \subseteq Int /\ 0 \in Offsets /\ NONE \notin Lines
  BY CacheConstants DEF CacheConstants, Lines, Offsets, NONE
<1> QED
  BY <1>1, <1>2, <1>3

\* The lines flushed for a region are all lines of its words.
LEMMA LinesCover ==
  ASSUME NEW start \in Words, NEW end \in Ends, NEW w \in Region(start, end)
  PROVE  w[1] \in LinesFlushed(start, end)
<1>1. w \in Words /\ ~Before(w, start) /\ Before(w, end)
  BY DEF Region
<1>2. /\ w[1] \in Lines /\ w[2] \in Int /\ w[1] \in Int /\ w[2] >= 0
      /\ start[1] \in Int /\ start[2] \in Int /\ start[2] >= 0
  BY <1>1, WordType DEF Offsets
<1>3. end[1] \in Int /\ end[2] \in Int
  <2>1. CASE end \in Words
    BY <2>1, WordType
  <2>2. CASE end = <<Top, 0>>
    BY <2>2, CacheConstants DEF CacheConstants
  <2> QED
    BY <2>1, <2>2 DEF Ends
<1>4. <<w[1], start[2]>>[1] = w[1] /\ <<w[1], start[2]>>[2] = start[2]
      /\ <<w[1] - 1, start[2]>>[1] = w[1] - 1
  OBVIOUS
<1> QED
  BY <1>1, <1>2, <1>3, <1>4 DEF LinesFlushed, Before

\* A flush without write-back drops no line that is not at stake.
LEMMA LinesAtStake ==
  ASSUME NEW start \in Words, NEW end \in Ends, NEW l \in LinesFlushed(start, end)
  PROVE  l \in AtStake(start, end)
<1>1. /\ start[1] \in Int /\ start[2] \in Offsets /\ start[2] \in Int
      /\ l \in Lines /\ l \in Int /\ start[1] <= l
  BY WordType DEF LinesFlushed
<1>2. ASSUME NEW k \in Int, start[1] <= k, k <= l, Before(<<k, start[2]>>, end)
      PROVE  <<k, start[2]>> \in Region(start, end)
  <2>1. <<k, start[2]>>[1] = k /\ <<k, start[2]>>[2] = start[2]
    OBVIOUS
  <2>2. k \in Lines
    <3>1. start[1] \in Lines /\ l \in Lines /\ Top \in Int
      BY <1>1, WordType, CacheConstants DEF CacheConstants
    <3> QED
      BY <1>2, <3>1 DEF Lines
  <2> QED
    BY <1>1, <1>2, <2>1, <2>2 DEF Region, Before, Words
<1>3. CASE Before(<<l, start[2]>>, end)
  BY <1>1, <1>2, <1>3 DEF AtStake
<1>4. CASE start[2] # 0 /\ l = start[1]
  BY <1>1, <1>4 DEF AtStake
<1>5. CASE start[2] # 0 /\ l # start[1] /\ Before(<<l - 1, start[2]>>, end)
  <2>1. l - 1 \in Int /\ start[1] <= l - 1 /\ l - 1 <= l
    BY <1>1, <1>5
  <2> QED
    BY <1>1, <1>2, <1>5, <2>1 DEF AtStake
<1> QED
  BY <1>3, <1>4, <1>5 DEF LinesFlushed

-----------------------------------------------------------------------------
\* Dirty lines hold the last words: written back they add to the memory.
LEMMA WriteBackAdds ==
  ASSUME TypeOK, Copies, NEW L
  PROVE  /\ WrittenBack(L) \cup given = Known \cup Dirty(L)
         /\ WrittenBack(L) \subseteq Words
  BY DEF TypeOK, Copies, Known, WrittenBack, Dirty, Of, Cached, FreshCopy

\* A flush of lines keeps the data and leaves none of them in the cache.
Flushed(L) ==
  /\ memory' \subseteq Words /\ Known \subseteq Known'
  /\ dcache' \in [DSets -> [line : Lines \cup {NONE}, dirty : BOOLEAN, fresh : SUBSET Words]]
  /\ DataInv'
  /\ \A w \in Words : Cached(w)' => Cached(w) /\ w[1] \notin L
  /\ \A w \in Words : w[1] \in L => w \in Known'

LEMMA FlushKeeps ==
  ASSUME TypeOK, DataInv, NEW L, FlushData(L), given' = given
  PROVE  Flushed(L)
<1>1. Known' = Known \cup Dirty(L) /\ memory' \subseteq Words
  BY WriteBackAdds DEF DataInv, FlushData, Known
<1>2. /\ Known \subseteq Known'
      /\ dcache' \in [DSets -> [line : Lines \cup {NONE}, dirty : BOOLEAN, fresh : SUBSET Words]]
  BY <1>1 DEF TypeOK, FlushData, Empty, Dirty, Of
<1>3. ASSUME NEW w \in Words
      PROVE  /\ Cached(w)' => Cached(w) /\ w[1] \notin L /\ dcache'[dset[w[1]]] = dcache[dset[w[1]]]
             /\ Cached(w) /\ w[1] \notin L => dcache'[dset[w[1]]] = dcache[dset[w[1]]]
             /\ Cached(w) /\ dcache[dset[w[1]]].dirty /\ w[1] \in L => w \in Known'
  <2>1. dcache'[dset[w[1]]] = IF dcache[dset[w[1]]].line \in L THEN Empty ELSE dcache[dset[w[1]]]
    BY WordType DEF FlushData
  <2>2. Empty.line = NONE /\ w[1] # NONE
    BY WordType DEF Empty
  <2>3. Cached(w) /\ dcache[dset[w[1]]].dirty /\ w[1] \in L => w \in Dirty(L)
    BY DEF Dirty, Of, Cached
  <2> QED
    BY <1>1, <2>1, <2>2, <2>3 DEF Cached
<1>4. Copies'
  BY <1>3 DEF DataInv, Copies, Cached, FreshCopy
<1>5. Kept'
  BY <1>1, <1>3 DEF DataInv, Kept, Cached
<1>6. \A w \in Words : w[1] \in L => w \in Known'
  BY <1>1, <1>3 DEF DataInv, Kept
<1> QED
  BY <1>1, <1>2, <1>3, <1>4, <1>5, <1>6 DEF Flushed, DataInv

-----------------------------------------------------------------------------
\* With a word its whole line is uncached.
LEMMA UncachedLines ==
  ASSUME TypeOK, WholeLines, NEW v \in Words, NEW w \in Words, v[1] = w[1], v \in Uncached
  PROVE  w \in Uncached
<1>1. PICK b \in blocks : v \in Region(b.first, b.end)
  BY DEF Uncached
<1>2. b.first \in Ends /\ b.end \in Ends /\ b.first[2] = 0 /\ b.end[2] = 0
  BY DEF TypeOK, WholeLines
<1>3. ASSUME NEW p \in Ends PROVE p[1] \in Int
  <2>1. CASE p \in Words
    BY <2>1, WordType
  <2>2. CASE p = <<Top, 0>>
    BY <2>2, CacheConstants DEF CacheConstants
  <2> QED
    BY <2>1, <2>2 DEF Ends
<1>4. b.first[1] \in Int /\ b.end[1] \in Int
  BY <1>2, <1>3
<1>5. /\ v[1] \in Int /\ v[2] \in Int /\ w[2] \in Int /\ v[2] >= 0 /\ w[2] >= 0
  BY WordType DEF Offsets
<1>6. w \in Region(b.first, b.end)
  BY <1>1, <1>2, <1>4, <1>5 DEF Region, Before
<1> QED
  BY <1>6 DEF Uncached

\* What is written back when the line of w comes in.
LEMMA Evicts ==
  ASSUME TypeOK, DataInv, NEW w \in Words
  PROVE  /\ WrittenBack(InTheWay(w[1])) \subseteq Words
         /\ Known \subseteq WrittenBack(InTheWay(w[1])) \cup given
         /\ \A v \in Words : v[1] # w[1] /\ dset[v[1]] = dset[w[1]]
                               => v \in WrittenBack(InTheWay(w[1])) \cup given
         /\ ~Cached(w) => \A v \in Words : v[1] = w[1] => v \in Known
<1>1. /\ WrittenBack(InTheWay(w[1])) \cup given = Known \cup Dirty(InTheWay(w[1]))
      /\ WrittenBack(InTheWay(w[1])) \subseteq Words
  BY WriteBackAdds DEF DataInv
<1>2. ASSUME NEW v \in Words, v[1] # w[1], dset[v[1]] = dset[w[1]]
      PROVE  v \in WrittenBack(InTheWay(w[1])) \cup given
  <2>1. Cached(v) /\ dcache[dset[v[1]]].dirty => v \in Dirty(InTheWay(w[1]))
    BY <1>2, WordType DEF Cached, Dirty, Of, InTheWay
  <2> QED
    BY <1>1, <2>1 DEF DataInv, Kept
<1> QED
  BY <1>1, <1>2 DEF DataInv, Kept, Cached

\* The state of the data cache after a load or a store of w.
LEMMA LoadStep ==
  ASSUME IInv, NEW w \in Words, Load(w)
  PROVE  IInv'
<1> DEFINE M == WrittenBack(InTheWay(w[1]))
           d == dset[w[1]]
<1>1. /\ M \subseteq Words /\ Known \subseteq M \cup given
      /\ \A v \in Words : v[1] # w[1] /\ dset[v[1]] = d => v \in M \cup given
      /\ \A v \in Words : v[1] = w[1] => v \in Known
  BY Evicts DEF IInv, Load
<1>2. /\ memory' = M
      /\ dcache' = [dcache EXCEPT ![d] = [line |-> w[1], dirty |-> FALSE,
                                          fresh |-> memory \cap Of({w[1]})]]
      /\ UNCHANGED <<icache, blocks, boot, handed, given>> /\ w \notin Uncached
  BY DEF Load
<1>3. d \in DSets /\ w[1] \in Lines
  BY WordType
<1> HIDE DEF M, d
<1>4. TypeOK'
  BY <1>1, <1>2, <1>3 DEF IInv, TypeOK, Of
<1>5. ASSUME NEW v \in Words
      PROVE  /\ dset[v[1]] # d => dcache'[dset[v[1]]] = dcache[dset[v[1]]]
             /\ dset[v[1]] = d => /\ dcache'[dset[v[1]]].line = w[1]
                                  /\ dcache'[dset[v[1]]].fresh = memory \cap Of({w[1]})
  BY <1>2, <1>3, WordType DEF IInv, TypeOK
<1>6. Copies'
  BY <1>1, <1>2, <1>5 DEF IInv, DataInv, Copies, Cached, FreshCopy, Known, Of
<1>7. Kept'
  BY <1>1, <1>2, <1>5 DEF IInv, DataInv, Kept, Known, Cached
<1>8. Apart'
  <2>1. Uncached' = Uncached
    BY <1>2 DEF Uncached
  <2>2. \A v \in Words : v[1] = w[1] => v \notin Uncached
    BY <1>2, UncachedLines DEF IInv
  <2> QED
    BY <1>5, <2>1, <2>2 DEF IInv, Apart, Cached
<1>9. WholeLines' /\ Reached' /\ ExecutesLast'
  BY <1>1, <1>2 DEF IInv, WholeLines, Reached, Known, ExecutesLast
<1> QED
  BY <1>4, <1>6, <1>7, <1>8, <1>9 DEF IInv, DataInv

StoreKept(w) ==
  /\ memory' \subseteq Words /\ given' = given \ {w} /\ Known \ {w} \subseteq Known'
  /\ dcache' \in [DSets -> [line : Lines \cup {NONE}, dirty : BOOLEAN, fresh : SUBSET Words]]
  /\ icache' \in [ISets -> [line : Lines \cup {NONE}, fresh : SUBSET Words]]
  /\ DataInv'
  /\ \A v \in Words : Cached(v)' => Cached(v) \/ v[1] = w[1]

LEMMA StoreKeeps ==
  ASSUME TypeOK, DataInv, NEW w \in Words, Stored(w)
  PROVE  StoreKept(w)
<1> DEFINE M == WrittenBack(InTheWay(w[1]))
           d == dset[w[1]]
           f == {w} \cup IF Cached(w) THEN dcache[d].fresh ELSE memory \cap Of({w[1]})
<1>1. /\ M \subseteq Words /\ Known \subseteq M \cup given
      /\ \A v \in Words : v[1] # w[1] /\ dset[v[1]] = d => v \in M \cup given
      /\ ~Cached(w) => \A v \in Words : v[1] = w[1] => v \in Known
  BY Evicts
<1>2. d \in DSets /\ w[1] \in Lines
  BY WordType
<1>3. /\ memory' = M \ {w} /\ given' = given \ {w}
      /\ dcache' = [dcache EXCEPT ![d] = [line |-> w[1], dirty |-> TRUE, fresh |-> f]]
      /\ icache' = [s \in ISets |-> [icache[s] EXCEPT !.fresh = @ \ {w}]]
  BY <1>2 DEF Stored, TypeOK
<1>4. f \subseteq Words /\ \A v \in Words : v[1] = w[1] /\ v \notin given' => v \in f
  <2>1. \A v \in Words : v[1] = w[1] /\ Cached(w) /\ v \notin given => v \in dcache[d].fresh
    BY DEF DataInv, Copies, Cached, FreshCopy
  <2>2. dcache[d].fresh \subseteq Words
    BY <1>2 DEF TypeOK
  <2> QED
    BY <1>1, <1>3, <2>1, <2>2 DEF Of, Known
<1> HIDE DEF M, d, f
<1>5. /\ memory' \subseteq Words /\ given' = given \ {w} /\ Known \ {w} \subseteq Known'
      /\ dcache' \in [DSets -> [line : Lines \cup {NONE}, dirty : BOOLEAN, fresh : SUBSET Words]]
  BY <1>1, <1>2, <1>3, <1>4 DEF TypeOK, Known
<1>6. icache' \in [ISets -> [line : Lines \cup {NONE}, fresh : SUBSET Words]]
  BY <1>3 DEF TypeOK
<1>7. ASSUME NEW v \in Words
      PROVE  /\ dset[v[1]] # d => dcache'[dset[v[1]]] = dcache[dset[v[1]]]
             /\ dset[v[1]] = d => /\ dcache'[dset[v[1]]].line = w[1]
                                  /\ dcache'[dset[v[1]]].dirty
                                  /\ dcache'[dset[v[1]]].fresh = f
  BY <1>2, <1>3, WordType DEF TypeOK
<1>8. Copies'
  BY <1>3, <1>4, <1>7 DEF DataInv, Copies, Cached, FreshCopy, d
<1>9. Kept'
  <2> SUFFICES ASSUME NEW v \in Words
               PROVE  (Cached(v) /\ dcache[dset[v[1]]].dirty)' \/ v \in Known'
    BY DEF Kept
  <2>1. CASE v[1] = w[1]
    BY <1>7, <2>1 DEF Cached, d
  <2>2. CASE v[1] # w[1] /\ dset[v[1]] = d
    BY <1>1, <1>3, <2>2 DEF Known
  <2>3. CASE dset[v[1]] # d
    BY <1>1, <1>3, <1>7, <2>3 DEF DataInv, Kept, Known, Cached, d
  <2> QED
    BY <2>1, <2>2, <2>3
<1>10. \A v \in Words : Cached(v)' => Cached(v) \/ v[1] = w[1]
  BY <1>7 DEF Cached
<1> QED
  BY <1>5, <1>6, <1>8, <1>9, <1>10 DEF StoreKept, DataInv

LEMMA StoreStep ==
  ASSUME IInv, NEW w \in Words, Store(w)
  PROVE  IInv'
<1>1. StoreKept(w)
  BY StoreKeeps DEF IInv, Store
<1>2. /\ boot = "run" /\ w \notin Uncached /\ UNCHANGED <<blocks, boot>>
      /\ given' = given \ {w}
      /\ handed' = IF w \in handed.words THEN Nothing ELSE handed
      /\ icache' = [s \in ISets |-> [icache[s] EXCEPT !.fresh = @ \ {w}]]
  BY DEF Store, Stored, Since
<1>3. Nothing \in [to : {"device", "fetch"}, words : SUBSET Words] /\ Nothing.words = {}
  BY DEF Nothing, Handed
<1>4. TypeOK'
  BY <1>1, <1>2, <1>3 DEF IInv, TypeOK, StoreKept
<1>5. Apart'
  <2>1. Uncached' = Uncached
    BY <1>2 DEF Uncached
  <2>2. \A v \in Words : v[1] = w[1] => v \notin Uncached
    BY <1>2, UncachedLines DEF IInv
  <2> QED
    BY <1>1, <2>1, <2>2 DEF IInv, Apart, StoreKept
<1>6. WholeLines' /\ Reached'
  BY <1>1, <1>2, <1>3 DEF IInv, WholeLines, Reached, StoreKept
<1>7. ExecutesLast'
  <2>1. \A s \in ISets : /\ icache'[s].line = icache[s].line
                         /\ icache'[s].fresh = icache[s].fresh \ {w}
    BY <1>2 DEF IInv, TypeOK
  <2>2. \A v \in handed.words : v \in Words /\ iset[v[1]] \in ISets
    BY WordType DEF IInv, TypeOK
  <2> QED
    BY <1>2, <1>3, <2>1, <2>2 DEF IInv, ExecutesLast
<1> QED
  BY <1>1, <1>4, <1>5, <1>6, <1>7 DEF IInv, StoreKept

LEMMA SectionStep ==
  ASSUME IInv, NEW w \in Words, alt_load_section(w)
  PROVE  IInv'
<1>1. StoreKept(w)
  BY StoreKeeps DEF IInv, alt_load_section
<1>2. /\ boot = "copy" /\ UNCHANGED <<blocks, boot>>
      /\ handed' = [to |-> "fetch", words |-> handed.words \cup {w}]
  BY DEF alt_load_section, Handed
<1>3. TypeOK'
  BY <1>1, <1>2 DEF IInv, TypeOK, StoreKept
<1>4. WholeLines' /\ Apart' /\ Reached' /\ ExecutesLast'
  BY <1>2 DEF IInv, WholeLines, Apart, Uncached, Reached, ExecutesLast
<1> QED
  BY <1>1, <1>3, <1>4 DEF IInv, StoreKept

LEMMA StoreUncachedStep ==
  ASSUME IInv, NEW w \in Words, StoreUncached(w)
  PROVE  IInv'
<1>1. /\ boot = "run" /\ w \in Uncached /\ UNCHANGED <<blocks, boot>>
      /\ memory' = memory \cup {w} /\ given' = given \ {w}
      /\ dcache' = [s \in DSets |-> [dcache[s] EXCEPT !.fresh = @ \ {w}]]
      /\ icache' = [s \in ISets |-> [icache[s] EXCEPT !.fresh = @ \ {w}]]
      /\ handed' = IF w \in handed.words THEN Nothing ELSE handed
  BY DEF StoreUncached, Since
<1>2. Nothing \in [to : {"device", "fetch"}, words : SUBSET Words] /\ Nothing.words = {}
  BY DEF Nothing, Handed
<1>3. TypeOK'
  <2>1. memory' \subseteq Words
    BY <1>1 DEF IInv, TypeOK
  <2>2. dcache' \in [DSets -> [line : Lines \cup {NONE}, dirty : BOOLEAN, fresh : SUBSET Words]]
    <3>1. \A s \in DSets :
            dcache[s] \in [line : Lines \cup {NONE}, dirty : BOOLEAN, fresh : SUBSET Words]
      BY DEF IInv, TypeOK
    <3>2. \A s \in DSets :
            [dcache[s] EXCEPT !.fresh = @ \ {w}]
              \in [line : Lines \cup {NONE}, dirty : BOOLEAN, fresh : SUBSET Words]
      BY <3>1
    <3> QED
      BY <1>1, <3>2
  <2>3. icache' \in [ISets -> [line : Lines \cup {NONE}, fresh : SUBSET Words]]
    BY <1>1 DEF IInv, TypeOK
  <2>4. /\ blocks' \subseteq [first : Ends, end : Ends] /\ boot' \in {"copy", "dcache", "run"}
        /\ handed' \in [to : {"device", "fetch"}, words : SUBSET Words]
        /\ given' \subseteq Words
    BY <1>1, <1>2 DEF IInv, TypeOK
  <2> QED
    BY <2>1, <2>2, <2>3, <2>4 DEF TypeOK
<1>4. \A s \in DSets : /\ dcache'[s].line = dcache[s].line /\ dcache'[s].dirty = dcache[s].dirty
                       /\ dcache'[s].fresh = dcache[s].fresh \ {w}
  BY <1>1 DEF IInv, TypeOK
<1>5. \A v \in Words : dset[v[1]] \in DSets
  BY WordType
<1>6. ~Cached(w)
  BY <1>1 DEF IInv, Apart
<1>7. Copies' /\ Kept'
  BY <1>1, <1>4, <1>5, <1>6 DEF IInv, DataInv, Copies, Kept, Known, Cached, FreshCopy
<1>8. Apart'
  BY <1>1, <1>4, <1>5 DEF IInv, Apart, Cached, Uncached
<1>9. WholeLines' /\ Reached'
  BY <1>1, <1>2 DEF IInv, WholeLines, Reached, Known
<1>10. ExecutesLast'
  <2>1. \A s \in ISets : /\ icache'[s].line = icache[s].line
                         /\ icache'[s].fresh = icache[s].fresh \ {w}
    BY <1>1 DEF IInv, TypeOK
  <2>2. \A v \in handed.words : v \in Words /\ iset[v[1]] \in ISets
    BY WordType DEF IInv, TypeOK
  <2> QED
    BY <1>1, <1>2, <2>1, <2>2 DEF IInv, ExecutesLast
<1> QED
  BY <1>3, <1>7, <1>8, <1>9, <1>10 DEF IInv, DataInv

LEMMA FetchStep ==
  ASSUME IInv, NEW l \in Lines, Fetch(l)
  PROVE  IInv'
<1>1. /\ UNCHANGED <<memory, dcache, blocks, boot, handed, given>>
      /\ icache' = [icache EXCEPT ![iset[l]] = [line |-> l, fresh |-> memory \cap Of({l})]]
      /\ iset[l] \in ISets
  BY CacheConstants DEF Fetch, CacheConstants
<1>2. TypeOK'
  BY <1>1 DEF IInv, TypeOK
<1>3. WholeLines' /\ DataInv' /\ Apart' /\ Reached'
  BY <1>1 DEF IInv, WholeLines, DataInv, Copies, Kept, Known, Apart, Reached, Cached, FreshCopy, Uncached
<1>4. ExecutesLast'
  <2> SUFFICES ASSUME boot = "run", handed.to = "fetch", NEW w \in handed.words \ given,
                      icache'[iset[w[1]]].line = w[1]
               PROVE  w \in icache'[iset[w[1]]].fresh
    BY <1>1 DEF ExecutesLast
  <2>1. w \in Words /\ iset[w[1]] \in ISets /\ w \in memory
    BY WordType DEF IInv, TypeOK, Reached, Known
  <2>2. CASE iset[w[1]] = iset[l]
    BY <1>1, <2>1, <2>2 DEF IInv, TypeOK, Of
  <2>3. CASE iset[w[1]] # iset[l]
    BY <1>1, <2>1, <2>3 DEF IInv, TypeOK, ExecutesLast
  <2> QED
    BY <2>2, <2>3
<1> QED
  BY <1>2, <1>3, <1>4 DEF IInv

-----------------------------------------------------------------------------
\* The places of the first lines of the memory are all there are.
LEMMA AllFlushed ==
  ASSUME NEW w \in Words
  PROVE  w[1] \in {l \in Lines : \E k \in 0..(DLines - 1) : dset[k] = dset[l]}
<1>1. dset[w[1]] \in 0..(DLines - 1) /\ w[1] \in Lines
  BY WordType DEF DSets
<1>2. dset[dset[w[1]]] = dset[w[1]]
  BY <1>1, CacheConstants DEF CacheConstants, DSets
<1> QED
  BY <1>1, <1>2

\* A flush of the data cache, of lines in which are the words handed over.
LEMMA DataFlushStep ==
  ASSUME IInv, NEW L, FlushData(L), UNCHANGED <<icache, blocks, given>>,
         handed' \in [to : {"device", "fetch"}, words : SUBSET Words],
         boot' \in {"dcache", "run"}, boot = "run" => boot' = "run",
         handed'.to = "device" \/ boot' # "run",
         \A w \in handed'.words : w[1] \in L
  PROVE  IInv'
<1>1. Flushed(L)
  BY FlushKeeps DEF IInv
<1>2. TypeOK' /\ WholeLines' /\ DataInv'
  BY <1>1 DEF IInv, TypeOK, WholeLines, Flushed
<1>3. Apart'
  BY <1>1 DEF IInv, Apart, Flushed, Uncached
<1>4. Reached' /\ ExecutesLast'
  BY <1>1 DEF Reached, ExecutesLast, Flushed
<1> QED
  BY <1>2, <1>3, <1>4 DEF IInv

\* A flush of the instruction cache, by which the words handed over leave it.
LEMMA CodeFlushStep ==
  ASSUME IInv, NEW L, EmptyPlaces(L), UNCHANGED <<memory, dcache, blocks, given>>,
         handed' \in [to : {"device", "fetch"}, words : SUBSET Words],
         boot # "copy", boot' = "run", handed'.words \subseteq handed.words,
         \A w \in handed'.words : \E l \in L : iset[l] = iset[w[1]]
  PROVE  IInv'
<1>1. TypeOK'
  BY DEF IInv, TypeOK, EmptyPlaces
<1>2. WholeLines' /\ DataInv' /\ Apart' /\ Reached'
  BY DEF IInv, WholeLines, DataInv, Copies, Kept, Known, Apart, Reached, Cached, FreshCopy, Uncached
<1>3. ExecutesLast'
  <2> SUFFICES ASSUME NEW w \in handed'.words
               PROVE  icache'[iset[w[1]]].line # w[1]
    BY DEF ExecutesLast
  <2>1. w \in Words /\ iset[w[1]] \in ISets /\ w[1] # NONE
    BY WordType
  <2>2. icache'[iset[w[1]]] = [line |-> NONE, fresh |-> {}]
    BY <2>1 DEF EmptyPlaces
  <2> QED
    BY <2>1, <2>2
<1> QED
  BY <1>1, <1>2, <1>3 DEF IInv

-----------------------------------------------------------------------------
LEMMA HandedType ==
  ASSUME NEW to \in {"device", "fetch"}, NEW words \in SUBSET Words
  PROVE  /\ Handed(to, words) \in [to : {"device", "fetch"}, words : SUBSET Words]
         /\ Handed(to, words).to = to /\ Handed(to, words).words = words
  BY DEF Handed

LEMMA DcacheStep ==
  ASSUME IInv,
         \/ LoadFlushData \/ alt_dcache_flush_all
         \/ \E start \in Words, end \in Ends : alt_dcache_flush(start, end)
  PROVE  IInv'
<1> DEFINE All == {l \in Lines : \E k \in 0..(DLines - 1) : dset[k] = dset[l]}
<1>1. \A w \in Words : w[1] \in All
  BY AllFlushed
<1> HIDE DEF All
<1>2. CASE LoadFlushData
  <2>1. /\ boot' = "dcache" /\ boot = "copy" /\ FlushData(All)
        /\ UNCHANGED <<icache, blocks, handed, given>>
    BY <1>2 DEF LoadFlushData, All
  <2>2. handed \in [to : {"device", "fetch"}, words : SUBSET Words]
    BY DEF IInv, TypeOK
  <2> QED
    BY <1>1, <2>1, <2>2, DataFlushStep
<1>3. CASE alt_dcache_flush_all
  <2>1. /\ boot = "run" /\ boot' = "run" /\ FlushData(All) /\ UNCHANGED <<icache, blocks, given>>
        /\ handed' = Handed("device", Words \ Uncached)
    BY <1>3 DEF alt_dcache_flush_all, All
  <2>2. /\ handed' \in [to : {"device", "fetch"}, words : SUBSET Words]
        /\ handed'.to = "device" /\ handed'.words = Words \ Uncached
    BY <2>1, HandedType
  <2>3. \A w \in handed'.words : w[1] \in All
    BY <1>1, <2>2
  <2> QED
    BY <2>1, <2>2, <2>3, DataFlushStep
<1>4. ASSUME NEW start \in Words, NEW end \in Ends, alt_dcache_flush(start, end)
      PROVE  IInv'
  <2>1. /\ boot = "run" /\ boot' = "run" /\ FlushData(LinesFlushed(start, end))
        /\ UNCHANGED <<icache, blocks, given>>
        /\ handed' = Handed("device", Region(start, end) \ Uncached)
    BY <1>4 DEF alt_dcache_flush
  <2>2. Region(start, end) \subseteq Words
    BY DEF Region
  <2>3. /\ handed' \in [to : {"device", "fetch"}, words : SUBSET Words]
        /\ handed'.to = "device" /\ handed'.words = Region(start, end) \ Uncached
    BY <2>1, <2>2, HandedType
  <2>4. \A w \in handed'.words : w[1] \in LinesFlushed(start, end)
    BY <2>3, LinesCover
  <2> QED
    BY <2>1, <2>3, <2>4, DataFlushStep
<1> QED
  BY <1>2, <1>3, <1>4

\* Of a line that is dropped, the words have reached the memory or are given up.
LEMMA NoWritebackStep ==
  ASSUME IInv, NEW start \in Words, NEW end \in Ends, alt_dcache_flush_no_writeback(start, end)
  PROVE  IInv'
<1> DEFINE L == LinesFlushed(start, end)
           G == AtStake(start, end)
<1>1. /\ boot = "run" /\ dcache' = [s \in DSets |-> IF dcache[s].line \in L THEN Empty ELSE dcache[s]]
      /\ given' = given \cup (Of(G) \ memory)
      /\ UNCHANGED <<memory, icache, blocks, boot, handed>>
  BY DEF alt_dcache_flush_no_writeback
<1>2. \A l \in L : l \in G
  BY LinesAtStake
<1> HIDE DEF L, G
<1>3. given \subseteq given' /\ \A w \in Words : w[1] \in L => w \in Known'
  BY <1>1, <1>2 DEF Of, Known
<1>4. TypeOK'
  <2>1. dcache' \in [DSets -> [line : Lines \cup {NONE}, dirty : BOOLEAN, fresh : SUBSET Words]]
    BY <1>1 DEF IInv, TypeOK, Empty
  <2> QED
    BY <1>1, <2>1 DEF IInv, TypeOK, Of
<1>5. ASSUME NEW w \in Words
      PROVE  /\ Cached(w)' => Cached(w) /\ dcache'[dset[w[1]]] = dcache[dset[w[1]]]
             /\ Cached(w) /\ w[1] \notin L => dcache'[dset[w[1]]] = dcache[dset[w[1]]]
  <2>1. dcache'[dset[w[1]]] = IF dcache[dset[w[1]]].line \in L THEN Empty ELSE dcache[dset[w[1]]]
    BY <1>1, WordType
  <2>2. Empty.line = NONE /\ w[1] # NONE
    BY WordType DEF Empty
  <2> QED
    BY <2>1, <2>2 DEF Cached
<1>6. Copies'
  BY <1>3, <1>5 DEF IInv, DataInv, Copies, Cached, FreshCopy
<1>7. Kept'
  BY <1>1, <1>3, <1>5 DEF IInv, DataInv, Kept, Known, Cached
<1>8. Apart' /\ WholeLines'
  BY <1>1, <1>5 DEF IInv, Apart, Uncached, WholeLines
<1>9. Reached' /\ ExecutesLast'
  BY <1>1, <1>3 DEF IInv, Reached, Known, ExecutesLast
<1> QED
  BY <1>4, <1>6, <1>7, <1>8, <1>9 DEF IInv, DataInv

-----------------------------------------------------------------------------
\* As many lines as the instruction cache has take all its places.
LEMMA PlacesCover ==
  ASSUME NEW start \in Words, start[1] + ILines <= Top, NEW s \in ISets
  PROVE  \E l \in LinesFlushed(start, <<start[1] + ILines, start[2]>>) : iset[l] = s
<1> DEFINE end == <<start[1] + ILines, start[2]>>
<1>1. start[1] \in Lines /\ start[1] \in Int /\ start[2] \in Int /\ ILines \in Int /\ Top \in Int
      /\ start[1] >= 0
  BY WordType, CacheConstants DEF CacheConstants, Lines
<1>2. PICK k \in start[1]..(start[1] + ILines - 1) : iset[k] = s
  BY <1>1, CacheConstants DEF CacheConstants
<1>3. k \in Lines /\ start[1] <= k /\ k < start[1] + ILines
  BY <1>1, <1>2 DEF Lines
<1>4. <<k, start[2]>>[1] = k /\ <<k, start[2]>>[2] = start[2] /\ end[1] = start[1] + ILines
  OBVIOUS
<1>5. Before(<<k, start[2]>>, end)
  BY <1>3, <1>4 DEF Before
<1>6. k \in LinesFlushed(start, end)
  BY <1>3, <1>5 DEF LinesFlushed
<1> QED
  BY <1>2, <1>6

LEMMA IcacheStep ==
  ASSUME IInv,
         \/ LoadFlushCode \/ alt_icache_flush_all
         \/ \E start \in Words, end \in Ends : alt_icache_flush(start, end)
  PROVE  IInv'
<1> DEFINE first == <<0, 0>>
           All == LinesFlushed(<<0, 0>>, <<ILines, 0>>)
<1>1. \A w \in Words : \E l \in All : iset[l] = iset[w[1]]
  <2>1. first \in Words /\ first[1] = 0 /\ first[2] = 0 /\ ILines \in Int /\ ILines <= Top
    BY CacheConstants DEF CacheConstants, Words, Lines, Offsets
  <2>2. <<first[1] + ILines, first[2]>> = <<ILines, 0>>
    BY <2>1
  <2>3. \A s \in ISets : \E l \in LinesFlushed(first, <<first[1] + ILines, first[2]>>) : iset[l] = s
    <3>1. first[1] + ILines <= Top
      BY <2>1
    <3> HIDE DEF first
    <3> QED
      BY <2>1, <3>1, PlacesCover
  <2> QED
    BY <2>2, <2>3, WordType
<1> HIDE DEF All
<1>2. handed.words \subseteq Words /\ handed \in [to : {"device", "fetch"}, words : SUBSET Words]
  BY DEF IInv, TypeOK
<1>3. CASE LoadFlushCode
  <2>1. /\ boot = "dcache" /\ boot' = "run" /\ EmptyPlaces(All)
        /\ UNCHANGED <<memory, dcache, blocks, handed, given>>
    BY <1>3 DEF LoadFlushCode, All
  <2>2. \A w \in handed'.words : \E l \in All : iset[l] = iset[w[1]]
    BY <1>1, <1>2, <2>1
  <2> QED
    BY <1>2, <2>1, <2>2, CodeFlushStep
<1>4. CASE alt_icache_flush_all
  <2>1. /\ boot = "run" /\ boot' = "run" /\ EmptyPlaces(All)
        /\ UNCHANGED <<memory, dcache, blocks, given>> /\ handed' = Handed("fetch", handed.words)
    BY <1>4 DEF alt_icache_flush_all, All
  <2>2. /\ handed' \in [to : {"device", "fetch"}, words : SUBSET Words]
        /\ handed'.words = handed.words
    BY <1>2, <2>1, HandedType
  <2>3. \A w \in handed'.words : \E l \in All : iset[l] = iset[w[1]]
    BY <1>1, <1>2, <2>2
  <2> QED
    BY <2>1, <2>2, <2>3, CodeFlushStep
<1>5. ASSUME NEW start \in Words, NEW end \in Ends, alt_icache_flush(start, end)
      PROVE  IInv'
  <2> DEFINE L == LinesFlushed(start, Cut(start, end))
             words == Region(start, end) \cap handed.words
  <2>1. /\ boot = "run" /\ boot' = "run" /\ EmptyPlaces(L)
        /\ UNCHANGED <<memory, dcache, blocks, given>> /\ handed' = Handed("fetch", words)
    BY <1>5 DEF alt_icache_flush
  <2>2. \A w \in words : w \in Words
    BY <1>2
  <2>3. ASSUME Before(<<start[1] + ILines, start[2]>>, end)
        PROVE  \A w \in words : \E l \in L : iset[l] = iset[w[1]]
    <3>1. start[1] \in Int /\ start[2] \in Int /\ ILines \in Int
          /\ <<start[1] + ILines, start[2]>>[1] = start[1] + ILines
      BY WordType, CacheConstants DEF CacheConstants
    <3>2. end[1] \in Int /\ end[1] <= Top
      <4>1. CASE end \in Words
        BY <4>1, WordType, CacheConstants DEF Lines, CacheConstants
      <4>2. CASE end = <<Top, 0>>
        BY <4>2, CacheConstants DEF CacheConstants
      <4> QED
        BY <4>1, <4>2 DEF Ends
    <3>3. start[1] + ILines <= Top
      BY <2>3, <3>1, <3>2, CacheConstants DEF Before, CacheConstants
    <3>4. L = LinesFlushed(start, <<start[1] + ILines, start[2]>>)
      BY <2>3 DEF Cut
    <3> QED
      BY <2>2, <3>3, <3>4, PlacesCover, WordType
  <2>4. ASSUME ~Before(<<start[1] + ILines, start[2]>>, end)
        PROVE  \A w \in words : \E l \in L : iset[l] = iset[w[1]]
    <3>1. L = LinesFlushed(start, end)
      BY <2>4 DEF Cut
    <3> QED
      BY <3>1, LinesCover
  <2>5. \A w \in words : \E l \in L : iset[l] = iset[w[1]]
    BY <2>3, <2>4
  <2>6. /\ handed' \in [to : {"device", "fetch"}, words : SUBSET Words]
        /\ handed'.words = words /\ words \subseteq handed.words
    BY <1>2, <2>1, HandedType
  <2> HIDE DEF L, words
  <2> QED
    BY <2>1, <2>5, <2>6, CodeFlushStep
<1> QED
  BY <1>3, <1>4, <1>5

-----------------------------------------------------------------------------
LEMMA MallocStep ==
  ASSUME IInv, NEW size \in Sizes, alt_uncached_malloc(size)
  PROVE  IInv'
<1>1. PICK b \in {[first |-> <<l, 0>>, end |-> <<l + AlignedSize(size)[1], AlignedSize(size)[2]>>]
                    : l \in Lines} :
         /\ ~Before(<<Top, 0>>, b.end) /\ blocks' = blocks \cup {b}
         /\ FlushData(LinesFlushed(b.first, b.end))
         /\ handed' = Nothing /\ UNCHANGED <<icache, boot, given>> /\ boot = "run"
  BY DEF alt_uncached_malloc
<1>2. PICK l \in Lines : b = [first |-> <<l, 0>>,
                              end |-> <<l + AlignedSize(size)[1], AlignedSize(size)[2]>>]
  BY <1>1
<1>3. /\ l \in Int /\ l >= 0 /\ l < Top /\ Top \in Int /\ LINE \in Int /\ LINE > 0
  BY CacheConstants DEF Lines, CacheConstants
<1>4. /\ AlignedSize(size)[2] = 0 /\ AlignedSize(size)[1] \in Int /\ AlignedSize(size)[1] >= 0
  BY DEF Sizes, AlignedSize, Offsets
<1> DEFINE n == l + AlignedSize(size)[1]
<1>5. b.first = <<l, 0>> /\ b.end = <<n, 0>> /\ n \in Int /\ n >= 0
  BY <1>2, <1>3, <1>4
<1> HIDE DEF n
<1>6. n <= Top
  <2>1. ~Before(<<Top, 0>>, <<n, 0>>) /\ <<Top, 0>>[1] = Top /\ <<n, 0>>[1] = n
    BY <1>1, <1>5
  <2> QED
    BY <1>3, <1>5, <2>1 DEF Before
<1>7. b.first \in Words /\ b.end \in Ends
  <2>1. <<l, 0>> \in Words
    BY <1>3 DEF Words, Lines, Offsets
  <2>2. n < Top => <<n, 0>> \in Words
    BY <1>3, <1>5 DEF Words, Lines, Offsets
  <2>3. n = Top \/ n < Top
    BY <1>3, <1>5, <1>6
  <2> QED
    BY <1>5, <2>1, <2>2, <2>3 DEF Ends
<1>8. b.first[2] = 0 /\ b.end[2] = 0 /\ b \in [first : Ends, end : Ends]
  BY <1>2, <1>5, <1>7 DEF Ends
<1>9. Flushed(LinesFlushed(b.first, b.end))
  BY <1>1, FlushKeeps DEF IInv
<1>10. Nothing \in [to : {"device", "fetch"}, words : SUBSET Words] /\ Nothing.words = {}
       /\ Nothing.to = "device"
  BY DEF Nothing, Handed
<1>11. TypeOK' /\ WholeLines'
  BY <1>1, <1>8, <1>9, <1>10 DEF IInv, TypeOK, WholeLines, Flushed
<1>12. Apart'
  <2> SUFFICES ASSUME NEW w \in Words, w \in Uncached', Cached(w)'
               PROVE  FALSE
    BY DEF Apart
  <2>1. Cached(w) /\ w[1] \notin LinesFlushed(b.first, b.end)
    BY <1>9 DEF Flushed
  <2>2. w \in Uncached \/ w \in Region(b.first, b.end)
    BY <1>1 DEF Uncached
  <2>3. w \in Region(b.first, b.end) => w[1] \in LinesFlushed(b.first, b.end)
    BY <1>7, LinesCover
  <2> QED
    BY <2>1, <2>2, <2>3 DEF IInv, Apart
<1>13. Reached' /\ ExecutesLast'
  BY <1>1, <1>10 DEF Reached, ExecutesLast
<1> QED
  BY <1>9, <1>11, <1>12, <1>13 DEF IInv, Flushed

LEMMA FreeStep ==
  ASSUME IInv, NEW b \in blocks, alt_uncached_free(b)
  PROVE  IInv'
<1>1. blocks' \subseteq blocks /\ UNCHANGED <<memory, dcache, icache, boot, handed, given>>
  BY DEF alt_uncached_free
<1>2. TypeOK' /\ WholeLines' /\ DataInv' /\ Reached' /\ ExecutesLast'
  BY <1>1 DEF IInv, TypeOK, WholeLines, DataInv, Copies, Kept, Known, Cached, FreshCopy, Reached, ExecutesLast
<1>3. Apart'
  BY <1>1 DEF IInv, Apart, Uncached, Cached
<1> QED
  BY <1>2, <1>3 DEF IInv

-----------------------------------------------------------------------------
LEMMA InitInv == Init => IInv
<1> SUFFICES ASSUME Init PROVE IInv
  OBVIOUS
<1>1. handed \in [to : {"device", "fetch"}, words : SUBSET Words]
  BY DEF Init, Handed
<1>2. TypeOK
  BY <1>1 DEF Init, TypeOK, Empty
<1>3. \A w \in Words : ~Cached(w)
  BY WordType DEF Init, Cached, Empty
<1> QED
  BY <1>2, <1>3 DEF Init, IInv, WholeLines, DataInv, Copies, Kept, Known, Apart, Reached, ExecutesLast

LEMMA NextInv == IInv /\ [Next]_vars => IInv'
<1> SUFFICES ASSUME IInv, [Next]_vars PROVE IInv'
  OBVIOUS
<1>1. CASE \E w \in Words : Load(w) \/ Store(w) \/ StoreUncached(w) \/ alt_load_section(w)
  BY <1>1, LoadStep, StoreStep, StoreUncachedStep, SectionStep
<1>2. CASE \E l \in Lines : Fetch(l)
  BY <1>2, FetchStep
<1>3. CASE LoadFlushData \/ LoadFlushCode \/ alt_dcache_flush_all \/ alt_icache_flush_all
  BY <1>3, DcacheStep, IcacheStep
<1>4. CASE \E start \in Words, end \in Ends :
             \/ alt_dcache_flush(start, end) \/ alt_icache_flush(start, end)
             \/ alt_dcache_flush_no_writeback(start, end)
  BY <1>4, DcacheStep, IcacheStep, NoWritebackStep
<1>5. CASE \/ \E size \in Sizes : alt_uncached_malloc(size)
           \/ \E b \in blocks : alt_uncached_free(b)
  BY <1>5, MallocStep, FreeStep
<1>6. CASE UNCHANGED vars
  BY <1>6 DEF vars, IInv, TypeOK, WholeLines, DataInv, Copies, Kept, Known, Apart, Uncached, Cached,
              FreshCopy, Reached, ExecutesLast
<1> QED
  BY <1>1, <1>2, <1>3, <1>4, <1>5, <1>6 DEF Next

LEMMA InvCoherent == IInv => Coherent
  BY DEF IInv, DataInv, Copies, Kept, Known, Apart, Reached, Coherent, LoadsLast, DevicesReadLast,
         ExecutesLast

\* Every load returns the last word stored, a device reads what was flushed and the
\* processor executes what was loaded or flushed: whatever lines share a place in a
\* cache, wherever the regions of all flushes start and end, and whichever blocks are
\* uncached. The only words it does not hold of are those with a store that had not
\* reached the memory when a flush without write-back put their line at stake (AtStake),
\* until they are stored to again.
THEOREM KeepsInStep == Spec => []Coherent
<1>1. Spec => []IInv
  BY InitInv, NextInv, PTL DEF Spec
<1> QED
  BY <1>1, InvCoherent, PTL

-----------------------------------------------------------------------------
\* The clock.

Period == ALT_US \div Rate
Fits == MaxSetTick * Period < Word

Instant(t) == t.tv_sec * ALT_US + t.tv_usec

ClockTypeOK ==
  /\ _alt_tick_rate \in {0, Rate} /\ _alt_nticks \in Nat /\ now \in Nat
  /\ alt_resettime \in [tv_sec : Int, tv_usec : Int]
  /\ got \in [at : Int, tv_sec : Int, tv_usec : Int]
  /\ set # T!Idle => set \in [tv_sec : Nat, tv_usec : 0..(ALT_US - 1), nticks : 0..MaxSetTick]

\* The time is what was set last and the ticks since; before it is stored, settimeofday
\* holds it.
WallInv ==
  /\ _alt_tick_rate = 0 => /\ set = T!Idle /\ _alt_nticks = 0
  /\ set = T!Idle => now = Instant(alt_resettime) + _alt_nticks * Period
  /\ set # T!Idle => now + set.nticks * Period = Instant(set) + _alt_nticks * Period
  /\ T!WallClock

ClockInv == ClockTypeOK /\ WallInv

StampTypeOK ==
  /\ ts_freq \in {0, Freq}
  /\ timer \in [counter : 0..T!Full, snap : 0..T!Full, runs : BOOLEAN]
  /\ stamp \in [age : Int, lower : Int, answer : Int]

\* The counts since the start are what the timer has counted down, and a reading that is
\* under way belongs to the moment of its snapshot.
StampInv ==
  /\ StampTypeOK
  /\ age = T!Full - timer.counter
  /\ stamp.age = T!NONE => stamp.lower = T!NONE /\ stamp.answer = T!NONE
  /\ stamp.age # T!NONE /\ stamp.answer = T!NONE => stamp.age = T!Full - timer.snap
  /\ stamp.lower # T!NONE => stamp.lower = timer.snap % HALF
  /\ T!StampOfAnInstant

\* Division with remainder.
LEMMA Divided ==
  ASSUME NEW d \in Nat \ {0}, NEW a \in Int
  PROVE  /\ a \div d \in Int /\ a % d \in 0..(d - 1) /\ a = (a \div d) * d + (a % d)
         /\ a \in Nat => a \div d \in Nat
  OBVIOUS

\* Quotient and remainder are the only ones.
LEMMA Unique ==
  ASSUME NEW d \in Nat \ {0}, NEW k \in Int, NEW s \in 0..(d - 1), NEW a \in Int, a = k * d + s
  PROVE  a \div d = k /\ a % d = s
<1>. DEFINE q == a \div d
            m == a % d
<1>1. q \in Int /\ m \in 0..(d - 1) /\ a = q * d + m
  BY Divided
<1>. HIDE DEF q, m
<1>2. CASE q > k
  <2>1. PICK e \in Nat : q = k + 1 + e
    <3>1. q - k - 1 \in Nat /\ q = k + 1 + (q - k - 1)
      BY <1>1, <1>2
    <3>. QED BY <3>1
  <2>2. q * d = k * d + d + e * d /\ e * d >= 0
    BY <2>1
  <2>. QED BY <1>1, <2>2
<1>3. CASE q < k
  <2>1. PICK e \in Nat : k = q + 1 + e
    <3>1. k - q - 1 \in Nat /\ k = q + 1 + (k - q - 1)
      BY <1>1, <1>3
    <3>. QED BY <3>1
  <2>2. k * d = q * d + d + e * d /\ e * d >= 0
    BY <1>1, <2>1
  <2>. QED BY <1>1, <2>2
<1>4. CASE q = k
  BY <1>1, <1>4 DEF q, m
<1>. QED BY <1>1, <1>2, <1>3, <1>4

\* A second is a whole number of periods.
LEMMA Periods ==
  Period \in Nat /\ Rate * Period = ALT_US
BY TimesConstants, Divided DEF Period

\* The ticks of whole seconds and the microseconds of the others are all the ticks.
LEMMA Seconds ==
  ASSUME NEW n \in Nat
  PROVE  /\ n * Period \in Nat
         /\ n \div Rate \in Nat
         /\ (n * Period) % ALT_US \in 0..(ALT_US - 1)
         /\ (n \div Rate) * ALT_US + ((n * Period) % ALT_US) = n * Period
<1>1. Rate \in Nat \ {0} /\ ALT_US \in Nat \ {0} /\ Period \in Nat /\ Rate * Period = ALT_US
  BY TimesConstants, Periods
<1>. DEFINE q == n \div Rate
            r == n % Rate
<1>2. q \in Nat /\ r \in 0..(Rate - 1) /\ n = q * Rate + r
  <2>. DEFINE d == Rate
  <2>1. d \in Nat \ {0} /\ n \in Int
    BY <1>1
  <2>. HIDE DEF d
  <2>2. n \div d \in Nat /\ n % d \in 0..(d - 1) /\ n = (n \div d) * d + (n % d)
    BY <2>1, Divided
  <2>. QED BY <2>2 DEF d
<1>. HIDE DEF q, r
<1>3. n * Period = q * ALT_US + r * Period
  <2>1. n * Period = (q * Rate) * Period + r * Period
    BY <1>1, <1>2
  <2>2. (q * Rate) * Period = q * (Rate * Period)
    BY <1>1, <1>2
  <2>. QED BY <1>1, <2>1, <2>2
<1>4. Period > 0
  BY <1>1
<1>5. r * Period \in 0..(ALT_US - 1)
  <2>1. r * Period \in Nat
    BY <1>1, <1>2
  <2>2. PICK e \in Nat : Rate = r + 1 + e
    <3>1. Rate - r - 1 \in Nat /\ Rate = r + 1 + (Rate - r - 1)
      BY <1>1, <1>2
    <3>. QED BY <3>1
  <2>3. ALT_US = r * Period + Period + e * Period /\ e * Period \in Nat
    BY <1>1, <1>2, <2>2
  <2>. QED BY <1>1, <1>4, <2>1, <2>3
<1>6. n * Period \in Nat
  BY <1>1
<1>7. (n * Period) % ALT_US = r * Period
  BY <1>1, <1>2, <1>3, <1>5, <1>6, Unique
<1>. QED BY <1>1, <1>2, <1>3, <1>5, <1>6, <1>7 DEF q

\* gettimeofday's loops do not change the instant.
LEMMA Normalised ==
  ASSUME NEW sec \in Int, NEW usec \in Int, sec * ALT_US + usec \in Nat
  PROVE  /\ Instant(T!Normal(sec, usec)) = sec * ALT_US + usec
         /\ T!Normal(sec, usec).tv_sec \in Int /\ T!Normal(sec, usec).tv_usec \in 0..(ALT_US - 1)
<1>. DEFINE q == usec \div ALT_US
            r == usec % ALT_US
<1>1. ALT_US \in Nat \ {0} /\ q \in Int /\ r \in 0..(ALT_US - 1) /\ usec = q * ALT_US + r
  BY TimesConstants, Divided
<1>. HIDE DEF q, r
<1>2. sec * ALT_US + usec = (sec + q) * ALT_US + r
  BY <1>1
<1>3. sec + q >= 0
  <2>. SUFFICES ASSUME sec + q < 0 PROVE FALSE
    BY <1>1
  <2>1. PICK e \in Nat : sec + q = -1 - e
    <3>1. -1 - (sec + q) \in Nat /\ sec + q = -1 - (-1 - (sec + q))
      BY <1>1
    <3>. QED BY <3>1
  <2>2. (sec + q) * ALT_US = -ALT_US - e * ALT_US /\ e * ALT_US \in Nat
    BY <1>1, <2>1
  <2>. QED BY <1>1, <1>2, <2>2
<1>4. T!Normal(sec, usec) = [tv_sec |-> sec + q, tv_usec |-> r]
  BY <1>1, <1>3 DEF T!Normal, q, r
<1>. QED BY <1>1, <1>2, <1>4 DEF Instant

\* Before the clock is registered it stands at zero.
LEMMA WallInit == T!Init => ClockInv
<1>. SUFFICES ASSUME T!Init PROVE ClockInv
  OBVIOUS
<1>1. /\ _alt_tick_rate = 0 /\ _alt_nticks = 0 /\ now = 0 /\ set = T!Idle
      /\ alt_resettime = [tv_sec |-> 0, tv_usec |-> 0]
      /\ got = [at |-> T!NONE, tv_sec |-> T!NONE, tv_usec |-> T!NONE]
  BY DEF T!Init
<1>2. ClockTypeOK
  BY <1>1 DEF ClockTypeOK, T!NONE
<1>3. Instant(alt_resettime) = 0 /\ _alt_nticks * Period = 0
  BY <1>1, TimesConstants, Periods DEF Instant
<1>4. WallInv
  BY <1>1, <1>3 DEF WallInv, T!WallClock
<1>. QED BY <1>2, <1>4 DEF ClockInv

\* A tick comes, also in the middle of settimeofday.
LEMMA TickStep ==
  ASSUME ClockInv, T!alt_tick
  PROVE  ClockInv'
<1>1. /\ _alt_tick_rate = Rate /\ _alt_nticks' = _alt_nticks + 1 /\ now' = now + T!Usec(1)
      /\ UNCHANGED <<_alt_tick_rate, alt_resettime, set, got>> /\ _alt_nticks \in Nat /\ now \in Nat
      /\ Rate # 0
  BY TimesConstants DEF ClockInv, ClockTypeOK, T!alt_tick
<1>2. Period \in Nat /\ now' = now + Period
  BY <1>1, Periods DEF T!Usec, Period
<1>3. ClockTypeOK'
  BY <1>1, <1>2 DEF ClockInv, ClockTypeOK
<1>4. (_alt_nticks + 1) * Period = _alt_nticks * Period + Period /\ _alt_nticks * Period \in Nat
  BY <1>1, <1>2
<1>5. Instant(alt_resettime) \in Int
  BY TimesConstants DEF ClockInv, ClockTypeOK, Instant
<1>6. set # T!Idle => Instant(set) \in Int /\ set.nticks * Period \in Int
  BY <1>2, TimesConstants DEF ClockInv, ClockTypeOK, Instant
<1>7. WallInv'
  <2>1. set = T!Idle => now' = Instant(alt_resettime) + _alt_nticks' * Period
    BY <1>1, <1>2, <1>4, <1>5 DEF ClockInv, WallInv
  <2>2. set # T!Idle => now' + set.nticks * Period = Instant(set) + _alt_nticks' * Period
    BY <1>1, <1>2, <1>4, <1>6 DEF ClockInv, WallInv
  <2>. QED BY <1>1, <2>1, <2>2 DEF ClockInv, WallInv, T!WallClock
<1>. QED BY <1>3, <1>7 DEF ClockInv

\* The clock is registered.
LEMMA SysclkStep ==
  ASSUME ClockInv, T!alt_sysclk_init
  PROVE  ClockInv'
<1>1. /\ _alt_tick_rate' = Rate /\ UNCHANGED <<_alt_nticks, alt_resettime, set, now, got>>
  BY DEF T!alt_sysclk_init
<1>. QED BY <1>1, TimesConstants DEF ClockInv, ClockTypeOK, WallInv, T!WallClock, Instant

\* settimeofday reads the ticks.
LEMMA SetReadStep ==
  ASSUME ClockInv, NEW t \in Times, T!SetRead(t)
  PROVE  ClockInv'
<1>1. /\ set = T!Idle /\ _alt_nticks <= MaxSetTick
      /\ UNCHANGED <<_alt_tick_rate, _alt_nticks, alt_resettime, got>>
  BY DEF T!SetRead
<1>2. CASE _alt_tick_rate = 0
  <2>1. UNCHANGED <<set, now>>
    BY <1>2 DEF T!SetRead
  <2>. QED BY <1>1, <2>1 DEF ClockInv, ClockTypeOK, WallInv, T!WallClock
<1>3. CASE _alt_tick_rate # 0
  <2>1. /\ set' = [tv_sec |-> t.tv_sec, tv_usec |-> t.tv_usec, nticks |-> _alt_nticks]
        /\ now' = t.tv_sec * ALT_US + t.tv_usec
    BY <1>3 DEF T!SetRead
  <2>2. t.tv_sec \in Nat /\ t.tv_usec \in 0..(ALT_US - 1) /\ ALT_US \in Nat \ {0}
        /\ _alt_nticks \in 0..MaxSetTick /\ MaxSetTick \in Nat
    BY <1>1, TimesConstants DEF ClockInv, ClockTypeOK
  <2>3. /\ set'.tv_sec = t.tv_sec /\ set'.tv_usec = t.tv_usec /\ set'.nticks = _alt_nticks
        /\ set' \in [tv_sec : Nat, tv_usec : 0..(ALT_US - 1), nticks : 0..MaxSetTick]
    BY <2>1, <2>2
  <2>4. set' # T!Idle
    BY <2>2, <2>3 DEF T!Idle, T!NONE
  <2>5. now' = Instant(set') /\ now' \in Nat
    <3>1. t.tv_sec * ALT_US \in Nat
      BY <2>2
    <3>. QED BY <2>1, <2>2, <2>3, <3>1 DEF Instant
  <2>6. ClockTypeOK'
    BY <1>1, <2>3, <2>5 DEF ClockInv, ClockTypeOK
  <2>7. _alt_nticks * Period \in Nat
    BY <2>2, Periods
  <2>8. WallInv'
    BY <1>1, <1>3, <2>3, <2>4, <2>5, <2>7 DEF ClockInv, WallInv, T!WallClock
  <2>. QED BY <2>6, <2>8 DEF ClockInv
<1>. QED BY <1>2, <1>3

\* settimeofday stores what the clock read at tick 0.
LEMMA SetStoreStep ==
  ASSUME Fits, ClockInv, T!SetStore
  PROVE  ClockInv'
<1>1. /\ set # T!Idle /\ set' = T!Idle
      /\ alt_resettime' = [tv_sec  |-> set.tv_sec - (set.nticks \div _alt_tick_rate),
                           tv_usec |-> set.tv_usec - T!UsecInWord(set.nticks)]
      /\ UNCHANGED <<_alt_tick_rate, _alt_nticks, now, got>>
  BY DEF T!SetStore
<1>2. /\ _alt_tick_rate = Rate /\ Rate # 0 /\ _alt_nticks \in Nat /\ now \in Nat
      /\ set.tv_sec \in Nat /\ set.tv_usec \in 0..(ALT_US - 1) /\ set.nticks \in 0..MaxSetTick
      /\ MaxSetTick \in Nat /\ Word \in Nat /\ ALT_US \in Nat \ {0} /\ Period \in Nat
  BY <1>1, TimesConstants, Periods DEF ClockInv, ClockTypeOK, WallInv
<1>. DEFINE n == set.nticks
            q == n \div Rate
            u == (n * Period) % ALT_US
<1>3. /\ n \in Nat /\ n * Period \in Nat /\ q \in Nat /\ u \in 0..(ALT_US - 1)
      /\ q * ALT_US + u = n * Period
  <2>1. n \in Nat
    BY <1>2
  <2>. HIDE DEF n
  <2>. QED BY <2>1, Seconds
<1>4. n * Period < Word
  <2>1. PICK e \in Nat : MaxSetTick = n + e
    <3>1. MaxSetTick - n \in Nat /\ MaxSetTick = n + (MaxSetTick - n)
      BY <1>2
    <3>. QED BY <3>1
  <2>2. MaxSetTick * Period = n * Period + e * Period /\ e * Period \in Nat
    BY <1>2, <1>3, <2>1
  <2>. QED BY <1>2, <1>3, <2>2 DEF Fits
<1>5. T!UsecInWord(n) = u
  <2>1. T!Usec(n) = n * Period
    BY <1>2 DEF T!Usec, Period
  <2>. DEFINE m == n * Period
  <2>2. m \in Nat /\ m < Word /\ m = 0 * Word + m
    BY <1>2, <1>3, <1>4
  <2>. HIDE DEF m
  <2>3. m % Word = m
    BY <1>2, <2>2
  <2>. QED BY <2>1, <2>3 DEF T!UsecInWord, m
<1>. HIDE DEF n, q, u
<1>6. alt_resettime' = [tv_sec |-> set.tv_sec - q, tv_usec |-> set.tv_usec - u]
  BY <1>1, <1>2, <1>5 DEF n, q
<1>7. Instant(alt_resettime') = Instant(set) - n * Period
  <2>1. (set.tv_sec - q) * ALT_US = set.tv_sec * ALT_US - q * ALT_US
    BY <1>2, <1>3
  <2>2. set.tv_sec * ALT_US \in Int /\ q * ALT_US \in Int
    BY <1>2, <1>3
  <2>3. Instant(alt_resettime') = (set.tv_sec - q) * ALT_US + (set.tv_usec - u)
    BY <1>6 DEF Instant
  <2>4. Instant(set) = set.tv_sec * ALT_US + set.tv_usec
    BY DEF Instant
  <2>5. \A a, b, c, e, m \in Int : b + e = m => (a - b) + (c - e) = (a + c) - m
    OBVIOUS
  <2>6. set.tv_usec \in Int /\ u \in Int /\ n * Period \in Int
    BY <1>2, <1>3
  <2>. QED BY <1>3, <2>1, <2>2, <2>3, <2>4, <2>5, <2>6
<1>8. Instant(set) \in Int /\ _alt_nticks * Period \in Int
  BY <1>2 DEF Instant
<1>9. now' = Instant(alt_resettime') + _alt_nticks * Period
  <2>1. now + n * Period = Instant(set) + _alt_nticks * Period
    BY <1>1 DEF ClockInv, WallInv, n
  <2>. QED BY <1>1, <1>2, <1>3, <1>7, <1>8, <2>1
<1>10. ClockTypeOK'
  BY <1>1, <1>2, <1>3, <1>6 DEF ClockInv, ClockTypeOK
<1>11. WallInv'
  BY <1>1, <1>2, <1>9 DEF ClockInv, WallInv, T!WallClock
<1>. QED BY <1>10, <1>11 DEF ClockInv

\* gettimeofday answers the instant at which it reads the ticks.
LEMMA GetStep ==
  ASSUME ClockInv, T!ALT_GETTIMEOFDAY
  PROVE  ClockInv'
<1>. DEFINE n == _alt_nticks
            q == n \div Rate
            u == (n * Period) % ALT_US
            sec == alt_resettime.tv_sec + q
            usec == alt_resettime.tv_usec + u
            time == T!Normal(sec, usec)
<1>1. /\ set = T!Idle /\ _alt_tick_rate = Rate /\ n \in Nat /\ now \in Nat
      /\ alt_resettime.tv_sec \in Int /\ alt_resettime.tv_usec \in Int
      /\ ALT_US \in Nat \ {0} /\ now = Instant(alt_resettime) + n * Period
  BY TimesConstants DEF ClockInv, ClockTypeOK, WallInv, T!ALT_GETTIMEOFDAY
<1>2. /\ got' = [at |-> now, tv_sec |-> time.tv_sec, tv_usec |-> time.tv_usec]
      /\ UNCHANGED <<_alt_tick_rate, _alt_nticks, alt_resettime, set, now>>
  BY <1>1 DEF T!ALT_GETTIMEOFDAY, T!Usec, Period
<1>3. /\ n * Period \in Nat /\ q \in Nat /\ u \in 0..(ALT_US - 1)
      /\ q * ALT_US + u = n * Period
  <2>. HIDE DEF n
  <2>. QED BY <1>1, Seconds
<1>. HIDE DEF n, q, u
<1>4. sec \in Int /\ usec \in Int /\ sec * ALT_US + usec = now
  <2>1. sec * ALT_US = alt_resettime.tv_sec * ALT_US + q * ALT_US
    BY <1>1, <1>3
  <2>2. Instant(alt_resettime) = alt_resettime.tv_sec * ALT_US + alt_resettime.tv_usec
    BY DEF Instant
  <2>3. alt_resettime.tv_sec * ALT_US \in Int /\ q * ALT_US \in Int
    BY <1>1, <1>3
  <2>. QED BY <1>1, <1>3, <2>1, <2>2, <2>3
<1>. HIDE DEF sec, usec
<1>5. /\ Instant(time) = now /\ time.tv_sec \in Int /\ time.tv_usec \in 0..(ALT_US - 1)
  BY <1>1, <1>4, Normalised
<1>. HIDE DEF time
<1>6. ClockTypeOK'
  BY <1>1, <1>2, <1>5 DEF ClockInv, ClockTypeOK
<1>7. WallInv'
  BY <1>1, <1>2, <1>5 DEF ClockInv, WallInv, T!WallClock, Instant
<1>. QED BY <1>6, <1>7 DEF ClockInv

\* The timer stands at its period.
LEMMA StampInit == T!Init => StampInv
<1>. SUFFICES ASSUME T!Init PROVE StampInv
  OBVIOUS
<1>1. T!Full \in Nat
  BY TimesConstants DEF T!Full
<1>. QED BY <1>1, TimesConstants DEF T!Init, StampInv, StampTypeOK, T!StampOfAnInstant, T!NONE

\* Every step of the timer and of a reading of it.
LEMMA StampStep ==
  ASSUME StampInv, T!StampNext
  PROVE  StampInv'
<1>. USE TimesConstants DEF T!NONE
<1>0. T!Full \in Nat
  BY DEF T!Full
<1>1. StampTypeOK
  BY DEF StampInv
<1>2. CASE T!ALTERA_AVALON_TIMER_INIT
  BY <1>2 DEF StampInv, StampTypeOK, T!StampOfAnInstant, T!ALTERA_AVALON_TIMER_INIT
<1>3. CASE T!alt_timestamp_start
  <2>1. /\ stamp.age = T!NONE /\ timer' = [timer EXCEPT !.counter = T!Full, !.runs = TRUE]
        /\ age' = 0 /\ UNCHANGED <<ts_freq, stamp>>
    BY <1>3 DEF T!alt_timestamp_start
  <2>2. timer' = [counter |-> T!Full, snap |-> timer.snap, runs |-> TRUE]
    BY <1>1, <2>1 DEF StampTypeOK
  <2>3. timer.snap \in 0..T!Full /\ T!Full \in 0..T!Full
    BY <1>0, <1>1 DEF StampTypeOK
  <2>4. timer'.counter = T!Full /\ timer'.snap = timer.snap /\ StampTypeOK'
    BY <1>1, <2>1, <2>2, <2>3 DEF StampTypeOK
  <2>. QED BY <1>0, <2>1, <2>4 DEF StampInv, T!StampOfAnInstant
<1>4. CASE T!Count
  <2>1. UNCHANGED <<ts_freq, stamp>>
    BY <1>4 DEF T!Count
  <2>2. CASE timer.counter = 0
    <3>1. timer' = [timer EXCEPT !.counter = T!Full, !.runs = FALSE] /\ age' = 0
      BY <1>4, <2>2 DEF T!Count
    <3>2. timer' = [counter |-> T!Full, snap |-> timer.snap, runs |-> FALSE]
      BY <1>1, <3>1 DEF StampTypeOK
    <3>3. timer.snap \in 0..T!Full /\ T!Full \in 0..T!Full
      BY <1>0, <1>1 DEF StampTypeOK
    <3>4. timer'.counter = T!Full /\ timer'.snap = timer.snap /\ StampTypeOK'
      BY <1>1, <2>1, <3>2, <3>3 DEF StampTypeOK
    <3>. QED BY <1>0, <2>1, <3>1, <3>4 DEF StampInv, T!StampOfAnInstant
  <2>3. CASE timer.counter # 0
    <3>1. timer' = [timer EXCEPT !.counter = @ - 1] /\ age' = age + 1
      BY <1>4, <2>3 DEF T!Count
    <3>2. timer'.counter = timer.counter - 1 /\ timer'.snap = timer.snap /\ StampTypeOK'
      BY <1>0, <1>1, <2>1, <2>3, <3>1 DEF StampTypeOK
    <3>3. timer.counter \in Int
      BY <1>0, <1>1 DEF StampTypeOK
    <3>. QED BY <1>0, <2>1, <3>1, <3>2, <3>3 DEF StampInv, T!StampOfAnInstant
  <2>. QED BY <2>2, <2>3
<1>5. CASE T!Snap
  <2>1. stamp.age = T!NONE /\ UNCHANGED <<ts_freq, age>>
    BY <1>5 DEF T!Snap
  <2>2. CASE ts_freq = 0
    <3>1. stamp' = [age |-> T!Full, lower |-> T!NONE, answer |-> T!Full] /\ UNCHANGED timer
      BY <1>5, <2>2 DEF T!Snap
    <3>. QED BY <1>0, <1>1, <2>1, <3>1 DEF StampInv, StampTypeOK, T!StampOfAnInstant
  <2>3. CASE ts_freq # 0
    <3>1. timer' = [timer EXCEPT !.snap = timer.counter]
          /\ stamp' = [age |-> age, lower |-> T!NONE, answer |-> T!NONE]
      BY <1>5, <2>3 DEF T!Snap
    <3>2. timer'.counter = timer.counter /\ timer'.snap = timer.counter /\ StampTypeOK'
      BY <1>0, <1>1, <2>1, <3>1 DEF StampTypeOK, StampInv
    <3>. QED BY <1>0, <2>1, <3>1, <3>2 DEF StampInv, T!StampOfAnInstant
  <2>. QED BY <2>2, <2>3
<1>6. CASE T!ReadLower
  <2>1. /\ stamp.age # T!NONE /\ stamp.answer = T!NONE
        /\ stamp' = [stamp EXCEPT !.lower = timer.snap % HALF] /\ UNCHANGED <<ts_freq, timer, age>>
    BY <1>6 DEF T!ReadLower
  <2>2. timer.snap % HALF \in Int
    BY <1>0, <1>1 DEF StampTypeOK
  <2>3. /\ stamp'.age = stamp.age /\ stamp'.lower = timer.snap % HALF /\ stamp'.answer = stamp.answer
        /\ StampTypeOK'
    BY <1>1, <2>1, <2>2 DEF StampTypeOK
  <2>. QED BY <2>1, <2>3 DEF StampInv, T!StampOfAnInstant
<1>7. CASE T!ReadUpper
  <2>1. /\ stamp.lower # T!NONE /\ stamp.answer = T!NONE
        /\ stamp' = [stamp EXCEPT !.answer = T!Full - ((timer.snap \div HALF) * HALF + stamp.lower)]
        /\ UNCHANGED <<ts_freq, timer, age>>
    BY <1>7 DEF T!ReadUpper
  <2>2. stamp.age # T!NONE /\ stamp.lower = timer.snap % HALF /\ stamp.age = T!Full - timer.snap
    BY <2>1 DEF StampInv
  <2>3. timer.snap \in Int /\ (timer.snap \div HALF) * HALF + (timer.snap % HALF) = timer.snap
    <3>1. timer.snap \in Int
      BY <1>0, <1>1 DEF StampTypeOK
    <3>. QED BY <3>1, Divided
  <2>4. stamp' = [stamp EXCEPT !.answer = T!Full - timer.snap]
    BY <2>1, <2>2, <2>3
  <2>5. /\ stamp'.age = stamp.age /\ stamp'.lower = stamp.lower /\ stamp'.answer = T!Full - timer.snap
        /\ StampTypeOK'
    BY <1>0, <1>1, <2>1, <2>3, <2>4 DEF StampTypeOK
  <2>. QED BY <2>1, <2>2, <2>5 DEF StampInv, T!StampOfAnInstant
<1>8. CASE T!StampReturns
  BY <1>1, <1>8 DEF T!StampReturns, StampInv, StampTypeOK, T!StampOfAnInstant
<1>. QED BY <1>2, <1>3, <1>4, <1>5, <1>6, <1>7, <1>8 DEF T!StampNext

\* The clock and the timestamp leave each other alone.
LEMMA TimesStep ==
  ASSUME Fits, ClockInv, StampInv, [T!Next]_(T!vars)
  PROVE  ClockInv' /\ StampInv'
<1>. USE DEF T!clockVars, T!stampVars
<1>1. ASSUME UNCHANGED T!clockVars PROVE ClockInv'
  BY <1>1 DEF ClockInv, ClockTypeOK, WallInv, T!WallClock
<1>2. ASSUME UNCHANGED T!stampVars PROVE StampInv'
  BY <1>2 DEF StampInv, StampTypeOK, T!StampOfAnInstant
<1>3. CASE T!ClockNext
  <2>1. UNCHANGED T!stampVars
    BY <1>3 DEF T!ClockNext, T!alt_sysclk_init, T!alt_tick, T!SetRead, T!SetStore, T!ALT_GETTIMEOFDAY
  <2>2. ClockInv'
    BY <1>3, SysclkStep, TickStep, SetReadStep, SetStoreStep, GetStep DEF T!ClockNext
  <2>. QED BY <1>2, <2>1, <2>2
<1>4. CASE T!StampNext
  <2>1. UNCHANGED T!clockVars
    BY <1>4 DEF T!StampNext, T!ALTERA_AVALON_TIMER_INIT, T!alt_timestamp_start, T!Count, T!Snap, T!ReadLower,
                T!ReadUpper, T!StampReturns
  <2>. QED BY <1>1, <1>4, <2>1, StampStep
<1>5. CASE UNCHANGED T!vars
  BY <1>1, <1>2, <1>5 DEF T!vars
<1>. QED BY <1>3, <1>4, <1>5 DEF T!Next

\* The answer of gettimeofday is the time that was set and the ticks since, and a timestamp
\* is that of one instant of its call, wherever ticks and counts come in between.
THEOREM TimesKept == ASSUME Fits PROVE T!Spec => []TimesRight
<1>1. T!Init => ClockInv /\ StampInv
  BY WallInit, StampInit
<1>2. ClockInv /\ StampInv /\ [T!Next]_(T!vars) => (ClockInv /\ StampInv)'
  BY TimesStep
<1>3. ClockInv /\ StampInv => TimesRight
  BY DEF TimesRight, T!TimesRight, ClockInv, WallInv, StampInv
<1>. QED BY <1>1, <1>2, <1>3, PTL DEF T!Spec

-----------------------------------------------------------------------------
(***************************************************************************)
(* The sampler of the profiler. Whoever has cleared the flag owes a start, *)
(* and pays it or sets the flag again.                                     *)
(***************************************************************************)

\* Context c has cleared the flag and not yet set it again.
Waiting(c) == ctx[c].pc \in {"init", "answer"}

\* What stands for the sampler; of the locals only the label and the answer matter.
SamplerInv ==
  /\ need_init \in {0, 1}
  /\ DOMAIN ctx = P!Contexts
  /\ \A c \in P!Contexts : {"pc", "was"} \subseteq DOMAIN ctx[c]
  /\ \A c \in P!Contexts :
       ctx[c].pc = "answer" => ctx[c].was \in {0, 1} /\ (ctx[c].was = 0 => sampling)
  /\ P!SamplerStarts

LEMMA Elsewhere ==
  ASSUME SamplerInv, NEW c \in P!Contexts, ~Waiting(c),
         DOMAIN ctx' = P!Contexts, \A e \in P!Contexts \ {c} : ctx'[e] = ctx[e],
         {"pc", "was"} \subseteq DOMAIN ctx'[c], ctx'[c].pc # "answer",
         UNCHANGED <<need_init, sampling>>
  PROVE  SamplerInv'
<1>1. P!SamplerStarts'
  BY DEF SamplerInv, P!SamplerStarts, Waiting
<1>. QED BY <1>1 DEF SamplerInv

\* A step of the list walks and of the writes to the lists.
LEMMA WalkSteps ==
  ASSUME SamplerInv, NEW c \in P!Contexts,
         \/ \E f \in Functions, from \in Callers : P!Call(c, f, from)
         \/ P!FindFunction(c) \/ P!FindArc(c) \/ P!LoadCount(c) \/ P!StoreCount(c)
         \/ P!TestInit(c) \/ P!Mask(c) \/ P!LinkFunction(c) \/ P!LinkArc(c) \/ P!Unmask(c)
  PROVE  SamplerInv'
<1>0. /\ DOMAIN ctx = P!Contexts /\ {"pc", "was"} \subseteq DOMAIN ctx[c]
      /\ {"pc", "was"} \subseteq DOMAIN P!Idle /\ P!Idle.pc = "idle"
  BY DEF SamplerInv, P!Idle
<1>1. ASSUME NEW v, ctx' = [ctx EXCEPT ![c] = v], {"pc", "was"} \subseteq DOMAIN v, v.pc # "answer",
             ~Waiting(c), UNCHANGED <<need_init, sampling>>
      PROVE  SamplerInv'
  BY <1>0, <1>1, Elsewhere
<1>2. CASE \E f \in Functions, from \in Callers : P!Call(c, f, from)
  <2>. PICK f \in Functions, from \in Callers : P!Call(c, f, from)
    BY <1>2
  <2>. DEFINE v == [P!Idle EXCEPT !.pc = "function", !.self = f, !.from = from]
  <2>1. ctx' = [ctx EXCEPT ![c] = v] /\ ~Waiting(c) /\ UNCHANGED <<need_init, sampling>>
    BY DEF P!Call, P!At, Waiting
  <2>2. {"pc", "was"} \subseteq DOMAIN v /\ v.pc # "answer"
    BY DEF P!Idle
  <2>. HIDE DEF v
  <2>. QED BY <1>1, <2>1, <2>2
<1>3. CASE P!FindFunction(c)
  <2>. DEFINE e == P!FirstIn(fns, LAMBDA f : f = ctx[c].self)
              v == [ctx[c] EXCEPT !.entry = e, !.pc = IF e = P!NONE THEN "test" ELSE "arc"]
  <2>1. ctx' = [ctx EXCEPT ![c] = v] /\ ~Waiting(c) /\ UNCHANGED <<need_init, sampling>>
    BY <1>3 DEF P!FindFunction, P!At, Waiting
  <2>. HIDE DEF e
  <2>2. {"pc", "was"} \subseteq DOMAIN v /\ v.pc # "answer"
    BY <1>0
  <2>. HIDE DEF v
  <2>. QED BY <1>1, <2>1, <2>2
<1>4. CASE P!FindArc(c)
  <2>. DEFINE k == P!FirstIn(arcs[ctx[c].entry], LAMBDA a : a.from = ctx[c].from)
              v == [ctx[c] EXCEPT !.arc = k, !.pc = IF k = P!NONE THEN "test" ELSE "load"]
  <2>1. ctx' = [ctx EXCEPT ![c] = v] /\ ~Waiting(c) /\ UNCHANGED <<need_init, sampling>>
    BY <1>4 DEF P!FindArc, P!At, Waiting
  <2>. HIDE DEF k
  <2>2. {"pc", "was"} \subseteq DOMAIN v /\ v.pc # "answer"
    BY <1>0
  <2>. HIDE DEF v
  <2>. QED BY <1>1, <2>1, <2>2
<1>5. CASE P!LoadCount(c)
  <2>. DEFINE v == [ctx[c] EXCEPT !.was = arcs[ctx[c].entry][ctx[c].arc].count, !.pc = "store"]
  <2>1. ctx' = [ctx EXCEPT ![c] = v] /\ ~Waiting(c) /\ UNCHANGED <<need_init, sampling>>
    BY <1>5 DEF P!LoadCount, P!At, Waiting
  <2>2. {"pc", "was"} \subseteq DOMAIN v /\ v.pc # "answer"
    BY <1>0
  <2>. HIDE DEF v
  <2>. QED BY <1>1, <2>1, <2>2
<1>6. CASE P!StoreCount(c)
  <2>. DEFINE v == P!Idle
  <2>1. ctx' = [ctx EXCEPT ![c] = v] /\ ~Waiting(c) /\ UNCHANGED <<need_init, sampling>>
    BY <1>6 DEF P!StoreCount, P!At, Waiting
  <2>2. {"pc", "was"} \subseteq DOMAIN v /\ v.pc # "answer"
    BY <1>0
  <2>. HIDE DEF v
  <2>. QED BY <1>1, <2>1, <2>2
<1>7. CASE P!TestInit(c)
  <2>. DEFINE v == [ctx[c] EXCEPT !.pc = IF need_init = 1 THEN "clear" ELSE "mask"]
  <2>1. ctx' = [ctx EXCEPT ![c] = v] /\ ~Waiting(c) /\ UNCHANGED <<need_init, sampling>>
    BY <1>7 DEF P!TestInit, P!At, Waiting, P!Goto
  <2>2. {"pc", "was"} \subseteq DOMAIN v /\ v.pc # "answer"
    BY <1>0
  <2>. HIDE DEF v
  <2>. QED BY <1>1, <2>1, <2>2
<1>8. CASE P!Mask(c)
  <2>. DEFINE v == [ctx[c] EXCEPT !.pc = "link"]
  <2>1. ctx' = [ctx EXCEPT ![c] = v] /\ ~Waiting(c) /\ UNCHANGED <<need_init, sampling>>
    BY <1>8 DEF P!Mask, P!At, Waiting, P!Goto
  <2>2. {"pc", "was"} \subseteq DOMAIN v /\ v.pc # "answer"
    BY <1>0
  <2>. HIDE DEF v
  <2>. QED BY <1>1, <2>1, <2>2
<1>9. CASE P!LinkFunction(c)
  <2>1. CASE ctx[c].entry = P!NONE
    <3>. DEFINE v == [ctx[c] EXCEPT !.entry = Len(fns) + 1, !.was = 0, !.pc = "publish"]
    <3>1. ctx' = [ctx EXCEPT ![c] = v] /\ ~Waiting(c) /\ UNCHANGED <<need_init, sampling>>
      BY <1>9, <2>1 DEF P!LinkFunction, P!At, Waiting
    <3>2. {"pc", "was"} \subseteq DOMAIN v /\ v.pc # "answer"
      BY <1>0
    <3>. HIDE DEF v
    <3>. QED BY <1>1, <3>1, <3>2
  <2>2. CASE ctx[c].entry # P!NONE
    <3>. DEFINE v == [ctx[c] EXCEPT !.was = Len(arcs[ctx[c].entry]), !.pc = "publish"]
    <3>1. ctx' = [ctx EXCEPT ![c] = v] /\ ~Waiting(c) /\ UNCHANGED <<need_init, sampling>>
      BY <1>9, <2>2 DEF P!LinkFunction, P!At, Waiting
    <3>2. {"pc", "was"} \subseteq DOMAIN v /\ v.pc # "answer"
      BY <1>0
    <3>. HIDE DEF v
    <3>. QED BY <1>1, <3>1, <3>2
  <2>. QED BY <2>1, <2>2
<1>10. CASE P!LinkArc(c)
  <2>. DEFINE v == [ctx[c] EXCEPT !.pc = "unmask"]
  <2>1. ctx' = [ctx EXCEPT ![c] = v] /\ ~Waiting(c) /\ UNCHANGED <<need_init, sampling>>
    BY <1>10 DEF P!LinkArc, P!At, Waiting, P!Goto
  <2>2. {"pc", "was"} \subseteq DOMAIN v /\ v.pc # "answer"
    BY <1>0
  <2>. HIDE DEF v
  <2>. QED BY <1>1, <2>1, <2>2
<1>11. CASE P!Unmask(c)
  <2>. DEFINE v == P!Idle
  <2>1. ctx' = [ctx EXCEPT ![c] = v] /\ ~Waiting(c) /\ UNCHANGED <<need_init, sampling>>
    BY <1>11 DEF P!Unmask, P!At, Waiting
  <2>2. {"pc", "was"} \subseteq DOMAIN v /\ v.pc # "answer"
    BY <1>0
  <2>. HIDE DEF v
  <2>. QED BY <1>1, <2>1, <2>2
<1>. QED BY <1>2, <1>3, <1>4, <1>5, <1>6, <1>7, <1>8, <1>9, <1>10, <1>11

\* A context that has cleared the flag is about to ask for the sampler.
LEMMA ClearStep ==
  ASSUME SamplerInv, NEW c \in P!Contexts, P!ClearInit(c)
  PROVE  SamplerInv'
<1>1. DOMAIN ctx = P!Contexts /\ {"pc", "was"} \subseteq DOMAIN ctx[c]
  BY DEF SamplerInv
<1>2. /\ ctx' = [ctx EXCEPT ![c].pc = "init"] /\ ctx[c].pc = "clear"
      /\ need_init' = 0 /\ sampling' = sampling
  BY DEF P!ClearInit, P!At, P!Goto
<1>3. /\ DOMAIN ctx' = P!Contexts /\ ctx'[c].pc = "init"
      /\ {"pc", "was"} \subseteq DOMAIN ctx'[c]
      /\ \A e \in P!Contexts \ {c} : ctx'[e] = ctx[e]
  BY <1>1, <1>2
<1>4. P!SamplerStarts'
  BY <1>3 DEF P!SamplerStarts
<1>. QED BY <1>2, <1>3, <1>4 DEF SamplerInv

\* The answer is 0 only when the sampler has been started; otherwise this context still
\* owes it.
LEMMA SampleStep ==
  ASSUME SamplerInv, NEW c \in P!Contexts, P!nios2_pcsample_init(c)
  PROVE  SamplerInv'
<1>1. DOMAIN ctx = P!Contexts /\ {"pc", "was"} \subseteq DOMAIN ctx[c]
  BY DEF SamplerInv
<1>2. /\ ctx' = [ctx EXCEPT ![c].was = IF clock THEN 0 ELSE 1, ![c].pc = "answer"]
      /\ need_init' = need_init
  BY DEF P!nios2_pcsample_init
<1>3. /\ DOMAIN ctx' = P!Contexts /\ ctx'[c].pc = "answer"
      /\ ctx'[c].was = (IF clock THEN 0 ELSE 1)
      /\ {"pc", "was"} \subseteq DOMAIN ctx'[c]
      /\ \A e \in P!Contexts \ {c} : ctx'[e] = ctx[e]
  BY <1>1, <1>2
<1>4. sampling' = (sampling \/ clock)
  BY DEF P!nios2_pcsample_init
<1>5. sampling => sampling'
  BY <1>4
<1>6. ctx'[c].was \in {0, 1} /\ (ctx'[c].was = 0 => sampling')
  <2>1. CASE clock
    <3>1. sampling'
      BY <1>4, <2>1
    <3>. QED BY <1>3, <2>1, <3>1
  <2>2. CASE ~clock
    <3>1. ctx'[c].was = 1
      BY <1>3, <2>2
    <3>. QED BY <3>1
  <2>. QED BY <2>1, <2>2
<1>7. P!SamplerStarts'
  BY <1>3 DEF P!SamplerStarts
<1>. QED BY <1>2, <1>3, <1>5, <1>6, <1>7 DEF SamplerInv

\* The flag is cleared for good by an answer that found the sampler started.
LEMMA AnswerStep ==
  ASSUME SamplerInv, NEW c \in P!Contexts, P!SetInit(c)
  PROVE  SamplerInv'
<1>1. DOMAIN ctx = P!Contexts /\ {"pc", "was"} \subseteq DOMAIN ctx[c]
  BY DEF SamplerInv
<1>2. /\ ctx' = [ctx EXCEPT ![c].pc = "mask"] /\ ctx[c].pc = "answer"
      /\ need_init' = ctx[c].was /\ sampling' = sampling
  BY DEF P!SetInit, P!At, P!Goto
<1>3. /\ DOMAIN ctx' = P!Contexts /\ ctx'[c].pc = "mask"
      /\ {"pc", "was"} \subseteq DOMAIN ctx'[c]
      /\ \A e \in P!Contexts \ {c} : ctx'[e] = ctx[e]
  BY <1>1, <1>2
<1>4. need_init' \in {0, 1} /\ (need_init' = 0 => sampling')
  BY <1>2 DEF SamplerInv
<1>5. P!SamplerStarts'
  BY <1>4 DEF P!SamplerStarts
<1>. QED BY <1>2, <1>3, <1>4, <1>5 DEF SamplerInv

\* profiler (alt_gmon.c): the flag that keeps the sampler from being asked for is clear
\* only when it has been started or a context is just about to start it, wherever the
\* handler interrupts the program and whenever the clock starts.
THEOREM SamplerOwed == P!Spec => []P!SamplerStarts
<1>1. P!Init => SamplerInv
  BY DEF P!Init, SamplerInv, P!SamplerStarts, P!Idle, P!Contexts
<1>2. SamplerInv /\ [P!Next]_(P!vars) => SamplerInv'
  <2>. SUFFICES ASSUME SamplerInv, [P!Next]_(P!vars)
                PROVE  SamplerInv'
    OBVIOUS
  <2>1. ASSUME NEW c \in P!Contexts,
               \/ \E f \in Functions, from \in Callers : P!Call(c, f, from)
               \/ P!FindFunction(c) \/ P!FindArc(c) \/ P!LoadCount(c) \/ P!StoreCount(c)
               \/ P!TestInit(c) \/ P!Mask(c) \/ P!LinkFunction(c) \/ P!LinkArc(c) \/ P!Unmask(c)
        PROVE  SamplerInv'
    BY <2>1, WalkSteps
  <2>2. ASSUME NEW c \in P!Contexts, P!ClearInit(c) \/ P!nios2_pcsample_init(c) \/ P!SetInit(c)
        PROVE  SamplerInv'
    BY <2>2, ClearStep, SampleStep, AnswerStep
  <2>3. CASE P!ClockStarts
    BY <2>3 DEF P!ClockStarts, SamplerInv, P!SamplerStarts
  <2>4. CASE UNCHANGED P!vars
    BY <2>4 DEF P!vars, SamplerInv, P!SamplerStarts
  <2>. QED BY <2>1, <2>2, <2>3, <2>4 DEF P!Next
<1>3. SamplerInv => P!SamplerStarts
  BY DEF SamplerInv
<1>. QED BY <1>1, <1>2, <1>3, PTL DEF P!Spec

-----------------------------------------------------------------------------
(***************************************************************************)
(* Sums over finite sets. Total is defined by recursion over the subsets   *)
(* of a domain; that its equation holds, and what follows by induction, is *)
(* proved from the theorem that finite sets are well-founded.              *)
(***************************************************************************)

Some(s) == CHOOSE x \in s : TRUE

\* it[s] is the sum of g over s, for the subsets of S.
Adds(it, g, S) ==
  it = [s \in SUBSET S |-> IF s = {} THEN 0 ELSE g[Some(s)] + it[s \ {Some(s)}]]

\* C is a family of subsets of a finite set.
Family(C, S) == IsFiniteSet(S) /\ C \in SUBSET SUBSET S /\ C # {}

LEMMA SmallestSet ==
  ASSUME NEW S, NEW C, Family(C, S)
  PROVE  \E x \in C : \A y \in C : y \subseteq x => y = x
<1>1. C \subseteq FiniteSubsetsOf(S) /\ C # {}
  BY FS_FiniteSubsetsOfFinite DEF Family
<1>2. PICK x \in C : \A y \in C : ~ (<<y, x>> \in StrictSubsetOrdering(S))
  BY <1>1, FS_StrictSubsetOrderingWellFounded, WFMin
<1>3. ASSUME NEW y \in C, y \subseteq x PROVE y = x
  BY <1>2, <1>3 DEF StrictSubsetOrdering, Family
<1>. QED BY <1>3

LEMMA SomeIn == \A s : s # {} => Some(s) \in s
  BY DEF Some

LEMMA AddsEquation ==
  ASSUME NEW S, NEW g, NEW it, Adds(it, g, S)
  PROVE  /\ it[{}] = 0
         /\ \A s \in SUBSET S : s # {} => it[s] = g[Some(s)] + it[s \ {Some(s)}]
<1>. HIDE DEF Some
<1>. QED BY DEF Adds

\* Two sums over the same set, of functions that agree on it, are equal.
LEMMA AddsAgree ==
  ASSUME NEW S1, NEW g1, NEW it1, Adds(it1, g1, S1),
         NEW S2, NEW g2, NEW it2, Adds(it2, g2, S2),
         NEW S, IsFiniteSet(S), S \subseteq S1, S \subseteq S2,
         \A x \in S : g1[x] = g2[x]
  PROVE  it1[S] = it2[S]
<1>. DEFINE Bad == {s \in SUBSET S : it1[s] # it2[s]}
<1>1. SUFFICES ASSUME Bad # {} PROVE FALSE
  OBVIOUS
<1>2. PICK s \in Bad : \A y \in Bad : y \subseteq s => y = s
  <2>1. Family(Bad, S)
    BY <1>1 DEF Family
  <2>. HIDE DEF Bad
  <2>. QED BY <2>1, SmallestSet
<1>3. s # {}
  BY AddsEquation
<1>4. /\ it1[s] = g1[Some(s)] + it1[s \ {Some(s)}]
      /\ it2[s] = g2[Some(s)] + it2[s \ {Some(s)}]
  BY <1>3, AddsEquation
<1>5. Some(s) \in s
  BY <1>3, SomeIn
<1>6. it1[s \ {Some(s)}] = it2[s \ {Some(s)}]
  BY <1>2, <1>5
<1>7. g1[Some(s)] = g2[Some(s)]
  BY <1>5
<1>. QED BY <1>4, <1>6, <1>7

LEMMA AddsExists ==
  ASSUME NEW S, IsFiniteSet(S), NEW g
  PROVE  \E it : Adds(it, g, S)
<1>. DEFINE Bad == {s \in SUBSET S : ~ \E it : Adds(it, g, s)}
<1>1. SUFFICES ASSUME Bad # {} PROVE FALSE
  OBVIOUS
<1>2. PICK s \in Bad : \A y \in Bad : y \subseteq s => y = s
  <2>1. Family(Bad, S)
    BY <1>1 DEF Family
  <2>. HIDE DEF Bad
  <2>. QED BY <2>1, SmallestSet
<1>. DEFINE H(u) == CHOOSE it : Adds(it, g, u)
            it == [u \in SUBSET s |-> IF u = {} THEN 0
                                      ELSE g[Some(u)] + H(u \ {Some(u)})[u \ {Some(u)}]]
<1>3. ASSUME NEW u \in SUBSET s, u # s PROVE Adds(H(u), g, u)
  <2>1. \E h : Adds(h, g, u)
    BY <1>2, <1>3
  <2>. QED BY <2>1
<1>4. ASSUME NEW u \in SUBSET s, u # s PROVE it[u] = H(u)[u]
  <2>1. Adds(H(u), g, u)
    BY <1>3, <1>4
  <2>2. CASE u = {}
    BY <2>1, <2>2, AddsEquation
  <2>3. CASE u # {}
    <3>. DEFINE w == u \ {Some(u)}
    <3>1. Some(u) \in u /\ w \in SUBSET s /\ w # s /\ w \subseteq u
      BY <2>3, SomeIn
    <3>2. Adds(H(w), g, w)
      BY <3>1, <1>3
    <3>3. IsFiniteSet(w)
      BY <3>1, FS_Subset
    <3>. HIDE DEF H, w
    <3>4. H(u)[w] = H(w)[w]
      BY <2>1, <3>1, <3>2, <3>3, AddsAgree
    <3>5. H(u)[u] = g[Some(u)] + H(u)[w]
      BY <2>1, <2>3, AddsEquation DEF w
    <3>6. it[u] = g[Some(u)] + H(w)[w]
      BY <2>3 DEF w
    <3>. QED BY <3>4, <3>5, <3>6
  <2>. QED BY <2>2, <2>3
<1>. DEFINE r == [u \in SUBSET s |-> IF u = {} THEN 0 ELSE g[Some(u)] + it[u \ {Some(u)}]]
<1>5. ASSUME NEW u \in SUBSET s PROVE it[u] = r[u]
  <2>1. CASE u = {}
    BY <2>1
  <2>2. CASE u # {}
    <3>. DEFINE w == u \ {Some(u)}
    <3>1. Some(u) \in u /\ w \in SUBSET s /\ w # s
      BY <2>2, SomeIn
    <3>2. it[w] = H(w)[w]
      BY <3>1, <1>4
    <3>3. it[u] = g[Some(u)] + H(w)[w]
      BY <2>2
    <3>4. r[u] = g[Some(u)] + it[w]
      BY <2>2
    <3>. HIDE DEF it, r, w, H
    <3>. QED BY <3>2, <3>3, <3>4
  <2>. QED BY <2>1, <2>2
<1>6. it = r
  <2>1. \A u \in SUBSET s : it[u] = r[u]
    BY <1>5
  <2>2. /\ DOMAIN it = SUBSET s /\ it = [u \in DOMAIN it |-> it[u]]
        /\ DOMAIN r = SUBSET s /\ r = [u \in DOMAIN r |-> r[u]]
    OBVIOUS
  <2>. HIDE DEF it, r
  <2>. QED BY <2>1, <2>2
<1>7. Adds(it, g, s)
  <2>. HIDE DEF it
  <2>. QED BY <1>6 DEF Adds
<1>. QED BY <1>7

\* It does not matter which element is added first.
LEMMA AddsAny ==
  ASSUME NEW S, IsFiniteSet(S), NEW g, NEW it, Adds(it, g, S), \A x \in S : g[x] \in Int
  PROVE  \A s \in SUBSET S : /\ it[s] \in Int
                             /\ \A x \in s : it[s] = g[x] + it[s \ {x}]
<1>0. /\ it[{}] = 0
      /\ \A s \in SUBSET S : s # {} => it[s] = g[Some(s)] + it[s \ {Some(s)}]
  BY AddsEquation
<1>1. ASSUME NEW s \in SUBSET S, it[s] \notin Int PROVE FALSE
  <2>. DEFINE Bad == {u \in SUBSET S : it[u] \notin Int}
  <2>1. PICK u \in Bad : \A y \in Bad : y \subseteq u => y = u
    <3>1. Family(Bad, S)
      BY <1>1 DEF Family
    <3>. HIDE DEF Bad
    <3>. QED BY <3>1, SmallestSet
  <2>2. u # {}
    BY <1>0
  <2>3. it[u] = g[Some(u)] + it[u \ {Some(u)}] /\ Some(u) \in u
    BY <2>2, <1>0, SomeIn
  <2>4. it[u \ {Some(u)}] \in Int /\ g[Some(u)] \in Int
    BY <2>1, <2>3
  <2>5. it[u] \in Int
    BY <2>3, <2>4
  <2>. QED BY <2>5
<1>. DEFINE Bad == {s \in SUBSET S : \E x \in s : it[s] # g[x] + it[s \ {x}]}
<1>2. SUFFICES ASSUME Bad # {} PROVE FALSE
  BY <1>1
<1>3. PICK s \in Bad : \A y \in Bad : y \subseteq s => y = s
  <2>1. Family(Bad, S)
    BY <1>2 DEF Family
  <2>. HIDE DEF Bad
  <2>. QED BY <2>1, SmallestSet
<1>4. PICK x \in s : it[s] # g[x] + it[s \ {x}]
  OBVIOUS
<1>. DEFINE c == Some(s)
            both == (s \ {c}) \ {x}
<1>5. c \in s /\ it[s] = g[c] + it[s \ {c}]
  BY <1>0, <1>4, SomeIn
<1>6. x # c
  BY <1>4, <1>5
<1>7. it[s \ {c}] = g[x] + it[both]
  <2>1. s \ {c} \notin Bad /\ s \ {c} \in SUBSET S /\ x \in s \ {c}
    BY <1>3, <1>5, <1>6
  <2>. QED BY <2>1
<1>8. it[s \ {x}] = g[c] + it[both]
  <2>1. s \ {x} \notin Bad /\ s \ {x} \in SUBSET S /\ c \in s \ {x}
    BY <1>3, <1>4, <1>5, <1>6
  <2>2. (s \ {x}) \ {c} = both
    OBVIOUS
  <2>. QED BY <2>1, <2>2
<1>9. g[x] \in Int /\ g[c] \in Int /\ it[both] \in Int
  BY <1>1, <1>5
<1>10. it[s] = g[x] + it[s \ {x}]
  <2>. HIDE DEF c, both
  <2>. QED BY <1>5, <1>7, <1>8, <1>9
<1>. QED BY <1>4, <1>10

\* What Total is.
LEMMA TotalAdds ==
  ASSUME NEW S, IsFiniteSet(S), NEW g, DOMAIN g = S
  PROVE  \E it : Adds(it, g, S) /\ P!Total(g) = it[S]
<1>. DEFINE it == CHOOSE it : Adds(it, g, S)
<1>1. Adds(it, g, S)
  BY AddsExists
<1>2. P!Total(g) = it[S]
  BY DEF P!Total, P!Sets!SumFunction, P!Sets!SumFunctionOnSet, P!Sets!FoldFunctionOnSet,
         P!Sets!MapThenFoldSet, Adds, Some
<1>. QED BY <1>1, <1>2

\* The sum of integers, and what is left without one of them.
LEMMA TotalSplits ==
  ASSUME NEW S, IsFiniteSet(S), NEW g \in [S -> Int]
  PROVE  \E it : /\ Adds(it, g, S) /\ P!Total(g) = it[S]
                 /\ it[S] \in Int
                 /\ \A x \in S : it[S] = g[x] + it[S \ {x}] /\ it[S \ {x}] \in Int
<1>1. PICK it : Adds(it, g, S) /\ P!Total(g) = it[S]
  BY TotalAdds
<1>2. \A x \in S : g[x] \in Int
  OBVIOUS
<1>3. \A s \in SUBSET S : it[s] \in Int /\ \A x \in s : it[s] = g[x] + it[s \ {x}]
  <2>1. Adds(it, g, S)
    BY <1>1
  <2>. QED BY <1>2, <2>1, AddsAny
<1>4. S \in SUBSET S /\ \A x \in S : S \ {x} \in SUBSET S
  OBVIOUS
<1>. QED BY <1>1, <1>3, <1>4

LEMMA TotalIsInt ==
  ASSUME NEW S, IsFiniteSet(S), NEW g \in [S -> Int]
  PROVE  P!Total(g) \in Int
BY TotalSplits

\* h and g are sums over S that differ in the term of x; h has the term of x and g has not.
OneOther(S, x, g, h) ==
  /\ IsFiniteSet(S) /\ x \in S /\ g \in [S -> Int] /\ h \in [S -> Int]
  /\ \A y \in S \ {x} : h[y] = g[y]

OneMore(S, x, g, h) ==
  /\ IsFiniteSet(S) /\ x \in S /\ DOMAIN g = S \ {x} /\ h \in [S -> Int]
  /\ \A y \in S \ {x} : h[y] = g[y]

LEMMA TotalChanges ==
  ASSUME NEW S, NEW x, NEW g, NEW h, OneOther(S, x, g, h)
  PROVE  P!Total(h) = P!Total(g) + h[x] - g[x]
<1>. IsFiniteSet(S) /\ x \in S /\ \A y \in S \ {x} : h[y] = g[y]
  BY DEF OneOther
<1>0. g \in [S -> Int] /\ h \in [S -> Int]
  BY DEF OneOther
<1>1. PICK i1 : /\ Adds(i1, g, S) /\ P!Total(g) = i1[S]
                /\ i1[S] = g[x] + i1[S \ {x}] /\ i1[S \ {x}] \in Int
  BY <1>0, TotalSplits
<1>2. PICK i2 : /\ Adds(i2, h, S) /\ P!Total(h) = i2[S]
                /\ i2[S] = h[x] + i2[S \ {x}] /\ i2[S \ {x}] \in Int
  BY <1>0, TotalSplits
<1>3. i1[S \ {x}] = i2[S \ {x}]
  <2>1. IsFiniteSet(S \ {x})
    BY FS_Subset
  <2>. QED BY <1>1, <1>2, <2>1, AddsAgree
<1>4. g[x] \in Int /\ h[x] \in Int
  BY <1>0
<1>. QED BY <1>1, <1>2, <1>3, <1>4

LEMMA TotalLess ==
  ASSUME NEW S, NEW x, NEW g, NEW h, OneMore(S, x, g, h)
  PROVE  P!Total(h) = P!Total(g) + h[x]
<1>. IsFiniteSet(S) /\ x \in S /\ DOMAIN g = S \ {x} /\ \A y \in S \ {x} : h[y] = g[y]
  BY DEF OneMore
<1>0. h \in [S -> Int]
  BY DEF OneMore
<1>1. PICK i2 : /\ Adds(i2, h, S) /\ P!Total(h) = i2[S]
                /\ i2[S] = h[x] + i2[S \ {x}] /\ i2[S \ {x}] \in Int
  BY <1>0, TotalSplits
<1>2. IsFiniteSet(S \ {x})
  BY FS_Subset
<1>3. PICK i1 : Adds(i1, g, S \ {x}) /\ P!Total(g) = i1[S \ {x}]
  BY <1>2, TotalAdds
<1>4. i1[S \ {x}] = i2[S \ {x}]
  BY <1>1, <1>2, <1>3, AddsAgree
<1>5. h[x] \in Int
  BY <1>0
<1>. QED BY <1>1, <1>3, <1>4, <1>5

LEMMA TotalOfNothing ==
  ASSUME NEW g, DOMAIN g = {}
  PROVE  P!Total(g) = 0
<1>1. IsFiniteSet({})
  BY FS_EmptySet
<1>2. PICK it : Adds(it, g, {}) /\ P!Total(g) = it[{}]
  BY <1>1, TotalAdds
<1>. QED BY <1>2, AddsEquation
-----------------------------------------------------------------------------
(***************************************************************************)
(* The counts of the profiler. *)
(***************************************************************************)

Arc == [from : Callers, count : Int]

\* What list, the arcs of function f, has for arc a; and all lists together.
Weight(f, list, a) ==
  P!Total([k \in DOMAIN list |->
    IF f = a[1] /\ list[k].from = a[2] THEN list[k].count ELSE 0])

Sum(fs, ls, a) == P!Total([e \in DOMAIN fs |-> Weight(fs[e], ls[e], a)])

LEMMA RecordedIsSum ==
  \A a : P!Recorded(a) = Sum(fns, arcs, a) /\ P!Recorded(a)' = Sum(fns', arcs', a)
BY DEF P!Recorded, Sum, Weight

LEMMA Indices ==
  ASSUME NEW S, NEW list \in Seq(S)
  PROVE  DOMAIN list = 1..Len(list) /\ IsFiniteSet(DOMAIN list) /\ Len(list) \in Nat
<1>1. DOMAIN list = 1..Len(list) /\ Len(list) \in Nat
  OBVIOUS
<1>2. IsFiniteSet(1..Len(list))
  <2>1. 1 \in Int /\ Len(list) \in Int
    BY <1>1
  <2>. QED BY <2>1, FS_Interval
<1>. QED BY <1>1, <1>2

\* What a single arc counts for.
One(f, r, a) == IF f = a[1] /\ r.from = a[2] THEN r.count ELSE 0

LEMMA OneIsInt == \A f, a : \A r \in Arc : One(f, r, a) \in Int
  BY DEF One, Arc

Ones(f, list, a) == [k \in DOMAIN list |-> One(f, list[k], a)]

LEMMA WeightOfOnes ==
  ASSUME NEW f, NEW a, NEW list \in Seq(Arc)
  PROVE  /\ Weight(f, list, a) = P!Total(Ones(f, list, a))
         /\ Ones(f, list, a) \in [DOMAIN list -> Int]
         /\ Weight(f, list, a) \in Int
<1>1. Weight(f, list, a) = P!Total(Ones(f, list, a))
  BY DEF Weight, Ones, One
<1>2. Ones(f, list, a) \in [DOMAIN list -> Int]
  <2>1. \A k \in DOMAIN list : list[k] \in Arc
    OBVIOUS
  <2>. QED BY <2>1, OneIsInt DEF Ones
<1>. QED BY <1>1, <1>2, Indices, TotalIsInt

\* A count is stored.
LEMMA WeightStored ==
  ASSUME NEW f, NEW a, NEW list \in Seq(Arc), NEW k \in DOMAIN list, NEW r \in Arc,
         NEW new, new = [list EXCEPT ![k] = r]
  PROVE  /\ new \in Seq(Arc) /\ Len(new) = Len(list)
         /\ Weight(f, new, a) = Weight(f, list, a) + One(f, r, a) - One(f, list[k], a)
<1>1. /\ new \in Seq(Arc) /\ Len(new) = Len(list) /\ DOMAIN new = DOMAIN list
      /\ new[k] = r /\ \A i \in DOMAIN list \ {k} : new[i] = list[i]
  OBVIOUS
<1>. DEFINE g == Ones(f, list, a)
            h == Ones(f, new, a)
            S == DOMAIN list
<1>2. /\ g \in [S -> Int] /\ h \in [S -> Int]
      /\ Weight(f, list, a) = P!Total(g) /\ Weight(f, new, a) = P!Total(h)
  BY <1>1, WeightOfOnes
<1>3. g[k] = One(f, list[k], a) /\ h[k] = One(f, r, a) /\ \A i \in S \ {k} : h[i] = g[i]
  BY <1>1 DEF Ones
<1>4. IsFiniteSet(S)
  BY Indices
<1>. HIDE DEF g, h, S
<1>5. P!Total(h) = P!Total(g) + h[k] - g[k]
  <2>1. k \in S
    BY DEF S
  <2>2. OneOther(S, k, g, h)
    BY <1>2, <1>3, <1>4, <2>1 DEF OneOther
  <2>. QED BY <2>2, TotalChanges
<1>. QED BY <1>1, <1>2, <1>3, <1>5

\* An arc is added.
LEMMA WeightAppended ==
  ASSUME NEW f, NEW a, NEW list \in Seq(Arc), NEW r \in Arc
  PROVE  Weight(f, Append(list, r), a) = Weight(f, list, a) + One(f, r, a)
<1>. DEFINE new == Append(list, r)
            g == Ones(f, list, a)
            h == Ones(f, new, a)
            S == DOMAIN new
            n == Len(list) + 1
<1>1. /\ new \in Seq(Arc) /\ S = 1..n /\ DOMAIN list = S \ {n} /\ n \in S
      /\ new[n] = r /\ \A i \in S \ {n} : new[i] = list[i]
  <2>1. /\ new \in Seq(Arc) /\ Len(new) = n /\ Len(list) \in Nat
        /\ DOMAIN new = 1..n /\ DOMAIN list = 1..Len(list)
    OBVIOUS
  <2>2. new[n] = r /\ \A i \in 1..Len(list) : new[i] = list[i]
    OBVIOUS
  <2>3. 1..Len(list) = (1..n) \ {n} /\ n \in 1..n
    BY <2>1
  <2>. HIDE DEF new, n
  <2>. QED BY <2>1, <2>2, <2>3
<1>2. /\ h \in [S -> Int]
      /\ Weight(f, list, a) = P!Total(g) /\ Weight(f, new, a) = P!Total(h)
  BY <1>1, WeightOfOnes
<1>3. h[n] = One(f, r, a) /\ DOMAIN g = S \ {n} /\ \A i \in S \ {n} : h[i] = g[i]
  BY <1>1 DEF Ones
<1>4. IsFiniteSet(S) /\ n \in S
  BY <1>1, Indices
<1>. HIDE DEF g, h, S, n, new
<1>5. P!Total(h) = P!Total(g) + h[n]
  <2>1. OneMore(S, n, g, h)
    BY <1>2, <1>3, <1>4 DEF OneMore
  <2>. QED BY <2>1, TotalLess
<1>6. Weight(f, new, a) = Weight(f, list, a) + One(f, r, a)
  BY <1>2, <1>3, <1>5
<1>. QED BY <1>6 DEF new

\* The lists of arcs belong to the functions, one to each.
ArcList == Seq(Arc)

ListsOf(fs, ls) ==
  /\ fs \in Seq(Functions) /\ ls \in Seq(ArcList)
  /\ DOMAIN fs = 1..Len(fs) /\ DOMAIN ls = 1..Len(fs) /\ Len(ls) = Len(fs)

LEMMA Elements ==
  ASSUME NEW fs, NEW ls, ListsOf(fs, ls)
  PROVE  /\ Len(fs) \in Nat /\ IsFiniteSet(DOMAIN fs) /\ DOMAIN ls = DOMAIN fs
         /\ \A e \in DOMAIN fs : fs[e] \in Functions /\ ls[e] \in Seq(Arc)
<1>1. fs \in Seq(Functions) /\ DOMAIN ls = DOMAIN fs
  BY DEF ListsOf
<1>2. ls \in Seq(ArcList)
  BY DEF ListsOf
<1>3. \A e \in DOMAIN ls : ls[e] \in ArcList
  BY <1>2
<1>4. IsFiniteSet(DOMAIN fs) /\ Len(fs) \in Nat
  BY <1>1, Indices
<1>. QED BY <1>1, <1>3, <1>4 DEF ArcList

LEMMA Weights ==
  ASSUME NEW fs, NEW ls, ListsOf(fs, ls), NEW a
  PROVE  \A e \in DOMAIN fs : Weight(fs[e], ls[e], a) \in Int
<1>1. \A e \in DOMAIN fs : ls[e] \in Seq(Arc)
  BY Elements
<1>. QED BY <1>1, WeightOfOnes

\* One list changes.
OneList(fs, ls, e, list, new) ==
  /\ ListsOf(fs, ls) /\ e \in DOMAIN fs
  /\ list \in Seq(Arc) /\ new = [ls EXCEPT ![e] = list]

LEMMA SumChanges ==
  ASSUME NEW fs, NEW ls, NEW a, NEW e, NEW list, NEW new, OneList(fs, ls, e, list, new)
  PROVE  /\ ListsOf(fs, new)
         /\ Sum(fs, new, a) = Sum(fs, ls, a) + Weight(fs[e], list, a) - Weight(fs[e], ls[e], a)
<1>. ListsOf(fs, ls) /\ e \in DOMAIN fs /\ new = [ls EXCEPT ![e] = list]
  BY DEF OneList
<1>0. list \in ArcList
  BY DEF ArcList, OneList
<1>1. /\ DOMAIN ls = DOMAIN fs /\ ListsOf(fs, new)
      /\ new[e] = list /\ \A i \in DOMAIN fs \ {e} : new[i] = ls[i]
  <2>1. ls \in Seq(ArcList) /\ DOMAIN ls = DOMAIN fs
    BY DEF ListsOf
  <2>2. /\ new \in Seq(ArcList) /\ DOMAIN new = DOMAIN ls /\ Len(new) = Len(ls)
        /\ new[e] = list /\ \A i \in DOMAIN fs \ {e} : new[i] = ls[i]
    BY <1>0, <2>1
  <2>3. ListsOf(fs, new)
    BY <2>2 DEF ListsOf
  <2>. QED BY <2>1, <2>2, <2>3
<1>. DEFINE g == [i \in DOMAIN fs |-> Weight(fs[i], ls[i], a)]
            h == [i \in DOMAIN fs |-> Weight(fs[i], new[i], a)]
            S == DOMAIN fs
<1>2. g \in [S -> Int] /\ h \in [S -> Int] /\ IsFiniteSet(S) /\ e \in S
  <2>1. \A i \in S : Weight(fs[i], ls[i], a) \in Int /\ Weight(fs[i], new[i], a) \in Int
    BY <1>1, Weights
  <2>2. g \in [S -> Int] /\ h \in [S -> Int]
    BY <2>1
  <2>. HIDE DEF g, h
  <2>. QED BY <2>1, <2>2, Elements
<1>3. /\ g[e] = Weight(fs[e], ls[e], a) /\ h[e] = Weight(fs[e], list, a)
      /\ \A i \in S \ {e} : h[i] = g[i]
  BY <1>1
<1>4. Sum(fs, ls, a) = P!Total(g) /\ Sum(fs, new, a) = P!Total(h)
  BY DEF Sum
<1>. HIDE DEF g, h, S
<1>5. P!Total(h) = P!Total(g) + h[e] - g[e]
  <2>1. OneOther(S, e, g, h)
    BY <1>2, <1>3 DEF OneOther
  <2>. QED BY <2>1, TotalChanges
<1>. QED BY <1>1, <1>3, <1>4, <1>5

\* A function is added, with an empty list.
LEMMA SumKeeps ==
  ASSUME NEW fs, NEW ls, ListsOf(fs, ls), NEW a, NEW f \in Functions
  PROVE  /\ ListsOf(Append(fs, f), Append(ls, <<>>))
         /\ Sum(Append(fs, f), Append(ls, <<>>), a) = Sum(fs, ls, a)
<1>. DEFINE fs2 == Append(fs, f)
            ls2 == Append(ls, <<>>)
            S == DOMAIN fs2
            n == Len(fs) + 1
            g == [i \in DOMAIN fs |-> Weight(fs[i], ls[i], a)]
            h == [i \in S |-> Weight(fs2[i], ls2[i], a)]
<1>0. <<>> \in ArcList
  BY DEF ArcList
<1>1. /\ Len(fs) \in Nat /\ fs2 \in Seq(Functions) /\ ls2 \in Seq(ArcList)
      /\ Len(fs2) = n /\ Len(ls2) = n /\ DOMAIN fs2 = 1..n /\ DOMAIN ls2 = 1..n
  <2>1. /\ fs \in Seq(Functions) /\ ls \in Seq(ArcList) /\ Len(ls) = Len(fs)
    BY DEF ListsOf
  <2>2. Len(fs) \in Nat /\ fs2 \in Seq(Functions) /\ Len(fs2) = n /\ DOMAIN fs2 = 1..n
    BY <2>1
  <2>3. ls2 \in Seq(ArcList) /\ Len(ls2) = Len(ls) + 1 /\ DOMAIN ls2 = 1..(Len(ls) + 1)
    BY <2>1, <1>0
  <2>. QED BY <2>1, <2>2, <2>3
<1>2. ListsOf(fs2, ls2)
  <2>. HIDE DEF fs2, ls2, n
  <2>. QED BY <1>1 DEF ListsOf
<1>3. /\ ls2[n] = <<>>
      /\ \A i \in 1..Len(fs) : fs2[i] = fs[i] /\ ls2[i] = ls[i]
  <2>1. /\ fs \in Seq(Functions) /\ ls \in Seq(ArcList) /\ Len(ls) = Len(fs)
    BY DEF ListsOf
  <2>2. \A i \in 1..Len(fs) : fs2[i] = fs[i]
    BY <2>1
  <2>3. ls2[Len(ls) + 1] = <<>> /\ \A i \in 1..Len(ls) : ls2[i] = ls[i]
    BY <2>1
  <2>. QED BY <2>1, <2>2, <2>3
<1>4. n \in S /\ DOMAIN fs = 1..Len(fs) /\ DOMAIN fs = S \ {n}
  <2>. HIDE DEF fs2, ls2
  <2>. QED BY <1>1 DEF ListsOf
<1>5. h \in [S -> Int] /\ g \in [DOMAIN fs -> Int]
  <2>1. \A i \in S : Weight(fs2[i], ls2[i], a) \in Int
    BY <1>2, Weights
  <2>2. \A i \in DOMAIN fs : Weight(fs[i], ls[i], a) \in Int
    BY Weights
  <2>. QED BY <2>1, <2>2
<1>6. IsFiniteSet(S) /\ IsFiniteSet(DOMAIN fs)
  <2>1. IsFiniteSet(S)
    BY <1>2, Elements
  <2>. QED BY <2>1, Elements
<1>7. h[n] = 0
  <2>1. \A x : Weight(x, <<>>, a) = 0
    BY TotalOfNothing DEF Weight
  <2>2. h[n] = Weight(fs2[n], ls2[n], a)
    BY <1>4
  <2>. QED BY <1>3, <2>1, <2>2
<1>8. DOMAIN g = S \ {n} /\ \A i \in S \ {n} : h[i] = g[i]
  <2>1. \A i \in DOMAIN fs : h[i] = Weight(fs2[i], ls2[i], a) /\ g[i] = Weight(fs[i], ls[i], a)
    BY <1>4
  <2>2. DOMAIN g = DOMAIN fs
    OBVIOUS
  <2>. HIDE DEF g, h, fs2, ls2, S, n
  <2>. QED BY <1>3, <1>4, <2>1, <2>2
<1>9. Sum(fs, ls, a) = P!Total(g) /\ Sum(fs2, ls2, a) = P!Total(h)
  BY DEF Sum
<1>10. P!Total(g) \in Int
  <2>. HIDE DEF g
  <2>. QED BY <1>5, <1>6, TotalIsInt
<1>. HIDE DEF fs2, ls2, S, n, g, h
<1>11. P!Total(h) = P!Total(g) + h[n]
  <2>1. OneMore(S, n, g, h)
    BY <1>4, <1>5, <1>6, <1>8 DEF OneMore
  <2>. QED BY <2>1, TotalLess
<1>12. Sum(fs2, ls2, a) = Sum(fs, ls, a)
  BY <1>7, <1>9, <1>10, <1>11
<1>. QED BY <1>2, <1>12 DEF fs2, ls2

-----------------------------------------------------------------------------
(***************************************************************************)
(* The counts of the profiler: the inductive invariant says what the       *)
(* locals of a context in mcount stand for, and that the lists do not      *)
(* change under a context that links.                                      *)
(***************************************************************************)

Labels == {"idle", "function", "arc", "load", "store", "test", "clear", "init", "answer",
           "mask", "link", "publish", "unmask"}
Section == {"link", "publish", "unmask"}

Locals == [pc : Labels, self : Functions \cup {P!NONE}, from : Callers \cup {P!NONE},
           entry : Nat, arc : Nat, was : Int]

\* What the locals of a context stand for.
Place(l, fs, ls) ==
  /\ l.pc # "idle" => l.self \in Functions /\ l.from \in Callers
  /\ l.entry # 0 => l.entry \in DOMAIN fs /\ fs[l.entry] = l.self
  /\ l.pc \in {"arc", "load", "store", "publish"} => l.entry # 0
  /\ l.pc \in {"load", "store"} =>
       l.arc \in DOMAIN ls[l.entry] /\ ls[l.entry][l.arc].from = l.from
  /\ l.pc = "publish" => l.was = Len(ls[l.entry])

\* No handler runs while the program links.
SectionOK == ctx["main"].pc \in Section => irqs = FALSE /\ ctx["handler"].pc = "idle"

CountInv ==
  /\ ctx \in [P!Contexts -> Locals]
  /\ ListsOf(fns, arcs)
  /\ calls \in [P!AllArcs -> Int] /\ lost \in [P!AllArcs -> Int]
  /\ \A c \in P!Contexts : Place(ctx[c], fns, arcs)
  /\ SectionOK
  /\ P!Counted

LEMMA MaxIn ==
  ASSUME NEW S \in SUBSET Nat, IsFiniteSet(S), S # {}
  PROVE  P!Sets!Max(S) \in S
<1>. DEFINE C == {{y \in S : y > x} : x \in S}
<1>1. PICK U \in C : \A V \in C : V \subseteq U => V = U
  <2>1. Family(C, S)
    BY DEF Family
  <2>. HIDE DEF C
  <2>. QED BY <2>1, SmallestSet
<1>2. PICK x \in S : U = {y \in S : y > x}
  OBVIOUS
<1>3. ASSUME NEW y \in S, y > x PROVE FALSE
  <2>. DEFINE V == {z \in S : z > y}
  <2>1. V \in C
    OBVIOUS
  <2>2. \A z \in S : z \in Int
    OBVIOUS
  <2>3. V \subseteq U
    <3>1. \A z \in S : z > y => z > x
      BY <1>3, <2>2
    <3>. QED BY <1>2, <3>1
  <2>4. y \in U /\ y \notin V
    <3>1. ~ (y > y)
      BY <2>2
    <3>. QED BY <1>2, <1>3, <3>1
  <2>. HIDE DEF V, C
  <2>. QED BY <1>1, <2>1, <2>3, <2>4
<1>4. \E z \in S : \A y \in S : z >= y
  BY <1>3
<1>. QED BY <1>4 DEF P!Sets!Max

\* An entry that is found is the one that was looked for.
LEMMA FunctionFound ==
  ASSUME ListsOf(fns, arcs), NEW f
  PROVE  LET e == P!FirstIn(fns, LAMBDA g : g = f)
         IN  e \in Nat /\ (e # 0 => e \in DOMAIN fns /\ fns[e] = f)
<1>. DEFINE S == {i \in DOMAIN fns : fns[i] = f}
            e == P!FirstIn(fns, LAMBDA g : g = f)
<1>1. e = IF S = {} THEN 0 ELSE P!Sets!Max(S)
  BY DEF P!FirstIn, P!NONE
<1>2. S \in SUBSET Nat /\ IsFiniteSet(S)
  <2>1. IsFiniteSet(DOMAIN fns) /\ S \subseteq DOMAIN fns
    BY Elements
  <2>2. DOMAIN fns \subseteq Nat
    BY Elements DEF ListsOf
  <2>. HIDE DEF S
  <2>. QED BY <2>1, <2>2, FS_Subset
<1>3. S # {} => P!Sets!Max(S) \in S
  <2>. HIDE DEF S
  <2>. QED BY <1>2, MaxIn
<1>. HIDE DEF e
<1>4. e \in Nat /\ (e # 0 => e \in S)
  <2>. HIDE DEF S
  <2>. QED BY <1>1, <1>2, <1>3
<1>5. e \in Nat /\ (e # 0 => e \in DOMAIN fns /\ fns[e] = f)
  BY <1>4
<1>. QED BY <1>5 DEF e

LEMMA ArcFound ==
  ASSUME NEW list \in Seq(Arc), NEW f
  PROVE  LET k == P!FirstIn(list, LAMBDA r : r.from = f)
         IN  k \in Nat /\ (k # 0 => k \in DOMAIN list /\ list[k].from = f)
<1>. DEFINE S == {i \in DOMAIN list : list[i].from = f}
            k == P!FirstIn(list, LAMBDA r : r.from = f)
<1>1. k = IF S = {} THEN 0 ELSE P!Sets!Max(S)
  BY DEF P!FirstIn, P!NONE
<1>2. S \in SUBSET Nat /\ IsFiniteSet(S)
  <2>1. IsFiniteSet(DOMAIN list) /\ S \subseteq DOMAIN list
    BY Indices
  <2>2. DOMAIN list \subseteq Nat
    OBVIOUS
  <2>. HIDE DEF S
  <2>. QED BY <2>1, <2>2, FS_Subset
<1>3. S # {} => P!Sets!Max(S) \in S
  <2>. HIDE DEF S
  <2>. QED BY <1>2, MaxIn
<1>. HIDE DEF k
<1>4. k \in Nat /\ (k # 0 => k \in S)
  <2>. HIDE DEF S
  <2>. QED BY <1>1, <1>2, <1>3
<1>5. k \in Nat /\ (k # 0 => k \in DOMAIN list /\ list[k].from = f)
  BY <1>4
<1>. QED BY <1>5 DEF k

-----------------------------------------------------------------------------
\* Handlers and program do not link at the same time.

LEMMA Exclusive ==
  ASSUME CountInv, NEW c \in P!Contexts, ctx[c].pc # "idle",
         c = "main" => ctx["handler"].pc = "idle"
  PROVE  \A d \in P!Contexts \ {c} : ctx[d].pc # "publish"
BY DEF CountInv, SectionOK, P!Contexts, Section

\* The steps of one context, the other standing still.
Moves(c) == \A d \in P!Contexts \ {c} : ctx'[d] = ctx[d]

LEMMA SectionHolds ==
  ASSUME CountInv, P!Next
  PROVE  SectionOK'
<1>. "main" \in P!Contexts /\ "handler" \in P!Contexts /\ P!Contexts = {"main", "handler"}
  BY DEF P!Contexts
<1>. ctx \in [P!Contexts -> Locals] /\ SectionOK
  BY DEF CountInv
<1>. USE DEF SectionOK, Section, Moves
<1>1. ASSUME NEW c \in P!Contexts, NEW f \in Functions, NEW from \in Callers, P!Call(c, f, from)
      PROVE  SectionOK'
  <2>1. ctx'[c].pc = "function" /\ irqs' = irqs /\ Moves(c)
    BY <1>1 DEF P!Call, P!Idle
  <2>2. c = "handler" => irqs # FALSE
    BY <1>1 DEF P!Call
  <2>. QED BY <2>1, <2>2
<1>2. ASSUME NEW c \in P!Contexts, Moves(c), ctx[c].pc # "idle", ctx'[c].pc \notin Section,
             irqs' = irqs
      PROVE  SectionOK'
  BY <1>2
<1>3. ASSUME NEW c \in P!Contexts, Moves(c), ctx[c].pc # "idle", ctx'[c].pc \in Section,
             c = "main" => ctx["handler"].pc = "idle",
             irqs' = FALSE \/ (ctx[c].pc \in Section /\ irqs' = irqs)
      PROVE  SectionOK'
  <2>1. CASE c = "main"
    BY <1>3, <2>1
  <2>2. CASE c = "handler"
    BY <1>3, <2>2
  <2>. QED BY <2>1, <2>2
<1>4. ASSUME NEW c \in P!Contexts, P!FindFunction(c) PROVE SectionOK'
  <2>1. PICK e : ctx' = [ctx EXCEPT ![c].entry = e, ![c].pc = IF e = P!NONE THEN "test" ELSE "arc"]
    BY <1>4 DEF P!FindFunction
  <2>2. ctx[c].pc # "idle" /\ irqs' = irqs
    BY <1>4 DEF P!FindFunction, P!At
  <2>3. Moves(c) /\ ctx'[c].pc \notin Section
    BY <2>1
  <2>. QED BY <1>2, <2>2, <2>3
<1>5. ASSUME NEW c \in P!Contexts, P!FindArc(c) PROVE SectionOK'
  <2>1. PICK k : ctx' = [ctx EXCEPT ![c].arc = k, ![c].pc = IF k = P!NONE THEN "test" ELSE "load"]
    BY <1>5 DEF P!FindArc
  <2>2. ctx[c].pc # "idle" /\ irqs' = irqs
    BY <1>5 DEF P!FindArc, P!At
  <2>3. Moves(c) /\ ctx'[c].pc \notin Section
    BY <2>1
  <2>. QED BY <1>2, <2>2, <2>3
<1>6. ASSUME NEW c \in P!Contexts, P!LoadCount(c) PROVE SectionOK'
  <2>1. Moves(c) /\ ctx[c].pc # "idle" /\ ctx'[c].pc \notin Section /\ irqs' = irqs
    BY <1>6 DEF P!LoadCount, P!At, P!Goto, P!Idle
  <2>. QED BY <1>2, <2>1
<1>7. ASSUME NEW c \in P!Contexts, P!StoreCount(c) PROVE SectionOK'
  <2>1. Moves(c) /\ ctx[c].pc # "idle" /\ ctx'[c].pc \notin Section /\ irqs' = irqs
    BY <1>7 DEF P!StoreCount, P!At, P!Goto, P!Idle
  <2>. QED BY <1>2, <2>1
<1>8. ASSUME NEW c \in P!Contexts, P!TestInit(c) PROVE SectionOK'
  <2>1. Moves(c) /\ ctx[c].pc # "idle" /\ ctx'[c].pc \notin Section /\ irqs' = irqs
    BY <1>8 DEF P!TestInit, P!At, P!Goto, P!Idle
  <2>. QED BY <1>2, <2>1
<1>9. ASSUME NEW c \in P!Contexts, P!ClearInit(c) PROVE SectionOK'
  <2>1. Moves(c) /\ ctx[c].pc # "idle" /\ ctx'[c].pc \notin Section /\ irqs' = irqs
    BY <1>9 DEF P!ClearInit, P!At, P!Goto, P!Idle
  <2>. QED BY <1>2, <2>1
<1>10. ASSUME NEW c \in P!Contexts, P!nios2_pcsample_init(c) PROVE SectionOK'
  <2>1. Moves(c) /\ ctx[c].pc # "idle" /\ ctx'[c].pc \notin Section /\ irqs' = irqs
    BY <1>10 DEF P!nios2_pcsample_init, P!At, P!Goto, P!Idle
  <2>. QED BY <1>2, <2>1
<1>11. ASSUME NEW c \in P!Contexts, P!SetInit(c) PROVE SectionOK'
  <2>1. Moves(c) /\ ctx[c].pc # "idle" /\ ctx'[c].pc \notin Section /\ irqs' = irqs
    BY <1>11 DEF P!SetInit, P!At, P!Goto, P!Idle
  <2>. QED BY <1>2, <2>1
<1>12. ASSUME NEW c \in P!Contexts, P!LinkFunction(c) PROVE SectionOK'
  <2>1. PICK l : ctx' = [ctx EXCEPT ![c] = l] /\ l.pc = "publish"
    <3>1. CASE ctx[c].entry = P!NONE
      <4>. DEFINE l == [ctx[c] EXCEPT !.entry = Len(fns) + 1, !.was = 0, !.pc = "publish"]
      <4>1. ctx' = [ctx EXCEPT ![c] = l] /\ l.pc = "publish"
        BY <1>12, <3>1 DEF P!LinkFunction, Locals
      <4>. QED BY <4>1
    <3>2. CASE ctx[c].entry # P!NONE
      <4>. DEFINE l == [ctx[c] EXCEPT !.was = Len(arcs[ctx[c].entry]), !.pc = "publish"]
      <4>1. ctx' = [ctx EXCEPT ![c] = l] /\ l.pc = "publish"
        BY <1>12, <3>2 DEF P!LinkFunction, Locals
      <4>. QED BY <4>1
    <3>. QED BY <3>1, <3>2
  <2>2. Moves(c) /\ ctx[c].pc = "link" /\ ctx'[c].pc \in Section /\ irqs' = irqs
    BY <1>12, <2>1 DEF P!LinkFunction, P!At
  <2>3. c = "main" => ctx["handler"].pc = "idle"
    BY <1>12 DEF P!LinkFunction, P!At
  <2>. QED BY <1>3, <2>2, <2>3
<1>13. ASSUME NEW c \in P!Contexts, P!LinkArc(c) PROVE SectionOK'
  <2>1. Moves(c) /\ ctx[c].pc = "publish" /\ ctx'[c].pc \in Section /\ irqs' = irqs
    BY <1>13 DEF P!LinkArc, P!At, P!Goto
  <2>2. c = "main" => ctx["handler"].pc = "idle"
    BY <1>13 DEF P!LinkArc, P!At
  <2>. QED BY <1>3, <2>1, <2>2
<1>14. ASSUME NEW c \in P!Contexts, P!Mask(c) PROVE SectionOK'
  <2>1. Moves(c) /\ ctx[c].pc = "mask" /\ ctx'[c].pc \in Section /\ irqs' = FALSE
    BY <1>14 DEF P!Mask, P!At, P!Goto
  <2>2. c = "main" => ctx["handler"].pc = "idle"
    BY <1>14 DEF P!Mask, P!At
  <2>. QED BY <1>3, <2>1, <2>2
<1>15. ASSUME NEW c \in P!Contexts, P!Unmask(c) PROVE SectionOK'
  <2>1. Moves(c) /\ ctx[c].pc = "unmask" /\ ctx'[c].pc = "idle"
    BY <1>15 DEF P!Unmask, P!At, P!Idle
  <2>. QED BY <2>1
<1>16. CASE P!ClockStarts
  BY <1>16 DEF P!ClockStarts
<1>. QED BY <1>1, <1>4, <1>5, <1>6, <1>7, <1>8, <1>9, <1>10, <1>11, <1>12, <1>13, <1>14, <1>15,
            <1>16 DEF P!Next

-----------------------------------------------------------------------------
\* The steps.

\* A step that leaves the lists and the counters alone.
LEMMA LocalStep ==
  ASSUME CountInv, NEW c \in P!Contexts, NEW v \in Locals, Place(v, fns, arcs),
         ctx' = [ctx EXCEPT ![c] = v], UNCHANGED <<fns, arcs, calls, lost>>, SectionOK'
  PROVE  CountInv'
<1>1. ctx \in [P!Contexts -> Locals]
  BY DEF CountInv
<1>2. ctx' \in [P!Contexts -> Locals] /\ ctx'[c] = v /\ \A d \in P!Contexts \ {c} : ctx'[d] = ctx[d]
  BY <1>1
<1>3. \A d \in P!Contexts : Place(ctx[d], fns, arcs)
  BY DEF CountInv
<1>4. \A d \in P!Contexts : Place(ctx'[d], fns', arcs')
  <2>1. fns' = fns /\ arcs' = arcs
    OBVIOUS
  <2>. QED BY <1>2, <1>3, <2>1
<1>5. ListsOf(fns', arcs') /\ calls' \in [P!AllArcs -> Int] /\ lost' \in [P!AllArcs -> Int]
  BY DEF CountInv
<1>6. P!Counted'
  <2>1. fns' = fns /\ arcs' = arcs /\ calls' = calls /\ lost' = lost
    OBVIOUS
  <2>2. \A a \in P!AllArcs : Sum(fns, arcs, a) + lost[a] = calls[a]
    BY RecordedIsSum DEF CountInv, P!Counted
  <2>3. \A a \in P!AllArcs : Sum(fns', arcs', a) + lost'[a] = calls'[a]
    BY <2>1, <2>2
  <2>. QED BY <2>3, RecordedIsSum DEF P!Counted
<1>. QED BY <1>2, <1>4, <1>5, <1>6 DEF CountInv

\* What is in the lists stays where it is.
Grown(fs, ls, fs2, ls2) ==
  \A e \in DOMAIN fs :
    /\ e \in DOMAIN fs2 /\ fs2[e] = fs[e]
    /\ \A k \in DOMAIN ls[e] : k \in DOMAIN ls2[e] /\ ls2[e][k].from = ls[e][k].from

LEMMA PlaceKept ==
  ASSUME NEW l, NEW fs, NEW ls, NEW fs2, NEW ls2, Place(l, fs, ls), Grown(fs, ls, fs2, ls2),
         l.pc # "publish"
  PROVE  Place(l, fs2, ls2)
BY DEF Place, Grown

\* A step that adds to the lists or writes a count: what is left is that the sums are right.
LEMMA ListStep ==
  ASSUME CountInv, NEW c \in P!Contexts, NEW v \in Locals, Place(v, fns', arcs'),
         ctx' = [ctx EXCEPT ![c] = v], \A d \in P!Contexts \ {c} : ctx[d].pc # "publish",
         ListsOf(fns', arcs'), Grown(fns, arcs, fns', arcs'),
         calls' \in [P!AllArcs -> Int], lost' \in [P!AllArcs -> Int],
         \A a \in P!AllArcs : Sum(fns', arcs', a) + lost'[a] = calls'[a],
         SectionOK'
  PROVE  CountInv'
<1>1. ctx \in [P!Contexts -> Locals]
  BY DEF CountInv
<1>2. ctx' \in [P!Contexts -> Locals] /\ ctx'[c] = v /\ \A d \in P!Contexts \ {c} : ctx'[d] = ctx[d]
  BY <1>1
<1>3. \A d \in P!Contexts : Place(ctx[d], fns, arcs)
  BY DEF CountInv
<1>4. \A d \in P!Contexts \ {c} : Place(ctx'[d], fns', arcs')
  BY <1>2, <1>3, PlaceKept
<1>5. P!Counted'
  BY RecordedIsSum DEF P!Counted
<1>. QED BY <1>2, <1>4, <1>5 DEF CountInv

\* What holds of the context that makes a step.
LEMMA Here ==
  ASSUME CountInv, NEW c \in P!Contexts
  PROVE  /\ ctx \in [P!Contexts -> Locals] /\ ctx[c] \in Locals
         /\ Place(ctx[c], fns, arcs) /\ ListsOf(fns, arcs)
         /\ \A a \in P!AllArcs : /\ Sum(fns, arcs, a) + lost[a] = calls[a]
                                 /\ Sum(fns, arcs, a) \in Int
                                 /\ lost[a] \in Int /\ calls[a] \in Int
<1>1. ListsOf(fns, arcs) /\ ctx \in [P!Contexts -> Locals] /\ Place(ctx[c], fns, arcs)
  BY DEF CountInv
<1>2. ctx[c] \in Locals
  BY <1>1
<1>3. \A a \in P!AllArcs : lost[a] \in Int /\ calls[a] \in Int
  BY DEF CountInv
<1>4. \A a \in P!AllArcs : Sum(fns, arcs, a) + lost[a] = calls[a]
  BY RecordedIsSum DEF CountInv, P!Counted
<1>5. \A a : Sum(fns, arcs, a) \in Int
  <2>. TAKE a
  <2>. DEFINE g == [e \in DOMAIN fns |-> Weight(fns[e], arcs[e], a)]
              S == DOMAIN fns
  <2>1. \A e \in S : Weight(fns[e], arcs[e], a) \in Int
    BY <1>1, Weights
  <2>2. g \in [S -> Int]
    BY <2>1
  <2>3. IsFiniteSet(S)
    BY <1>1, Elements
  <2>4. Sum(fns, arcs, a) = P!Total(g)
    BY DEF Sum
  <2>. HIDE DEF g, S
  <2>. QED BY <2>2, <2>3, <2>4, TotalIsInt
<1>. QED BY <1>1, <1>2, <1>3, <1>4, <1>5

LEMMA StepTestInit ==
  ASSUME CountInv, SectionOK', NEW c \in P!Contexts, P!TestInit(c)
  PROVE  CountInv'
<1>. DEFINE l == ctx[c]
<1>. DEFINE v == [l EXCEPT !.pc = IF need_init = 1 THEN "clear" ELSE "mask"]
<1>1. l \in Locals /\ Place(l, fns, arcs) /\ ctx \in [P!Contexts -> Locals]
  BY Here
<1>2. ctx' = [ctx EXCEPT ![c] = v] /\ UNCHANGED <<fns, arcs, calls, lost>>
  BY <1>1 DEF P!TestInit, P!Goto
<1>3. v \in Locals /\ Place(v, fns, arcs)
  BY <1>1 DEF P!TestInit, P!At, Locals, Labels, Place
<1>. HIDE DEF v, l
<1>. QED BY <1>2, <1>3, LocalStep

LEMMA StepClearInit ==
  ASSUME CountInv, SectionOK', NEW c \in P!Contexts, P!ClearInit(c)
  PROVE  CountInv'
<1>. DEFINE l == ctx[c]
<1>. DEFINE v == [l EXCEPT !.pc = "init"]
<1>1. l \in Locals /\ Place(l, fns, arcs) /\ ctx \in [P!Contexts -> Locals]
  BY Here
<1>2. ctx' = [ctx EXCEPT ![c] = v] /\ UNCHANGED <<fns, arcs, calls, lost>>
  BY <1>1 DEF P!ClearInit, P!Goto
<1>3. v \in Locals /\ Place(v, fns, arcs)
  BY <1>1 DEF P!ClearInit, P!At, Locals, Labels, Place
<1>. HIDE DEF v, l
<1>. QED BY <1>2, <1>3, LocalStep

LEMMA Stepnios2_pcsample_init ==
  ASSUME CountInv, SectionOK', NEW c \in P!Contexts, P!nios2_pcsample_init(c)
  PROVE  CountInv'
<1>. DEFINE l == ctx[c]
<1>. DEFINE v == [l EXCEPT !.was = IF clock THEN 0 ELSE 1, !.pc = "answer"]
<1>1. l \in Locals /\ Place(l, fns, arcs) /\ ctx \in [P!Contexts -> Locals]
  BY Here
<1>2. ctx' = [ctx EXCEPT ![c] = v] /\ UNCHANGED <<fns, arcs, calls, lost>>
  BY <1>1 DEF P!nios2_pcsample_init, P!Goto
<1>3. v \in Locals /\ Place(v, fns, arcs)
  BY <1>1 DEF P!nios2_pcsample_init, P!At, Locals, Labels, Place
<1>. HIDE DEF v, l
<1>. QED BY <1>2, <1>3, LocalStep

LEMMA StepSetInit ==
  ASSUME CountInv, SectionOK', NEW c \in P!Contexts, P!SetInit(c)
  PROVE  CountInv'
<1>. DEFINE l == ctx[c]
<1>. DEFINE v == [l EXCEPT !.pc = "mask"]
<1>1. l \in Locals /\ Place(l, fns, arcs) /\ ctx \in [P!Contexts -> Locals]
  BY Here
<1>2. ctx' = [ctx EXCEPT ![c] = v] /\ UNCHANGED <<fns, arcs, calls, lost>>
  BY <1>1 DEF P!SetInit, P!Goto
<1>3. v \in Locals /\ Place(v, fns, arcs)
  BY <1>1 DEF P!SetInit, P!At, Locals, Labels, Place
<1>. HIDE DEF v, l
<1>. QED BY <1>2, <1>3, LocalStep

LEMMA StepMask ==
  ASSUME CountInv, SectionOK', NEW c \in P!Contexts, P!Mask(c)
  PROVE  CountInv'
<1>. DEFINE l == ctx[c]
<1>. DEFINE v == [l EXCEPT !.pc = "link"]
<1>1. l \in Locals /\ Place(l, fns, arcs) /\ ctx \in [P!Contexts -> Locals]
  BY Here
<1>2. ctx' = [ctx EXCEPT ![c] = v] /\ UNCHANGED <<fns, arcs, calls, lost>>
  BY <1>1 DEF P!Mask, P!Goto
<1>3. v \in Locals /\ Place(v, fns, arcs)
  BY <1>1 DEF P!Mask, P!At, Locals, Labels, Place
<1>. HIDE DEF v, l
<1>. QED BY <1>2, <1>3, LocalStep

LEMMA StepUnmask ==
  ASSUME CountInv, SectionOK', NEW c \in P!Contexts, P!Unmask(c)
  PROVE  CountInv'
<1>. DEFINE l == ctx[c]
<1>. DEFINE v == P!Idle
<1>1. l \in Locals /\ Place(l, fns, arcs) /\ ctx \in [P!Contexts -> Locals]
  BY Here
<1>2. ctx' = [ctx EXCEPT ![c] = v] /\ UNCHANGED <<fns, arcs, calls, lost>>
  BY <1>1 DEF P!Unmask, P!Goto
<1>3. v \in Locals /\ Place(v, fns, arcs)
  BY <1>1 DEF P!Unmask, P!At, Locals, Labels, Place, P!Idle, P!NONE
<1>. HIDE DEF v, l
<1>. QED BY <1>2, <1>3, LocalStep

LEMMA StepCall ==
  ASSUME CountInv, SectionOK', NEW c \in P!Contexts, NEW f \in Functions, NEW from \in Callers,
         P!Call(c, f, from)
  PROVE  CountInv'
<1>. DEFINE v == [P!Idle EXCEPT !.pc = "function", !.self = f, !.from = from]
<1>1. ctx \in [P!Contexts -> Locals]
  BY Here
<1>2. ctx' = [ctx EXCEPT ![c] = v] /\ UNCHANGED <<fns, arcs, calls, lost>>
  BY DEF P!Call
<1>3. P!Idle \in Locals /\ P!Idle.entry = 0
  BY DEF P!Idle, P!NONE, Locals, Labels
<1>4. v \in Locals /\ v.pc = "function" /\ v.self = f /\ v.from = from /\ v.entry = 0
  BY <1>3 DEF Locals, Labels
<1>. HIDE DEF v
<1>5. Place(v, fns, arcs)
  BY <1>4 DEF Place
<1>. QED BY <1>2, <1>4, <1>5, LocalStep

LEMMA StepFindFunction ==
  ASSUME CountInv, SectionOK', NEW c \in P!Contexts, P!FindFunction(c)
  PROVE  CountInv'
<1>. DEFINE l == ctx[c]
            e == P!FirstIn(fns, LAMBDA g : g = ctx[c].self)
            v == [l EXCEPT !.entry = e, !.pc = IF e = P!NONE THEN "test" ELSE "arc"]
<1>1. l \in Locals /\ Place(l, fns, arcs) /\ ctx \in [P!Contexts -> Locals] /\ l.pc = "function"
  BY Here DEF P!FindFunction, P!At
<1>2. ctx' = [ctx EXCEPT ![c] = v] /\ UNCHANGED <<fns, arcs, calls, lost>>
  BY <1>1 DEF P!FindFunction
<1>3. e \in Nat /\ (e # 0 => e \in DOMAIN fns /\ fns[e] = ctx[c].self)
  <2>1. ListsOf(fns, arcs)
    BY Here
  <2>. QED BY <2>1, FunctionFound
<1>. HIDE DEF e
<1>4. v \in Locals /\ Place(v, fns, arcs)
  BY <1>1, <1>3 DEF Locals, Labels, Place, P!NONE
<1>. HIDE DEF v, l
<1>. QED BY <1>2, <1>4, LocalStep

LEMMA StepFindArc ==
  ASSUME CountInv, SectionOK', NEW c \in P!Contexts, P!FindArc(c)
  PROVE  CountInv'
<1>. DEFINE l == ctx[c]
            k == P!FirstIn(arcs[ctx[c].entry], LAMBDA r : r.from = ctx[c].from)
            v == [l EXCEPT !.arc = k, !.pc = IF k = P!NONE THEN "test" ELSE "load"]
<1>1. l \in Locals /\ Place(l, fns, arcs) /\ ctx \in [P!Contexts -> Locals] /\ l.pc = "arc"
  BY Here DEF P!FindArc, P!At
<1>2. ctx' = [ctx EXCEPT ![c] = v] /\ UNCHANGED <<fns, arcs, calls, lost>>
  BY <1>1 DEF P!FindArc
<1>3. /\ k \in Nat
      /\ k # 0 => k \in DOMAIN arcs[ctx[c].entry] /\ arcs[ctx[c].entry][k].from = ctx[c].from
  <2>1. ListsOf(fns, arcs) /\ ctx[c].entry \in DOMAIN fns
    BY <1>1, Here DEF Place
  <2>2. arcs[ctx[c].entry] \in Seq(Arc)
    BY <2>1, Elements
  <2>. QED BY <2>2, ArcFound
<1>. HIDE DEF k
<1>4. v \in Locals /\ Place(v, fns, arcs)
  BY <1>1, <1>3 DEF Locals, Labels, Place, P!NONE
<1>. HIDE DEF v, l
<1>. QED BY <1>2, <1>4, LocalStep

LEMMA StepLoadCount ==
  ASSUME CountInv, SectionOK', NEW c \in P!Contexts, P!LoadCount(c)
  PROVE  CountInv'
<1>. DEFINE l == ctx[c]
            n == arcs[l.entry][l.arc].count
            v == [l EXCEPT !.was = n, !.pc = "store"]
<1>1. l \in Locals /\ Place(l, fns, arcs) /\ ctx \in [P!Contexts -> Locals] /\ l.pc = "load"
  BY Here DEF P!LoadCount, P!At
<1>2. ctx' = [ctx EXCEPT ![c] = v] /\ UNCHANGED <<fns, arcs, calls, lost>>
  BY <1>1 DEF P!LoadCount
<1>3. n \in Int
  <2>1. ListsOf(fns, arcs) /\ l.entry \in DOMAIN fns /\ l.arc \in DOMAIN arcs[l.entry]
    BY <1>1, Here DEF Place
  <2>2. arcs[l.entry] \in Seq(Arc)
    BY <2>1, Elements
  <2>3. arcs[l.entry][l.arc] \in Arc
    BY <2>1, <2>2
  <2>. QED BY <2>3 DEF Arc
<1>. HIDE DEF n
<1>4. v \in Locals /\ Place(v, fns, arcs)
  BY <1>1, <1>3 DEF Locals, Labels, Place
<1>. HIDE DEF v, l
<1>. QED BY <1>2, <1>4, LocalStep

\* The count is written over what the other context may have stored meanwhile: the total
\* moves by what lost and calls are charged with.
LEMMA StepStoreCount ==
  ASSUME CountInv, SectionOK', NEW c \in P!Contexts, P!StoreCount(c)
  PROVE  CountInv'
<1>. DEFINE l == ctx[c]
            list == arcs[l.entry]
            old == list[l.arc]
            r == [old EXCEPT !.count = l.was + 1]
            new == [list EXCEPT ![l.arc] = r]
            mine == <<l.self, l.from>>
<1>1. /\ l \in Locals /\ Place(l, fns, arcs) /\ l.pc = "store" /\ (c = "main" => ctx["handler"].pc = "idle")
      /\ ListsOf(fns, arcs)
  BY Here DEF P!StoreCount, P!At
<1>2. /\ l.self \in Functions /\ l.from \in Callers /\ l.was \in Int
      /\ l.entry \in DOMAIN fns /\ fns[l.entry] = l.self
      /\ l.arc \in DOMAIN list /\ old.from = l.from
  BY <1>1 DEF Place, Locals
<1>3. list \in Seq(Arc)
  BY <1>1, <1>2, Elements
<1>4. old \in Arc
  BY <1>2, <1>3
<1>5. r \in Arc /\ r.from = l.from /\ r.count = l.was + 1
  BY <1>2, <1>4 DEF Arc
<1>6. /\ arcs' = [arcs EXCEPT ![l.entry] = new] /\ fns' = fns
      /\ ctx' = [ctx EXCEPT ![c] = P!Idle]
      /\ lost' = [lost EXCEPT ![mine] = @ + old.count - l.was]
      /\ calls' = [calls EXCEPT ![mine] = @ + 1]
  <2>1. arcs' = [arcs EXCEPT ![l.entry][l.arc].count = l.was + 1]
    BY DEF P!StoreCount
  <2>2. arcs' = [arcs EXCEPT ![l.entry] = new]
    BY <2>1
  <2>. QED BY <2>2 DEF P!StoreCount, P!ArcOf
<1>7. mine \in P!AllArcs /\ old.count \in Int
  BY <1>2, <1>4 DEF P!AllArcs, Arc
<1>8. new \in Seq(Arc) /\ DOMAIN new = DOMAIN list /\ \A k \in DOMAIN list : new[k].from = list[k].from
  <2>1. new \in Seq(Arc) /\ DOMAIN new = DOMAIN list
    BY <1>2, <1>3, <1>5
  <2>2. ASSUME NEW k \in DOMAIN list PROVE new[k].from = list[k].from
    <3>1. CASE k = l.arc
      BY <1>2, <1>5, <3>1
    <3>2. CASE k # l.arc
      BY <3>2
    <3>. QED BY <3>1, <3>2
  <2>. QED BY <2>1, <2>2
<1>9. P!Idle \in Locals /\ Place(P!Idle, fns', arcs')
  BY DEF Locals, Labels, Place, P!Idle, P!NONE
<1>10. \A d \in P!Contexts \ {c} : ctx[d].pc # "publish"
  BY <1>1, Exclusive
<1>11. calls \in [P!AllArcs -> Int] /\ lost \in [P!AllArcs -> Int]
  BY DEF CountInv
<1>12. calls' \in [P!AllArcs -> Int] /\ lost' \in [P!AllArcs -> Int]
  <2>. HIDE DEF new, r, old, list, l, mine
  <2>1. ASSUME NEW f \in [P!AllArcs -> Int], NEW n \in Int
        PROVE  [f EXCEPT ![mine] = n] \in [P!AllArcs -> Int]
    OBVIOUS
  <2>2. calls[mine] + 1 \in Int /\ lost[mine] + old.count - l.was \in Int
    BY <1>2, <1>7, <1>11
  <2>. QED BY <1>6, <1>11, <2>1, <2>2
<1>. HIDE DEF new, r, old, list, l, mine
<1>13. ListsOf(fns', arcs')
  BY <1>1, <1>2, <1>6, <1>8, SumChanges DEF OneList
<1>14. Grown(fns, arcs, fns', arcs')
  <2>1. DOMAIN arcs = DOMAIN fns
    BY <1>1, Elements
  <2>2. arcs'[l.entry] = new /\ \A e \in DOMAIN fns \ {l.entry} : arcs'[e] = arcs[e]
    BY <1>2, <1>6, <2>1
  <2>3. fns' = fns
    BY <1>6
  <2>. QED BY <1>8, <2>2, <2>3 DEF Grown, list
<1>15. ASSUME NEW a \in P!AllArcs
       PROVE  Sum(fns', arcs', a) + lost'[a] = calls'[a]
  <2>1. Sum(fns, arcs', a) = Sum(fns, arcs, a) + Weight(fns[l.entry], new, a) - Weight(fns[l.entry], list, a)
    <3>1. Sum(fns, arcs', a)
            = Sum(fns, arcs, a) + Weight(fns[l.entry], new, a) - Weight(fns[l.entry], arcs[l.entry], a)
      <4>1. OneList(fns, arcs, l.entry, new, arcs')
        BY <1>1, <1>2, <1>6, <1>8 DEF OneList
      <4>. QED BY <4>1, SumChanges
    <3>. QED BY <3>1 DEF list
  <2>2. Weight(fns[l.entry], new, a) = Weight(fns[l.entry], list, a) + One(l.self, r, a) - One(l.self, old, a)
    BY <1>2, <1>3, <1>5, WeightStored DEF new, old
  <2>3. Weight(fns[l.entry], list, a) \in Int /\ One(l.self, r, a) \in Int /\ One(l.self, old, a) \in Int
    BY <1>3, <1>4, <1>5, WeightOfOnes, OneIsInt
  <2>4. /\ Sum(fns, arcs, a) + lost[a] = calls[a] /\ Sum(fns, arcs, a) \in Int
        /\ lost[a] \in Int /\ calls[a] \in Int
    BY Here
  <2>5. Sum(fns', arcs', a) = Sum(fns, arcs, a) + One(l.self, r, a) - One(l.self, old, a)
    <3>1. fns' = fns
      BY <1>6
    <3>. QED BY <2>1, <2>2, <2>3, <2>4, <3>1
  <2>6. CASE a = mine
    <3>1. a[1] = l.self /\ a[2] = l.from
      BY <2>6 DEF mine
    <3>2. One(l.self, r, a) = l.was + 1 /\ One(l.self, old, a) = old.count
      BY <1>2, <1>5, <3>1 DEF One
    <3>3. lost'[a] = lost[a] + old.count - l.was /\ calls'[a] = calls[a] + 1
      BY <1>6, <1>7, <1>11, <2>6
    <3>. QED BY <1>2, <1>7, <2>4, <2>5, <3>2, <3>3
  <2>7. CASE a # mine
    <3>1. l.self # a[1] \/ l.from # a[2]
      BY <2>7 DEF mine, P!AllArcs
    <3>2. One(l.self, r, a) = 0 /\ One(l.self, old, a) = 0
      BY <1>2, <1>5, <3>1 DEF One
    <3>3. lost'[a] = lost[a] /\ calls'[a] = calls[a]
      BY <1>6, <1>11, <2>7
    <3>. QED BY <2>4, <2>5, <3>2, <3>3
  <2>. QED BY <2>6, <2>7
<1>. QED BY <1>6, <1>9, <1>10, <1>12, <1>13, <1>14, <1>15, ListStep

\* Writing one local, and the locals of a call that has just linked what it needs.
LEMMA OneLocal ==
  /\ \A l \in Locals, n \in Nat : [l EXCEPT !.entry = n] \in Locals
  /\ \A l \in Locals, w \in Int : [l EXCEPT !.was = w] \in Locals
  /\ \A l \in Locals, p \in Labels : [l EXCEPT !.pc = p] \in Locals
<1>1. \A l \in Locals, n \in Nat : [l EXCEPT !.entry = n] \in Locals
  BY DEF Locals
<1>2. \A l \in Locals, w \in Int : [l EXCEPT !.was = w] \in Locals
  BY DEF Locals
<1>3. \A l \in Locals, p \in Labels : [l EXCEPT !.pc = p] \in Locals
  BY DEF Locals
<1>. QED BY <1>1, <1>2, <1>3

LEMMA LinkedLocals ==
  ASSUME NEW l \in Locals, NEW n \in Nat
  PROVE  [l EXCEPT !.entry = n, !.was = 0, !.pc = "publish"] \in Locals
<1>. DEFINE e == [l EXCEPT !.entry = n]
            w == [e EXCEPT !.was = 0]
            p == [w EXCEPT !.pc = "publish"]
<1>1. p = [l EXCEPT !.entry = n, !.was = 0, !.pc = "publish"]
  OBVIOUS
<1>2. e \in Locals
  BY OneLocal DEF Labels
<1>. HIDE DEF e
<1>3. w \in Locals
  BY <1>2, 0 \in Int, OneLocal
<1>. HIDE DEF w
<1>4. p \in Locals
  BY <1>3, OneLocal DEF Labels
<1>. QED BY <1>1, <1>4

\* A new function has no arcs yet.
LEMMA StepLinkFunction ==
  ASSUME CountInv, SectionOK', NEW c \in P!Contexts, P!LinkFunction(c)
  PROVE  CountInv'
<1>. DEFINE l == ctx[c]
<1>1. /\ l \in Locals /\ Place(l, fns, arcs) /\ l.pc = "link" /\ (c = "main" => ctx["handler"].pc = "idle")
      /\ ListsOf(fns, arcs) /\ ctx \in [P!Contexts -> Locals]
  BY Here DEF P!LinkFunction, P!At
<1>2. CASE l.entry = P!NONE
  <2>. DEFINE v == [l EXCEPT !.entry = Len(fns) + 1, !.was = 0, !.pc = "publish"]
  <2>1. /\ fns' = Append(fns, l.self) /\ arcs' = Append(arcs, <<>>)
        /\ ctx' = [ctx EXCEPT ![c] = v] /\ calls' = calls /\ lost' = lost
    BY <1>1, <1>2 DEF P!LinkFunction
  <2>2. l.self \in Functions
    BY <1>1 DEF Place
  <2>3. /\ ListsOf(fns', arcs')
        /\ \A a \in P!AllArcs : Sum(fns', arcs', a) = Sum(fns, arcs, a)
    BY <1>1, <2>1, <2>2, SumKeeps
  <2>4. /\ fns \in Seq(Functions) /\ arcs \in Seq(ArcList) /\ Len(arcs) = Len(fns)
        /\ DOMAIN fns = 1..Len(fns) /\ Len(fns) \in Nat
    BY <1>1, Elements DEF ListsOf
  <2>5. /\ DOMAIN fns' = 1..(Len(fns) + 1) /\ fns'[Len(fns) + 1] = l.self
        /\ \A e \in DOMAIN fns : e \in DOMAIN fns' /\ fns'[e] = fns[e]
    BY <2>1, <2>4
  <2>6. arcs'[Len(fns) + 1] = <<>> /\ \A e \in DOMAIN fns : arcs'[e] = arcs[e]
    BY <2>1, <2>4
  <2>7. v \in Locals
    <3>1. Len(fns) + 1 \in Nat
      BY <2>4
    <3>. QED BY <1>1, <3>1, LinkedLocals
  <2>8. /\ v.pc = "publish" /\ v.self = l.self /\ v.from = l.from
        /\ v.entry = Len(fns) + 1 /\ v.was = 0
    BY <1>1 DEF Locals
  <2>. HIDE DEF v
  <2>9. Place(v, fns', arcs')
    <3>1. Len(arcs'[v.entry]) = 0
      BY <2>6, <2>8
    <3>2. l.from \in Callers
      BY <1>1 DEF Place
    <3>. QED BY <2>2, <2>4, <2>5, <2>8, <3>1, <3>2 DEF Place
  <2>10. Grown(fns, arcs, fns', arcs')
    BY <2>5, <2>6 DEF Grown
  <2>11. \A d \in P!Contexts \ {c} : ctx[d].pc # "publish"
    BY <1>1, Exclusive
  <2>12. calls' \in [P!AllArcs -> Int] /\ lost' \in [P!AllArcs -> Int]
    BY <2>1 DEF CountInv
  <2>13. \A a \in P!AllArcs : Sum(fns', arcs', a) + lost'[a] = calls'[a]
    BY <2>1, <2>3, Here
  <2>. QED BY <2>1, <2>3, <2>7, <2>9, <2>10, <2>11, <2>12, <2>13, ListStep
<1>3. CASE l.entry # P!NONE
  <2>. DEFINE v == [l EXCEPT !.was = Len(arcs[l.entry]), !.pc = "publish"]
  <2>1. ctx' = [ctx EXCEPT ![c] = v] /\ UNCHANGED <<fns, arcs, calls, lost>>
    BY <1>1, <1>3 DEF P!LinkFunction
  <2>2. Len(arcs[l.entry]) \in Int
    <3>1. l.entry \in DOMAIN fns
      BY <1>1, <1>3 DEF Place, P!NONE
    <3>2. arcs[l.entry] \in Seq(Arc)
      BY <1>1, <3>1, Elements
    <3>. QED BY <3>2
  <2>3. v \in Locals
    BY <1>1, <2>2 DEF Locals, Labels
  <2>4. Place(v, fns, arcs)
    BY <1>1, <1>3 DEF Place, P!NONE, Locals
  <2>. HIDE DEF v
  <2>. QED BY <2>1, <2>3, <2>4, LocalStep
<1>. QED BY <1>2, <1>3

\* The list that was read is still the list: nothing is cut off.
LEMMA StepLinkArc ==
  ASSUME CountInv, SectionOK', NEW c \in P!Contexts, P!LinkArc(c)
  PROVE  CountInv'
<1>. DEFINE l == ctx[c]
            list == arcs[l.entry]
            r == [from |-> l.from, count |-> 1]
            new == Append(list, r)
            mine == <<l.self, l.from>>
            v == [l EXCEPT !.pc = "unmask"]
<1>1. /\ l \in Locals /\ Place(l, fns, arcs) /\ l.pc = "publish" /\ (c = "main" => ctx["handler"].pc = "idle")
      /\ ListsOf(fns, arcs) /\ ctx \in [P!Contexts -> Locals]
  BY Here DEF P!LinkArc, P!At
<1>2. /\ l.self \in Functions /\ l.from \in Callers /\ l.was = Len(list)
      /\ l.entry \in DOMAIN fns /\ fns[l.entry] = l.self
  BY <1>1 DEF Place
<1>3. list \in Seq(Arc)
  BY <1>1, <1>2, Elements
<1>4. r \in Arc /\ r.from = l.from /\ r.count = 1
  BY <1>2 DEF Arc
<1>5. SubSeq(list, 1, l.was) = list
  BY <1>2, <1>3
<1>6. /\ arcs' = [arcs EXCEPT ![l.entry] = new] /\ fns' = fns /\ lost' = lost
      /\ calls' = [calls EXCEPT ![mine] = @ + 1]
  <2>1. arcs' = [arcs EXCEPT ![l.entry] = Append(SubSeq(list, 1, l.was), r)]
    BY DEF P!LinkArc
  <2>2. arcs' = [arcs EXCEPT ![l.entry] = new]
    BY <1>5, <2>1
  <2>. QED BY <2>2 DEF P!LinkArc, P!ArcOf
<1>7. ctx' = [ctx EXCEPT ![c] = v]
  BY <1>1 DEF P!LinkArc, P!Goto
<1>8. new \in Seq(Arc) /\ \A k \in DOMAIN list : k \in DOMAIN new /\ new[k] = list[k]
  BY <1>3, <1>4
<1>9. v \in Locals
  BY <1>1 DEF Locals, Labels
<1>10. /\ v.pc = "unmask" /\ v.self = l.self /\ v.from = l.from /\ v.entry = l.entry
  BY <1>1 DEF Locals
<1>11. mine \in P!AllArcs
  BY <1>2 DEF P!AllArcs
<1>12. calls \in [P!AllArcs -> Int] /\ lost \in [P!AllArcs -> Int]
  BY DEF CountInv
<1>13. calls' \in [P!AllArcs -> Int] /\ lost' \in [P!AllArcs -> Int]
  BY <1>6, <1>11, <1>12
<1>14. \A d \in P!Contexts \ {c} : ctx[d].pc # "publish"
  BY <1>1, Exclusive
<1>. HIDE DEF new, r, list, l, mine, v
<1>15. ListsOf(fns', arcs')
  BY <1>1, <1>2, <1>6, <1>8, SumChanges DEF OneList
<1>16. Place(v, fns', arcs')
  BY <1>2, <1>6, <1>10 DEF Place
<1>17. Grown(fns, arcs, fns', arcs')
  <2>1. DOMAIN arcs = DOMAIN fns
    BY <1>1, Elements
  <2>2. arcs'[l.entry] = new /\ \A e \in DOMAIN fns \ {l.entry} : arcs'[e] = arcs[e]
    BY <1>2, <1>6, <2>1
  <2>3. fns' = fns
    BY <1>6
  <2>. QED BY <1>8, <2>2, <2>3 DEF Grown, list
<1>18. ASSUME NEW a \in P!AllArcs
       PROVE  Sum(fns', arcs', a) + lost'[a] = calls'[a]
  <2>1. Sum(fns, arcs', a) = Sum(fns, arcs, a) + Weight(fns[l.entry], new, a) - Weight(fns[l.entry], list, a)
    <3>1. Sum(fns, arcs', a)
            = Sum(fns, arcs, a) + Weight(fns[l.entry], new, a) - Weight(fns[l.entry], arcs[l.entry], a)
      <4>1. OneList(fns, arcs, l.entry, new, arcs')
        BY <1>1, <1>2, <1>6, <1>8 DEF OneList
      <4>. QED BY <4>1, SumChanges
    <3>. QED BY <3>1 DEF list
  <2>2. Weight(fns[l.entry], new, a) = Weight(fns[l.entry], list, a) + One(l.self, r, a)
    BY <1>2, <1>3, <1>4, WeightAppended DEF new
  <2>3. Weight(fns[l.entry], list, a) \in Int /\ One(l.self, r, a) \in Int
    BY <1>3, <1>4, WeightOfOnes, OneIsInt
  <2>4. /\ Sum(fns, arcs, a) + lost[a] = calls[a] /\ Sum(fns, arcs, a) \in Int
        /\ lost[a] \in Int /\ calls[a] \in Int
    BY Here
  <2>5. Sum(fns', arcs', a) = Sum(fns, arcs, a) + One(l.self, r, a)
    <3>1. fns' = fns
      BY <1>6
    <3>. QED BY <2>1, <2>2, <2>3, <2>4, <3>1
  <2>6. CASE a = mine
    <3>1. a[1] = l.self /\ a[2] = l.from
      BY <2>6 DEF mine
    <3>2. One(l.self, r, a) = 1
      BY <1>4, <3>1 DEF One
    <3>3. lost'[a] = lost[a] /\ calls'[a] = calls[a] + 1
      BY <1>6, <1>11, <1>12, <2>6
    <3>. QED BY <2>4, <2>5, <3>2, <3>3
  <2>7. CASE a # mine
    <3>1. l.self # a[1] \/ l.from # a[2]
      BY <2>7 DEF mine, P!AllArcs
    <3>2. One(l.self, r, a) = 0
      BY <1>4, <3>1 DEF One
    <3>3. lost'[a] = lost[a] /\ calls'[a] = calls[a]
      BY <1>6, <1>12, <2>7
    <3>. QED BY <2>4, <2>5, <3>2, <3>3
  <2>. QED BY <2>6, <2>7
<1>. QED BY <1>7, <1>9, <1>13, <1>14, <1>15, <1>16, <1>17, <1>18, ListStep

LEMMA CountStarts == P!Init => CountInv
<1>. SUFFICES ASSUME P!Init PROVE CountInv
  OBVIOUS
<1>1. /\ fns = <<>> /\ arcs = <<>> /\ ctx = [c \in P!Contexts |-> P!Idle]
      /\ calls = [a \in P!AllArcs |-> 0] /\ lost = [a \in P!AllArcs |-> 0]
  BY DEF P!Init
<1>2. P!Idle \in Locals /\ Place(P!Idle, fns, arcs)
  BY DEF Locals, Labels, Place, P!Idle, P!NONE
<1>3. ListsOf(fns, arcs)
  <2>1. <<>> \in Seq(Functions) /\ <<>> \in Seq(ArcList) /\ Len(<<>>) = 0 /\ DOMAIN <<>> = 1..0
    OBVIOUS
  <2>. QED BY <1>1, <2>1 DEF ListsOf
<1>4. \A a : Sum(fns, arcs, a) = 0
  BY <1>1, TotalOfNothing DEF Sum
<1>5. P!Counted
  BY <1>1, <1>4, RecordedIsSum DEF P!Counted
<1>6. SectionOK
  BY <1>1 DEF SectionOK, Section, P!Idle, P!Contexts
<1>. QED BY <1>1, <1>2, <1>3, <1>5, <1>6 DEF CountInv

LEMMA CountStep == CountInv /\ [P!Next]_(P!vars) => CountInv'
<1>. SUFFICES ASSUME CountInv, [P!Next]_(P!vars)
              PROVE  CountInv'
  OBVIOUS
<1>1. CASE P!Next
  <2>1. SectionOK'
    BY <1>1, SectionHolds
  <2>2. ASSUME NEW c \in P!Contexts,
               \/ \E f \in Functions, from \in Callers : P!Call(c, f, from)
               \/ P!FindFunction(c) \/ P!FindArc(c) \/ P!LoadCount(c) \/ P!StoreCount(c)
        PROVE  CountInv'
    BY <2>1, <2>2, StepCall, StepFindFunction, StepFindArc, StepLoadCount, StepStoreCount
  <2>3. ASSUME NEW c \in P!Contexts,
               \/ P!TestInit(c) \/ P!ClearInit(c) \/ P!nios2_pcsample_init(c) \/ P!SetInit(c)
        PROVE  CountInv'
    BY <2>1, <2>3, StepTestInit, StepClearInit, Stepnios2_pcsample_init, StepSetInit
  <2>4. ASSUME NEW c \in P!Contexts,
               P!Mask(c) \/ P!LinkFunction(c) \/ P!LinkArc(c) \/ P!Unmask(c)
        PROVE  CountInv'
    BY <2>1, <2>4, StepMask, StepLinkFunction, StepLinkArc, StepUnmask
  <2>5. CASE P!ClockStarts
    <3>1. UNCHANGED <<fns, arcs, irqs, ctx, calls, lost>>
      BY <2>5 DEF P!ClockStarts
    <3>2. P!Counted'
      <4>1. \A a \in P!AllArcs : Sum(fns, arcs, a) + lost[a] = calls[a]
        BY RecordedIsSum DEF CountInv, P!Counted
      <4>2. \A a \in P!AllArcs : Sum(fns', arcs', a) + lost'[a] = calls'[a]
        BY <3>1, <4>1
      <4>. QED BY <4>2, RecordedIsSum DEF P!Counted
    <3>. QED BY <2>1, <3>1, <3>2 DEF CountInv
  <2>. QED BY <1>1, <2>2, <2>3, <2>4, <2>5 DEF P!Next
<1>2. CASE UNCHANGED P!vars
  <2>1. UNCHANGED <<fns, arcs, irqs, ctx, calls, lost>>
    BY <1>2 DEF P!vars
  <2>2. P!Counted'
    <3>1. \A a \in P!AllArcs : Sum(fns, arcs, a) + lost[a] = calls[a]
      BY RecordedIsSum DEF CountInv, P!Counted
    <3>2. \A a \in P!AllArcs : Sum(fns', arcs', a) + lost'[a] = calls'[a]
      BY <2>1, <3>1
    <3>. QED BY <3>2, RecordedIsSum DEF P!Counted
  <2>. QED BY <2>1, <2>2 DEF CountInv, SectionOK
<1>. QED BY <1>1, <1>2

\* profiler (alt_mcount.c, alt_gmon.c): wherever a handler interrupts the program in
\* mcount, the copies of every arc add up to the calls that were recorded, but for the
\* counts that one has stored over the other's: nothing is cut off a list while it is
\* linked. And the sampler is started, or a context owes the start. This holds for any
\* set of functions and of callers, and any number of calls.
THEOREM ProfileComplete == P!Spec => []ProfileRight
<1>1. P!Spec => []CountInv
  BY CountStarts, CountStep, PTL DEF P!Spec
<1>2. CountInv => P!Counted
  BY DEF CountInv
<1>3. P!Counted /\ P!SamplerStarts => ProfileRight
  BY DEF ProfileRight, P!ProfileRight
<1>. QED BY <1>1, <1>2, <1>3, SamplerOwed, PTL
=============================================================================
