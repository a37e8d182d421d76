------------------------------- MODULE Cache -------------------------------
(***************************************************************************)
(* The caches of the processor and the calls that keep them in step with   *)
(* the memory: alt_dcache_flush*.c, alt_icache_flush*.c, alt_load.c and    *)
(* alt_uncached_malloc.c.  The caches themselves are the processor's: both *)
(* direct-mapped, the data cache with write-back.                          *)
(*                                                                         *)
(* An address is a line and an offset.  What a word holds is told apart    *)
(* only by whether it is the last thing that was stored there: a word of   *)
(* the memory, or of a line in a cache, is fresh or it is not.             *)
(***************************************************************************)
EXTENDS Integers, FiniteSets

CONSTANTS
  LINE,            \* words of a line
  Top,             \* lines of the memory
  DLines, ILines,  \* lines of the data and the instruction cache
  dset, iset,      \* the place of every line of the memory in each cache
  MaxBlocks        \* uncached blocks at a time

Lines == 0..(Top - 1)
Offsets == 0..(LINE - 1)
Words == Lines \X Offsets
DSets == 0..(DLines - 1)
ISets == 0..(ILines - 1)

ASSUME CacheConstants ==
  /\ LINE \in Nat \ {0} /\ Top \in Nat \ {0} /\ MaxBlocks \in Nat
  /\ DLines \in 1..Top /\ ILines \in 1..Top
  /\ dset \in [Lines -> DSets] /\ iset \in [Lines -> ISets]
  /\ \A s \in DSets : dset[s] = s
  \* Consecutive lines go to different places, as many as there are.
  /\ \A l \in Lines, s \in ISets :
       l + ILines <= Top => \E k \in l..(l + ILines - 1) : iset[k] = s

NONE == -1    \* in place of a line

VARIABLES
  memory,  \* the fresh words of the memory
  dcache,  \* of every place the line there, its dirty flag and its fresh words
  icache,  \* of every place the line there and its fresh words
  blocks,  \* the uncached blocks of the program
  boot,    \* where alt_load is, "run" when it is over
  handed,  \* what the program has flushed last, and not stored to since, and for whom:
           \* a device that reads the memory, or the processor that fetches it
  given    \* the words whose last store the program has given up

vars == <<memory, dcache, icache, blocks, boot, handed, given>>

Empty == [line |-> NONE, dirty |-> FALSE, fresh |-> {}]

Handed(to, words) == [to |-> to, words |-> words]
Nothing == Handed("device", {})

Init ==
  /\ memory = Words
  /\ dcache = [s \in DSets |-> Empty]
  /\ icache = [s \in ISets |-> [line |-> NONE, fresh |-> {}]]
  /\ blocks = {} /\ boot = "copy" /\ handed = Handed("fetch", {})
  /\ given = {}

\* The words of lines L.
Of(L) == {w \in Words : w[1] \in L}

\* The words from one address to before another, and the lines they are on.
Before(p, q) == p[1] < q[1] \/ (p[1] = q[1] /\ p[2] < q[2])
Region(start, end) == {w \in Words : ~Before(w, start) /\ Before(w, end)}

\* Of these words, those that the data cache holds dirty, and fresh.
Dirty(L) == {w \in Of(L) : dcache[dset[w[1]]].line = w[1] /\ dcache[dset[w[1]]].dirty}
Cached(w) == dcache[dset[w[1]]].line = w[1]
FreshCopy(w) == w \in dcache[dset[w[1]]].fresh

\* The memory after the dirty lines among L are written back.
WrittenBack(L) == (memory \ Dirty(L)) \cup {w \in Dirty(L) : FreshCopy(w)}

Uncached == {w \in Words : \E b \in blocks : w \in Region(b.first, b.end)}

-----------------------------------------------------------------------------
\* The processor.

\* The line that is in the way of l in the data cache.
InTheWay(l) == {k \in Lines : k # l /\ dcache[dset[l]].line = k}

\* A cached load brings in its line, a cached store marks it as well.
Load(w) ==
  /\ w \notin Uncached /\ ~Cached(w)
  /\ memory' = WrittenBack(InTheWay(w[1]))
  /\ dcache' = [dcache EXCEPT ![dset[w[1]]] =
                  [line |-> w[1], dirty |-> FALSE, fresh |-> memory \cap Of({w[1]})]]
  /\ UNCHANGED <<icache, blocks, boot, handed, given>>

\* A store makes stale what the memory and the instruction cache hold.
Stored(w) ==
  /\ memory' = WrittenBack(InTheWay(w[1])) \ {w}
  /\ dcache' = [dcache EXCEPT ![dset[w[1]]] =
                  [line |-> w[1], dirty |-> TRUE,
                   fresh |-> {w} \cup IF Cached(w) THEN @.fresh ELSE memory \cap Of({w[1]})]]
  /\ icache' = [s \in ISets |-> [icache[s] EXCEPT !.fresh = @ \ {w}]]
  /\ given' = given \ {w}

\* A region that is stored to is no longer what was flushed.
Since(w) == IF w \in handed.words THEN Nothing ELSE handed

Store(w) ==
  /\ boot = "run" /\ w \notin Uncached
  /\ Stored(w)
  /\ handed' = Since(w)
  /\ UNCHANGED <<blocks, boot>>

\* A store with bit 31 of the address set goes to the memory and leaves the data cache
\* alone; so does a device that writes to the block.
StoreUncached(w) ==
  /\ boot = "run" /\ w \in Uncached
  /\ memory' = memory \cup {w}
  /\ dcache' = [s \in DSets |-> [dcache[s] EXCEPT !.fresh = @ \ {w}]]
  /\ icache' = [s \in ISets |-> [icache[s] EXCEPT !.fresh = @ \ {w}]]
  /\ handed' = Since(w) /\ given' = given \ {w}
  /\ UNCHANGED <<blocks, boot>>

\* An instruction is fetched, or prefetched, from line l.
Fetch(l) ==
  /\ icache[iset[l]].line # l
  /\ icache' = [icache EXCEPT ![iset[l]] = [line |-> l, fresh |-> memory \cap Of({l})]]
  /\ UNCHANGED <<memory, dcache, blocks, boot, handed, given>>

-----------------------------------------------------------------------------
\* The flushes.

\* FAULTY: the line more that an unaligned start needs is forgotten.
LinesFlushedShort(start, end) == {l \in Lines : start[1] <= l /\ Before(<<l, start[2]>>, end)}

\* The loop from start to end, line by line at the offset of start, and the line more
\* after it if start is not aligned.
LinesFlushed(start, end) ==
  {l \in Lines : /\ start[1] <= l
                 /\ \/ Before(<<l, start[2]>>, end)
                    \/ /\ start[2] # 0
                       /\ l = start[1] \/ Before(<<l - 1, start[2]>>, end)}

FlushData(L) ==
  /\ memory' = WrittenBack(L)
  /\ dcache' = [s \in DSets |-> IF dcache[s].line \in L THEN Empty ELSE dcache[s]]

alt_dcache_flush(start, end) ==
  /\ boot = "run" /\ FlushData(LinesFlushed(start, end))
  /\ handed' = Handed("device", Region(start, end) \ Uncached)
  /\ UNCHANGED <<icache, blocks, boot, given>>

\* Whatever line is in the places of the first lines of the memory.
alt_dcache_flush_all ==
  /\ boot = "run"
  /\ FlushData({l \in Lines : \E k \in 0..(DLines - 1) : dset[k] = dset[l]})
  /\ handed' = Handed("device", Words \ Uncached)
  /\ UNCHANGED <<icache, blocks, boot, given>>

\* The lines that a program puts at stake when it flushes a region without write-back:
\* those with words of the region, be it one word; and if the region starts within a line,
\* that line, and the line behind a word of the region at the same offset.
AtStake(start, end) ==
  {l \in Lines : \/ \E w \in Region(start, end) : w[1] = l
                 \/ start[2] # 0 /\ (l = start[1] \/ <<l - 1, start[2]>> \in Region(start, end))}

\* Whatever is dirty in the lines flushed is dropped. So the program has given up the
\* stores that had not reached the memory, in all the lines at stake.
alt_dcache_flush_no_writeback(start, end) ==
  /\ boot = "run"
  /\ dcache' = [s \in DSets |-> IF dcache[s].line \in LinesFlushed(start, end) THEN Empty ELSE dcache[s]]
  /\ given' = given \cup (Of(AtStake(start, end)) \ memory)
  /\ UNCHANGED <<memory, icache, blocks, boot, handed>>

\* The end after the region is cut to the size of the cache.
Cut(start, end) ==
  IF Before(<<start[1] + ILines, start[2]>>, end) THEN <<start[1] + ILines, start[2]>> ELSE end

\* flushi empties the places of the lines, whatever line is there.
EmptyPlaces(L) ==
  icache' = [s \in ISets |-> IF \E l \in L : iset[l] = s THEN [line |-> NONE, fresh |-> {}] ELSE icache[s]]

\* What the program has flushed to the memory and then from the instruction cache can
\* be executed.
alt_icache_flush(start, end) ==
  /\ boot = "run" /\ EmptyPlaces(LinesFlushed(start, Cut(start, end)))
  /\ handed' = Handed("fetch", Region(start, end) \cap handed.words)
  /\ UNCHANGED <<memory, dcache, blocks, boot, given>>

alt_icache_flush_all ==
  /\ boot = "run" /\ EmptyPlaces(LinesFlushed(<<0, 0>>, <<ILines, 0>>))
  /\ handed' = Handed("fetch", handed.words)
  /\ UNCHANGED <<memory, dcache, blocks, boot, given>>

-----------------------------------------------------------------------------
\* alt_load copies sections word by word and then flushes both caches.

alt_load_section(w) ==
  /\ boot = "copy" /\ Stored(w)
  /\ w \notin handed.words /\ \A v \in Words : Before(v, w) => v \in handed.words
  /\ handed' = Handed("fetch", handed.words \cup {w})
  /\ UNCHANGED <<blocks, boot>>

LoadFlushData ==
  /\ boot = "copy" /\ boot' = "dcache"
  /\ FlushData({l \in Lines : \E k \in 0..(DLines - 1) : dset[k] = dset[l]})
  /\ UNCHANGED <<icache, blocks, handed, given>>

LoadFlushCode ==
  /\ boot = "dcache" /\ boot' = "run"
  /\ EmptyPlaces(LinesFlushed(<<0, 0>>, <<ILines, 0>>))
  /\ UNCHANGED <<memory, dcache, blocks, handed, given>>

-----------------------------------------------------------------------------
\* Uncached memory.

\* A size is a number of lines and of words beyond.
AlignedSize(size) == IF size[2] = 0 THEN size ELSE <<size[1] + 1, 0>>

\* memalign finds memory that is not in use, or returns NULL; its lines are flushed.
alt_uncached_malloc(size) ==
  /\ boot = "run" /\ Cardinality(blocks) < MaxBlocks
  /\ \E b \in {[first |-> <<l, 0>>, end |-> <<l + AlignedSize(size)[1], AlignedSize(size)[2]>>] : l \in Lines} :
       /\ ~Before(<<Top, 0>>, b.end) /\ Region(b.first, b.end) \cap Uncached = {}
       /\ blocks' = blocks \cup {b}
       /\ FlushData(LinesFlushed(b.first, b.end))
       /\ handed' = Nothing
  /\ UNCHANGED <<icache, boot, given>>

alt_uncached_free(b) ==
  /\ boot = "run" /\ b \in blocks
  /\ blocks' = blocks \ {b}
  /\ UNCHANGED <<memory, dcache, icache, boot, handed, given>>

-----------------------------------------------------------------------------
\* The sizes of blocks of memory, and the ends of regions.
Sizes == {s \in (0..Top) \X Offsets : s # <<0, 0>>}
Ends == Words \cup {<<Top, 0>>}

Next ==
  \/ \E w \in Words : Load(w) \/ Store(w) \/ StoreUncached(w) \/ alt_load_section(w)
  \/ \E l \in Lines : Fetch(l)
  \/ LoadFlushData \/ LoadFlushCode
  \/ alt_dcache_flush_all \/ alt_icache_flush_all
  \/ \E start \in Words, end \in Ends :
       /\ ~Before(end, start)
       /\ \/ alt_dcache_flush(start, end) \/ alt_icache_flush(start, end)
          \/ alt_dcache_flush_no_writeback(start, end)
  \/ \E size \in Sizes : alt_uncached_malloc(size)
  \/ \E b \in blocks : alt_uncached_free(b)

Spec == Init /\ [][Next]_vars

-----------------------------------------------------------------------------
\* Properties

TypeOK ==
  /\ memory \subseteq Words
  /\ dcache \in [DSets -> [line : Lines \cup {NONE}, dirty : BOOLEAN, fresh : SUBSET Words]]
  /\ icache \in [ISets -> [line : Lines \cup {NONE}, fresh : SUBSET Words]]
  /\ blocks \subseteq [first : Ends, end : Ends]
  /\ boot \in {"copy", "dcache", "run"}
  /\ handed \in [to : {"device", "fetch"}, words : SUBSET Words]
  /\ given \subseteq Words

\* Every load returns what was stored last, in cached and in uncached memory.
LoadsLast ==
  \A w \in Words \ given :
    IF w \notin Uncached /\ Cached(w) THEN FreshCopy(w) ELSE w \in memory

\* A device reads from the memory what the program has stored and flushed.
DevicesReadLast == boot = "run" => handed.words \ given \subseteq memory

\* The processor executes what alt_load has copied, and later what the program has
\* flushed from both caches.
ExecutesLast ==
  boot = "run" /\ handed.to = "fetch" =>
    \A w \in handed.words \ given :
       icache[iset[w[1]]].line = w[1] => w \in icache[iset[w[1]]].fresh

\* The calls keep the caches in step with the memory, whatever lines share a place,
\* whichever words share a line, and wherever regions start and end: no store is lost but
\* those that a flush without write-back gives up. These are of words that had not reached
\* the memory, in the lines of its region; and when that starts within a line, in the line
\* behind it too, where the program may have other data.
Coherent == LoadsLast /\ DevicesReadLast /\ ExecutesLast
=============================================================================
