------------------------- MODULE GenerationalCache -------------------------
(***************************************************************************)
(* The in-memory cache of one process: c_cache.cpp and c_cache.h, called   *)
(* through PyCache of cache.pyx.  An index of entries by object id and     *)
(* three generations, each a list from most to least recently used with a  *)
(* running sum of weights and a limit.  Python code holds references to    *)
(* entries that the cache may meanwhile replace or evict.                  *)
(*                                                                         *)
(* Every call runs under the GIL.  A call is one action followed by one    *)
(* action for each iteration of the loops it enters (pc is "idle" between  *)
(* calls, and no other call starts before); a call without a loop is one   *)
(* action.                                                                 *)
(*                                                                         *)
(* States of objects are abstracted to their lengths.  An entry that is in *)
(* no list and has no reference from Python is forgotten by the model,     *)
(* whether the code deletes it or loses it without deleting it.            *)
(***************************************************************************)
EXTENDS Integers, Sequences, FiniteSets, SequencesExt, FiniteSetsExt

CONSTANTS
    Oids,           \* object ids
    Tids,           \* transaction ids, numbers
    Threads,        \* Python threads, each holds at most one cached value
    Copies,         \* entries of one object that can exist at a time
    StateLength,    \* StateLength[oid][tid]: bytes of the object's state
    Workloads,      \* which transactions may have written which objects
    SVSize,         \* sizeof(SVCacheEntry)
    MVSize,         \* sizeof(MVCacheEntry)
    ValueSize,      \* sizeof(MVCacheEntry::Entry)
    SizeModulus,    \* 2^w for the w bits of size_t
    Limits,         \* limits of the three generations a cache is made with
    Files,          \* sequences of rows offered to add_many
    MaxSets,        \* bound: calls of _do_set for one cache
    MaxFrequency,   \* bound: hits on one entry
    Null            \* no entry, no object, no thread

\* Addresses of entries; for which object an address is used does not matter.
Addr == Oids \X (1..Copies)
Generations == {"eden", "protected", "probation"}

\* The values of an entry: the frozen flag for every tid that has a value.
Valuations == UNION {[S -> BOOLEAN] : S \in (SUBSET Tids) \ {{}}}

\* ICacheEntry, of either class, in a generation or in none.
Entries == [oid: Oids, several: BOOLEAN, values: Valuations,
            frequency: 0..MaxFrequency, generation: Generations \cup {Null}]

\* ProposedCacheEntry: what the file has of an object.
Rows == [oid: Oids, tid: Tids, frozen: BOOLEAN, frequency: 0..MaxFrequency]

\* The value of an object that is cached, each one that a thread holds and
\* one that replaces the first can exist at a time.  A file has at most one
\* row for an object: the oid is the table's key.
ASSUME ConstantsAssumption ==
    /\ Tids \subseteq Nat
    /\ IsFiniteSet(Oids) /\ IsFiniteSet(Tids) /\ IsFiniteSet(Threads)
    /\ Copies \in Nat /\ Copies >= Cardinality(Threads) + 2
    /\ StateLength \in [Oids -> [Tids -> Nat]]
    /\ Workloads \subseteq [Oids -> SUBSET Tids]
    /\ {SVSize, MVSize, ValueSize, SizeModulus} \subseteq Nat \ {0}
    /\ Limits \subseteq [Generations -> 0..SizeModulus - 1]
    /\ {MaxSets, MaxFrequency} \subseteq Nat /\ MaxFrequency > 0
    /\ Files \subseteq Seq(Rows)
    /\ \A file \in Files : \A i, j \in DOMAIN file : file[i].oid = file[j].oid => i = j
    /\ Null \notin Oids \cup Threads \cup Addr \cup Tids \cup Generations
    /\ Null \notin Entries
    /\ "loader" \notin Oids \cup {Null}

\* Entries are in memory: a size_t can count the bytes of one state of every
\* object.
ASSUME AddressSpace ==
    \A pick \in [Oids -> Tids] :
        SumFunction([o \in Oids |-> SVSize + StateLength[o][pick[o]]]) < SizeModulus

VARIABLES
    heap,       \* heap[a]: the entry at address a, Null when there is none
    data,       \* OidEntryMap: data[oid] is the address of the object's entry
    ring,       \* ring[g]: the list of generation g, most recently used first
    sum,        \* sum[g]: _sum_weights
    limit,      \* limit[g]: _max_weight
    sets,       \* PyCache.sets
    python,     \* python[t]: the entry of the SingleValue that thread t holds
    pc,         \* which loop the running call is in
    spill,      \* arguments of the running _spill_from_ring_to_ring
    evicting,   \* would_evict of add_many
    rows,       \* rows add_many still has to examine
    call,       \* object of the running call; thread and result of a get
    multiple,   \* history: an entry of this cache has had several values
    written     \* written[oid]: transactions whose states of the object exist

vars == <<heap, data, ring, sum, limit, sets, python, pc, spill, evicting,
          rows, call, multiple, written>>

cacheVars == <<heap, data, ring, sum>>
loopVars == <<spill, evicting, rows>>

\* ICacheEntry with the fields of SVCacheEntry and MVCacheEntry: values maps
\* the tid of every value to its frozen flag; several says which class it is.
Entry(oid, several, values, frequency, generation) ==
    [oid |-> oid, several |-> several, values |-> values,
     frequency |-> frequency, generation |-> generation]

NoSpill == [from |-> Null, to |-> Null, ignore |-> Null, rejects |-> FALSE]
NoCall == [oid |-> Null, thread |-> Null, result |-> Null]

----------------------------------------------------------------------------
(* Weights.  size_t arithmetic wraps.                                       *)

\* Mutant: signed arithmetic that does not wrap
SizeTSigned(n) == n

SizeT(n) == n % SizeModulus

Weight(e) ==
    IF e.several
    THEN MVSize + SumFunction([t \in DOMAIN e.values |-> ValueSize + StateLength[e.oid][t]])
    ELSE SVSize + SumFunction([t \in DOMAIN e.values |-> StateLength[e.oid][t]])

Oversize(g, s) == s[g] > limit[g]

WillFit(g, e) == limit[g] >= SizeT(Weight(e) + sum[g])

----------------------------------------------------------------------------
(* Entries and memory.                                                      *)

\* The address the next entry of an object is allocated at.
Fresh(o) == <<o, Min({i \in 1..Copies : heap[<<o, i>>] = Null})>>

InPython(a) == \E t \in Threads : python[t] = a

\* An entry outside the cache; its frequency does not matter any more.
Outside(e) == [e EXCEPT !.generation = Null, !.frequency = 0]

\* Mutant: delete without looking at Python's references
UnlinkedAlways(h, a) == [h EXCEPT ![a] = Null]

\* The entry at a has been unlinked: it lives on only if Python refers to it.
Unlinked(h, a) == [h EXCEPT ![a] = IF InPython(a) THEN Outside(@) ELSE Null]

SingleValue(e, t, frozen) ==
    Entry(e.oid, FALSE, [u \in {t} |-> frozen], e.frequency, e.generation)

AddValue(e, t) ==
    Entry(e.oid, TRUE,
          [u \in DOMAIN e.values \cup {t} |->
              IF u \in DOMAIN e.values THEN e.values[u] ELSE FALSE],
          e.frequency, e.generation)

\* The values of e left when those of the tids in gone are removed.
Without(e, gone) ==
    [e EXCEPT !.values = [u \in DOMAIN @ \ gone |-> @[u]]]

Older(e, t) == {u \in DOMAIN e.values : u < t}

\* tid_matches, with Null for a request that takes the frozen value
Matching(e, wanted) ==
    {t \in DOMAIN e.values : t = wanted \/ (wanted = Null /\ e.values[t])}

----------------------------------------------------------------------------
(* Moving entries between lists.                                            *)

Lru(g) == Last(ring[g])

\* Generation::adopt
Adopt(a, g) ==
    LET f == heap[a].generation
        w == Weight(heap[a])
    IN  /\ heap' = [heap EXCEPT ![a].generation = g]
        /\ ring' = [ring EXCEPT ![f] = RemoveFirst(@, a), ![g] = Cons(a, @)]
        /\ sum' = [sum EXCEPT ![f] = SizeT(@ - w), ![g] = SizeT(@ + w)]

\* _replace_with: entry b takes the place of entry a, whose weight is by now w
ReplaceWith(a, w, b) ==
    LET g == heap[a].generation IN
    /\ data' = [data EXCEPT ![b.oid] = Fresh(b.oid)]
    /\ ring' = [ring EXCEPT ![g] = ReplaceAll(@, a, Fresh(b.oid))]
    /\ sum' = [sum EXCEPT ![g] = SizeT(@ - w + Weight(b))]
    /\ heap' = [Unlinked(heap, a) EXCEPT ![Fresh(b.oid)] = b]

\* Mutants: the entry stays in the index; its weight stays in the sum
DropFromRingOnly(a, w) ==
    LET g == heap[a].generation IN
    /\ ring' = [ring EXCEPT ![g] = RemoveFirst(@, a)]
    /\ sum' = [sum EXCEPT ![g] = SizeT(@ - w)]
    /\ heap' = [heap EXCEPT ![a].generation = Null]
    /\ UNCHANGED data

DropKeepingWeight(a, w) ==
    /\ data' = [data EXCEPT ![heap[a].oid] = Null]
    /\ ring' = [ring EXCEPT ![heap[a].generation] = RemoveFirst(@, a)]
    /\ heap' = Unlinked(heap, a)
    /\ UNCHANGED sum

\* The entry leaves its generation and the index; its weight is by now w.
Drop(a, w) ==
    LET g == heap[a].generation IN
    /\ data' = [data EXCEPT ![heap[a].oid] = Null]
    /\ ring' = [ring EXCEPT ![g] = RemoveFirst(@, a)]
    /\ sum' = [sum EXCEPT ![g] = SizeT(@ - w)]
    /\ heap' = Unlinked(heap, a)

Loop(name, from, to, ignore, rejects) ==
    /\ pc' = name
    /\ spill' = [from |-> from, to |-> to, ignore |-> ignore, rejects |-> rejects]

Return ==
    /\ pc' = "return"
    /\ spill' = NoSpill

\* Eden::_balance_rings, up to its loops
BalanceRings(a) ==
    IF ~ Oversize("eden", sum')
    THEN Return
    ELSE IF ring'["probation"] = <<>> /\ ~ Oversize("protected", sum')
         THEN Loop("fill", "eden", "protected", a, TRUE)
         ELSE Loop("spill", "eden", "probation", a, TRUE)

----------------------------------------------------------------------------
(* The calls.                                                               *)

Begin(o, t, result) ==
    /\ pc = "idle"
    /\ call' = [oid |-> o, thread |-> t, result |-> result]

\* Cache::add_to_eden, for an object that is not cached
AddToEden(o, t) ==
    LET e == Entry(o, FALSE, [u \in {t} |-> FALSE], 1, "eden") IN
    /\ Begin(o, Null, Null)
    /\ data[o] = Null
    /\ sets < MaxSets /\ sets' = sets + 1
    /\ heap' = [heap EXCEPT ![Fresh(o)] = e]
    /\ data' = [data EXCEPT ![o] = Fresh(o)]
    /\ ring' = [ring EXCEPT !["eden"] = Cons(Fresh(o), @)]
    /\ sum' = [sum EXCEPT !["eden"] = SizeT(@ + Weight(e))]
    /\ BalanceRings(Fresh(o))
    /\ UNCHANGED <<limit, python, evicting, rows, multiple, written>>

\* adding_value of both kinds of entry.  A second value makes a new entry; a
\* third is put into the entry that is there, a value the entry has already
\* is ignored.  A state is its tid, so there are never two states of one tid,
\* for which the code throws a logic_error.
AddingValue(a, t) ==
    LET e == heap[a] IN
    \/ /\ ~ e.several /\ t \in DOMAIN e.values
       /\ UNCHANGED cacheVars
    \/ /\ ~ e.several /\ t \notin DOMAIN e.values
       /\ ReplaceWith(a, Weight(e), AddValue(e, t))
    \/ /\ e.several
       /\ heap' = [heap EXCEPT ![a] = AddValue(e, t)]
       /\ UNCHANGED <<data, ring, sum>>

\* Cache::store_and_make_MRU, for an object that is cached
StoreAndMakeMRU(o, t) ==
    LET a == data[o] IN
    /\ Begin(o, Null, Null)
    /\ a # Null
    /\ heap[a].frequency < MaxFrequency
    /\ sets < MaxSets /\ sets' = sets + 1
    /\ AddingValue(a, t)
    /\ multiple' = (multiple \/ t \notin DOMAIN heap[a].values)
    /\ pc' = "hit"
    /\ UNCHANGED <<limit, python, loopVars, written>>

\* Cache::_get_or_peek: the single entry itself, or a new entry with the
\* newest value that matches.  Only get counts as a hit, and the hit comes
\* before Python gets its reference.
GetOrPeek(th, o, wanted, peek) ==
    LET a == data[o]
        e == heap[a]
        t == Max(Matching(e, wanted))
    IN  /\ a # Null
        /\ python[th] = Null
        /\ Begin(o, th, IF e.several THEN Fresh(o) ELSE a)
        /\ Matching(e, wanted) # {}
        /\ peek \/ e.frequency < MaxFrequency
        /\ heap' = IF e.several
                   THEN [heap EXCEPT ![Fresh(o)] = Outside(SingleValue(e, t, e.values[t]))]
                   ELSE heap
        /\ pc' = IF peek THEN "return" ELSE "hit"
        /\ UNCHANGED <<data, ring, sum, limit, sets, python, loopVars, multiple, written>>

\* on_hit of the generation the entry is in
OnHit ==
    LET a == data[call.oid]
        g == heap[a].generation
        w == Weight(heap[a])
    IN  /\ pc = "hit"
        /\ heap' = [heap EXCEPT ![a].frequency = @ + 1,
                                ![a].generation = IF g = "eden" THEN g ELSE "protected"]
        /\ IF g = "probation"
           THEN /\ ring' = [ring EXCEPT ![g] = RemoveFirst(@, a), !["protected"] = Cons(a, @)]
                /\ sum' = [sum EXCEPT ![g] = SizeT(@ - w), !["protected"] = SizeT(@ + w)]
           ELSE /\ ring' = [ring EXCEPT ![g] = Cons(a, RemoveFirst(@, a))]
                /\ sum' = sum
        /\ IF g = "eden"
           THEN BalanceRings(a)
           ELSE IF Oversize("protected", sum')
                THEN Loop("spill", "protected", "probation", a, TRUE)
                ELSE Return
        /\ UNCHANGED <<data, limit, sets, python, evicting, rows, call, multiple, written>>

\* Cache::delitem(key)
Delitem(o) ==
    /\ pc = "idle" /\ data[o] # Null
    /\ Drop(data[o], Weight(heap[data[o]]))
    /\ UNCHANGED <<limit, sets, python, pc, loopVars, call, multiple, written>>

\* Mutant: an entry left with one value stays an entry for several values
ShrinkInPlace(a, e) ==
    \/ /\ DOMAIN e.values = {}
       /\ Drop(a, Weight(e))
    \/ /\ DOMAIN e.values # {}
       /\ heap' = [heap EXCEPT ![a] = e]
       /\ UNCHANGED <<data, ring, sum>>

\* What freeze_to_tid and discarding_tids_before of an entry with several
\* values do with the values left in e.  The sum of the
\* generation still holds the weight of the removed values.
Shrink(a, e) ==
    \/ /\ DOMAIN e.values = {}
       /\ Drop(a, Weight(e))
    \/ \E t \in Tids :
          /\ DOMAIN e.values = {t}
          /\ ReplaceWith(a, Weight(Without(e, {t})), SingleValue(e, t, e.values[t]))
    \/ /\ Cardinality(DOMAIN e.values) > 1
       /\ heap' = [heap EXCEPT ![a] = e]
       /\ UNCHANGED <<data, ring, sum>>

\* Cache::delitem(key, tid), with discarding_tids_before of both entry kinds
DelitemBefore(o, t) ==
    LET a == data[o]
        e == heap[a]
    IN  /\ pc = "idle" /\ a # Null
        /\ \/ /\ e.several
              /\ Shrink(a, Without(e, Older(e, t) \cup {t}))
           \/ /\ ~ e.several
              /\ \E u \in DOMAIN e.values : t <= u
              /\ Drop(a, Weight(e))
        /\ UNCHANGED <<limit, sets, python, pc, loopVars, call, multiple, written>>

\* Cache::freeze, with freeze_to_tid of both entry kinds
Freeze(o, t) ==
    LET a == data[o]
        e == heap[a]
        frozen(f) == [f EXCEPT !.values = [u \in DOMAIN @ |-> @[u] \/ u = t]]
    IN  /\ pc = "idle" /\ a # Null
        /\ \/ /\ e.several
              /\ Shrink(a, frozen(Without(e, Older(e, t))))
           \/ /\ ~ e.several /\ Older(e, t) # {}
              /\ Drop(a, Weight(e))
           \/ /\ ~ e.several /\ Older(e, t) = {}
              /\ heap' = [heap EXCEPT ![a] = frozen(e)]
              /\ UNCHANGED <<data, ring, sum>>
        /\ UNCHANGED <<limit, sets, python, pc, loopVars, call, multiple, written>>

\* Cache::age_frequencies; when LocalClient._age calls it is left open
AgeFrequencies ==
    /\ pc = "idle"
    /\ heap' = [a \in Addr |->
                   IF \E o \in Oids : data[o] = a
                   THEN [heap[a] EXCEPT !.frequency = @ \div 2]
                   ELSE heap[a]]
    /\ UNCHANGED <<data, ring, sum, limit, sets, python, pc, loopVars, call, multiple, written>>

\* release_entry, when a thread's SingleValue is destroyed
PyRelease(th) ==
    LET a == python[th] IN
    /\ pc = "idle" /\ a # Null
    /\ python' = [python EXCEPT ![th] = Null]
    /\ heap' = IF heap[a].generation = Null /\ \A t \in Threads \ {th} : python[t] # a
               THEN [heap EXCEPT ![a] = Null]
               ELSE heap
    /\ UNCHANGED <<data, ring, sum, limit, sets, pc, loopVars, call, multiple, written>>

\* LocalClient.flush_all of a cache that is not empty: a new cache, and the
\* destructor of the old one
FlushAll ==
    /\ pc = "idle"
    /\ \E o \in Oids : data[o] # Null
    /\ heap' = [a \in Addr |->
                   IF InPython(a) THEN Outside(heap[a]) ELSE Null]
    /\ data' = [o \in Oids |-> Null]
    /\ ring' = [g \in Generations |-> <<>>]
    /\ sum' = [g \in Generations |-> 0]
    /\ sets' = 0
    /\ multiple' = FALSE
    /\ UNCHANGED <<limit, python, pc, loopVars, call, written>>

\* Cache::add_many, which _bulk_update calls only for an empty cache
AddMany(file) ==
    /\ Begin(Null, Null, Null)
    /\ \A o \in Oids : data[o] = Null
    /\ file # <<>>
    /\ \A i \in DOMAIN file : file[i].tid \in written[file[i].oid]
    /\ \A g \in Generations : ~ Oversize(g, sum)
    /\ pc' = "load"
    /\ rows' = file
    /\ evicting' = TRUE
    /\ UNCHANGED <<heap, data, ring, sum, limit, sets, python, spill, multiple, written>>

----------------------------------------------------------------------------
(* The loops.                                                               *)

\* One row of add_many: skipped when it fits nowhere; once eden has more
\* than the whole cache may have, the remaining rows are not looked at.
LoadRow ==
    LET row == Head(rows)
        e == Entry(row.oid, FALSE, [u \in {row.tid} |-> row.frozen],
                   row.frequency, "eden")
    IN  /\ pc = "load" /\ rows # <<>>
        /\ IF \E g \in Generations : WillFit(g, e)
           THEN /\ heap' = [heap EXCEPT ![Fresh(row.oid)] = e]
                /\ data' = [data EXCEPT ![row.oid] = Fresh(row.oid)]
                /\ ring' = [ring EXCEPT !["eden"] = Cons(Fresh(row.oid), @)]
                /\ sum' = [sum EXCEPT !["eden"] = SizeT(@ + Weight(e))]
                /\ rows' = IF sum'["eden"] > limit["eden"] + limit["protected"]
                                              + limit["probation"]
                           THEN <<>> ELSE Tail(rows)
           ELSE /\ rows' = Tail(rows)
                /\ UNCHANGED cacheVars
        /\ UNCHANGED <<limit, sets, python, pc, spill, evicting, call, multiple, written>>

\* Mutant: the rounds go on while a generation is over its limit
LoadRoundForever ==
    /\ pc = "load" /\ rows = <<>>
    /\ IF \E g \in Generations : Oversize(g, sum)
       THEN Loop("spill", "eden", "protected", Null, FALSE) /\ evicting' = FALSE
       ELSE Return /\ UNCHANGED evicting
    /\ UNCHANGED <<cacheVars, limit, sets, python, rows, call, multiple, written>>

\* The loop condition of add_many's rounds
LoadRound ==
    /\ pc = "load" /\ rows = <<>>
    /\ IF evicting /\ \E g \in Generations : Oversize(g, sum)
       THEN Loop("spill", "eden", "protected", Null, FALSE) /\ evicting' = FALSE
       ELSE Return /\ UNCHANGED evicting
    /\ UNCHANGED <<cacheVars, limit, sets, python, rows, call, multiple, written>>

\* One iteration of the first loop of Eden::_balance_rings
Fill ==
    LET a == Lru("eden") IN
    /\ pc = "fill"
    /\ IF ~ Oversize("eden", sum) \/ a = spill.ignore
       THEN Return /\ UNCHANGED <<heap, ring, sum>>
       ELSE IF WillFit("protected", heap[a])
            THEN Adopt(a, "protected") /\ UNCHANGED <<pc, spill>>
            ELSE Adopt(a, "probation") /\ Return
    /\ UNCHANGED <<data, limit, sets, python, evicting, rows, call, multiple, written>>

\* The end of _spill_from_ring_to_ring: only add_many passes no entry to
\* ignore, and calls it for eden, then for protected.
SpillDone ==
    IF spill.ignore # Null
    THEN Return
    ELSE IF spill.from = "eden"
         THEN Loop("spill", "protected", "probation", Null, TRUE)
         ELSE pc' = "load" /\ spill' = NoSpill

\* Mutants: the last entry goes too, whichever it is; two entries may stay
SpillEmpties == ring[spill.from] # <<>> /\ Oversize(spill.from, sum)

SpillLeavesTwo ==
    /\ Len(ring[spill.from]) > 2
    /\ Oversize(spill.from, sum)
    /\ Lru(spill.from) # spill.ignore

\* The condition under which the loop of _spill_from_ring_to_ring goes on
SpillGoesOn ==
    /\ Len(ring[spill.from]) > 1
    /\ Oversize(spill.from, sum)
    /\ Lru(spill.from) # spill.ignore

SpillStop ==
    /\ pc = "spill" /\ ~ SpillGoesOn
    /\ SpillDone
    /\ UNCHANGED <<cacheVars, limit, sets, python, evicting, rows, call, multiple, written>>

\* There is room, or the entry may not be rejected.
SpillAdopt ==
    LET a == Lru(spill.from) IN
    /\ pc = "spill" /\ SpillGoesOn
    /\ \/ /\ WillFit(spill.to, heap[a])
          /\ UNCHANGED <<pc, spill, evicting>>
       \/ /\ ~ WillFit(spill.to, heap[a]) /\ ~ spill.rejects
          /\ evicting' = TRUE
          /\ SpillDone
    /\ Adopt(a, spill.to)
    /\ UNCHANGED <<data, limit, sets, python, rows, call, multiple, written>>

\* A victim has to be chosen: the entry itself, or the oldest of the
\* destination when that one is not used more often.
SpillEvict ==
    LET a == Lru(spill.from)
        v == Lru(spill.to)
    IN  /\ pc = "spill" /\ SpillGoesOn
        /\ ~ WillFit(spill.to, heap[a]) /\ spill.rejects
        /\ IF ring[spill.to] # <<>> /\ heap[a].frequency >= heap[v].frequency
           THEN /\ heap' = [Unlinked(heap, v) EXCEPT ![a].generation = spill.to]
                /\ data' = [data EXCEPT ![heap[v].oid] = Null]
                /\ ring' = [ring EXCEPT ![spill.from] = RemoveFirst(@, a),
                                        ![spill.to] = Cons(a, RemoveFirst(@, v))]
                /\ sum' = [sum EXCEPT ![spill.from] = SizeT(@ - Weight(heap[a])),
                                      ![spill.to] = SizeT(@ - Weight(heap[v])
                                                            + Weight(heap[a]))]
           ELSE Drop(a, Weight(heap[a]))
        /\ evicting' = TRUE
        /\ UNCHANGED <<limit, sets, python, pc, spill, rows, call, multiple, written>>

\* The call returns; a get makes the SingleValue that refers to the result.
ReturnToPython ==
    /\ pc = "return"
    /\ python' = IF call.thread = Null
                 THEN python
                 ELSE [python EXCEPT ![call.thread] = call.result]
    /\ pc' = "idle"
    /\ call' = NoCall
    /\ evicting' = FALSE
    /\ UNCHANGED <<cacheVars, limit, sets, spill, rows, multiple, written>>

----------------------------------------------------------------------------
Init ==
    /\ heap = [a \in Addr |-> Null]
    /\ data = [o \in Oids |-> Null]
    /\ ring = [g \in Generations |-> <<>>]
    /\ sum = [g \in Generations |-> 0]
    /\ limit \in Limits
    /\ sets = 0
    /\ python = [t \in Threads |-> Null]
    /\ pc = "idle"
    /\ spill = NoSpill
    /\ evicting = FALSE
    /\ rows = <<>>
    /\ call = NoCall
    /\ multiple = FALSE
    /\ written \in Workloads

\* What the running call does next
Step ==
    \/ OnHit \/ LoadRow \/ LoadRound \/ Fill
    \/ SpillStop \/ SpillAdopt \/ SpillEvict
    \/ ReturnToPython

Next ==
    \/ Step
    \/ \E o \in Oids :
          \/ Delitem(o)
          \/ \E t \in written[o] : AddToEden(o, t) \/ StoreAndMakeMRU(o, t)
          \/ \E t \in Tids : DelitemBefore(o, t) \/ Freeze(o, t)
          \/ \E th \in Threads, wanted \in Tids \cup {Null}, peek \in BOOLEAN :
                GetOrPeek(th, o, wanted, peek)
    \/ \E th \in Threads : PyRelease(th)
    \/ \E file \in Files : AddMany(file)
    \/ AgeFrequencies
    \/ FlushAll

\* A call that has started runs to its end: the GIL is not given up.
Spec == Init /\ [][Next]_vars /\ WF_vars(Step)

----------------------------------------------------------------------------
(* Properties.                                                              *)

\* Every variable has its type; in particular a sum never leaves the range
\* of size_t and an entry always has a value.
TypeOK ==
    /\ heap \in [Addr -> Entries \cup {Null}]
    /\ data \in [Oids -> Addr \cup {Null}]
    /\ ring \in [Generations -> Seq(Addr)]
    /\ sum \in [Generations -> 0..SizeModulus - 1]
    /\ limit \in Limits /\ written \in Workloads
    /\ sets \in 0..MaxSets
    /\ python \in [Threads -> Addr \cup {Null}]
    /\ pc \in {"idle", "hit", "fill", "spill", "load", "return"}
    /\ spill \in [from: Generations \cup {Null}, to: Generations \cup {Null},
                  ignore: Addr \cup {Null}, rejects: BOOLEAN]
    /\ evicting \in BOOLEAN /\ multiple \in BOOLEAN
    /\ call \in [oid: Oids \cup {Null}, thread: Threads \cup {Null},
                 result: Addr \cup {Null}]
    /\ rows \in Seq(Rows)

\* The assertions of in_index, in_generation and Cache::size: an entry is in
\* the index exactly when it is in a generation, in the list of that
\* generation and no other, once, whatever sequence of stores, hits,
\* replacements and evictions came before.
IndexMatchesRings ==
    /\ \A a \in Addr, g \in Generations :
          Cardinality({i \in DOMAIN ring[g] : ring[g][i] = a}) =
              IF \E o \in Oids : data[o] = a /\ heap[a].generation = g THEN 1 ELSE 0
    /\ \A o \in Oids : data[o] # Null =>
          /\ heap[data[o]] # Null
          /\ heap[data[o]].oid = o
          /\ heap[data[o]].generation # Null

\* An entry in the cache has several values exactly when it is of the class
\* for several values, so that to_single and newest_tid always have one.
SeveralValues ==
    \A o \in Oids : data[o] # Null =>
        (heap[data[o]].several <=> Cardinality(DOMAIN heap[data[o]].values) > 1)

\* A cached value that Python holds, or is about to get as the result of the
\* running call, is not freed, reused or changed but for being frozen, though
\* the cache replaces and evicts entries meanwhile.
HeldValuesStay ==
    [][\A a \in Addr :
          ((\E t \in Threads : python[t] = a /\ python'[t] = a) \/
           (pc # "idle" /\ call.result = a))
          => /\ heap'[a] # Null
             /\ heap'[a].oid = heap[a].oid
             /\ DOMAIN heap'[a].values = DOMAIN heap[a].values]_vars

RingWeight(g) ==
    SumFunction([a \in Range(ring[g]) |-> Weight(heap[a])])

\* The sum of every generation is the weight of the entries in it as long
\* as no entry of the cache has had several values: "the generation's weights
\* have been changed as appropriate" (c_cache.h) by every call.
SingleWeightsAccounted ==
    ~ multiple => \A g \in Generations : sum[g] = RingWeight(g)

\* As long as no entry has had several values, the protected generation is
\* over its limit between two calls only when it holds a single entry: hits
\* demote, and bulk loads and fills never leave it too large.
ProtectedWithinLimit ==
    pc = "idle" /\ ~ multiple /\ Oversize("protected", sum)
        => Len(ring["protected"]) = 1

\* Every call ends: the loops of the spills and of the bulk load stop.
CallsEnd == pc # "idle" ~> pc = "idle"

\* The values the index leads to, and the object the running call works on
Values == INSTANCE ValueCache WITH
    Nobody <- Null,
    Loader <- "loader",
    values <- [o \in Oids |->
                  IF data[o] = Null THEN {}
                  ELSE {[tid |-> t, frozen |-> heap[data[o]].values[t]] :
                            t \in DOMAIN heap[data[o]].values}],
    using <- IF pc = "idle" THEN Null
             ELSE IF call.oid = Null THEN "loader" ELSE call.oid

\* The cache implements ValueCache: rings, weights and replaced entries are
\* invisible but for evictions, and no call evicts the object it works on.
ImplementsValueCache == Values!Spec
=============================================================================
