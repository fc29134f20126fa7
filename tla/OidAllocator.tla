---------------------------- MODULE OidAllocator ----------------------------
(***************************************************************************)
(* Allocation of object ids by the storage instances of one database.      *)
(* A database sequence hands out ranges of oids; an instance gives out the *)
(* oids of its range one by one, and raises the sequence when it commits   *)
(* an oid greater than any it has seen, perhaps one that was copied from   *)
(* another database.                                                       *)
(*                                                                         *)
(* Backend names the way the sequence is raised: PostgreSQL's statement    *)
(* compares and sets it, MySQL's procedure and SQLite's statement compare  *)
(* and raise it to at least a value.  None of them is one step.            *)
(***************************************************************************)
EXTENDS Integers

CONSTANTS
    Client,      \* storage instances
    RangeSize,   \* _OID_RANGE_SIZE
    MaxSequence, \* bound: the last value of the sequence
    Outside,     \* oids of transactions copied from elsewhere
    Backend

ASSUME OidAssumption ==
    /\ RangeSize \in Nat \ {0}
    /\ MaxSequence \in Nat
    /\ Outside \subseteq Nat
    /\ Backend \in {"postgresql", "mysql", "sqlite"}

VARIABLES
    sequence,      \* the last value of zoid_seq or new_oid
    preallocated,  \* preallocated_oids
    max_allocated, \* max_allocated_oid
    observed,      \* the oid an instance calls set_min_oid with, or None
    given,         \* history: the oids an instance has given out
    minimum        \* history: the greatest oid set_min_oid has ensured

vars == <<sequence, preallocated, max_allocated, observed, given, minimum>>

None == 0

Init ==
    /\ sequence = 0
    /\ preallocated = [c \in Client |-> {}]
    /\ max_allocated = [c \in Client |-> 0]
    /\ observed = [c \in Client |-> None]
    /\ given = [c \in Client |-> {}]
    /\ minimum = 0

-----------------------------------------------------------------------------

\* SQLite keeps the sequence in a file and a connection of its own; the
\* others use the store connection, borrowed from the pool.
Pooled == Backend # "sqlite"

\* _oid_range_around: value n stands for the RangeSize oids up to n * RangeSize.
OidRangeAround(n) == (n * RangeSize - RangeSize + 1)..(n * RangeSize)

\* Mutant: rounded down.
RangeBelow(oid) == oid \div RangeSize

\* The value that stands for the range of an oid.
RangeOf(oid) == (oid + RangeSize - 1) \div RangeSize

IsSmallest(o, S) == o \in S /\ \A p \in S : o <= p

\* preallocated_oids.pop(): the list is sorted, its smallest oid comes last.
Pop(c, S) ==
    \E o \in S : /\ IsSmallest(o, S)
                 /\ preallocated' = [preallocated EXCEPT ![c] = S \ {o}]
                 /\ given' = [given EXCEPT ![c] = @ \cup {o}]

NewOid(c) ==
    /\ observed[c] = None
    /\ preallocated[c] # {}
    /\ Pop(c, preallocated[c])
    /\ UNCHANGED <<sequence, max_allocated, observed, minimum>>

NewOids(c) ==
    /\ observed[c] = None
    /\ preallocated[c] = {}
    /\ sequence < MaxSequence
    /\ sequence' = sequence + 1
    /\ Pop(c, OidRangeAround(sequence + 1))
    /\ max_allocated' = [max_allocated EXCEPT ![c] =
           IF @ < (sequence + 1) * RangeSize THEN (sequence + 1) * RangeSize ELSE @]
    /\ UNCHANGED <<observed, minimum>>

\* The range has arrived and the COMMIT of the borrowed connection fails:
\* new_oid() raises, and the instance keeps the range.
NewOidsFails(c) ==
    /\ Pooled
    /\ observed[c] = None
    /\ preallocated[c] = {}
    /\ sequence < MaxSequence
    /\ sequence' = sequence + 1
    /\ preallocated' = [preallocated EXCEPT ![c] = OidRangeAround(sequence + 1)]
    /\ UNCHANGED <<max_allocated, observed, given, minimum>>

-----------------------------------------------------------------------------
(* set_min_oid, called by tpc_vote with the greatest oid it stores. *)

\* The instance's own part, when the database's is done.
RememberObserved(c, oid) ==
    /\ max_allocated' = [max_allocated EXCEPT ![c] = oid]
    /\ preallocated' = [preallocated EXCEPT ![c] = {o \in @ : o >= oid}]
    /\ observed' = [observed EXCEPT ![c] = None]
    /\ minimum' = IF minimum < oid THEN oid ELSE minimum

\* nextval, or an INSERT, uses up a value to learn where the sequence is.
LookAtSequence ==
    IF Pooled
    THEN sequence < MaxSequence /\ sequence' = sequence + 1
    ELSE UNCHANGED sequence

\* MySQL's procedure reads the rows it can see first.
SeesEnough(n) == Backend = "mysql" /\ sequence >= n

SetMinOid(c, oid) ==
    /\ observed[c] = None
    /\ oid > max_allocated[c]
    /\ \/ /\ SeesEnough(RangeOf(oid))
          /\ UNCHANGED sequence
          /\ RememberObserved(c, oid)
       \/ /\ LookAtSequence
          /\ RangeOf(oid) <= sequence'
          /\ RememberObserved(c, oid)
       \/ /\ LookAtSequence
          /\ RangeOf(oid) > sequence'
          /\ observed' = [observed EXCEPT ![c] = oid]
          /\ UNCHANGED <<preallocated, max_allocated, minimum>>
    /\ UNCHANGED given

\* Mutant: the sequence is set to the value, wherever it is by then.
SetTo(n) == n

\* setval sets it; an AUTO_INCREMENT column and a guarded UPDATE never go back.
Raised(n) == IF Backend = "postgresql" \/ sequence < n THEN n ELSE sequence

RaiseSequence(c) ==
    /\ observed[c] # None
    /\ RangeOf(observed[c]) <= MaxSequence
    /\ sequence' = Raised(RangeOf(observed[c]))
    /\ RememberObserved(c, observed[c])
    /\ UNCHANGED given

\* The statement fails, the vote fails, and the instance has learned nothing.
SetMinOidFails(c) ==
    /\ observed[c] # None
    /\ observed' = [observed EXCEPT ![c] = None]
    /\ UNCHANGED <<sequence, preallocated, max_allocated, given, minimum>>

\* The instance is closed and another one opened.
NewInstance(c) ==
    /\ observed[c] = None
    /\ preallocated' = [preallocated EXCEPT ![c] = {}]
    /\ max_allocated' = [max_allocated EXCEPT ![c] = 0]
    /\ UNCHANGED <<sequence, observed, given, minimum>>

Stored == Outside \cup UNION {given[c] : c \in Client}

Step(c) ==
    \/ NewOid(c)
    \/ NewOids(c)
    \/ NewOidsFails(c)
    \/ \E oid \in Stored : SetMinOid(c, oid)
    \/ RaiseSequence(c)
    \/ SetMinOidFails(c)
    \/ NewInstance(c)

Next == \E c \in Client : Step(c)

Spec == Init /\ [][Next]_vars

-----------------------------------------------------------------------------
(* Properties. *)

Has(c) == given[c] \cup preallocated[c]

\* No oid is given out twice, by two instances or by one, and none is
\* waiting to be: new_oid() results are new, whatever minimum the instances
\* set at the same time.
UniqueOids ==
    \A c \in Client :
        /\ given[c] \cap preallocated[c] = {}
        /\ \A d \in Client \ {c} : Has(c) \cap Has(d) = {}

\* A range an instance gets lies above every minimum that was set, by any
\* instance.  What an instance had preallocated before is not meant: new_oid()
\* still gives it out when another instance sets a minimum beyond it.
NewRangesAreGreater ==
    [][\A c \in Client : \A o \in Has(c)' \ Has(c) : o > minimum]_vars
=============================================================================
