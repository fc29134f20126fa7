---------------------------- MODULE AtomicCommit ----------------------------
(***************************************************************************)
(* What two-phase commit promises its users: the committed database is a   *)
(* chain of revisions per object, and a transaction adds its revisions in  *)
(* one indivisible step.  In that step its transaction id is later than    *)
(* every committed one, and each revision it writes replaces the revision  *)
(* it was computed from (or was merged with).                              *)
(***************************************************************************)
EXTENDS Integers

CONSTANTS Oid, InitOids, MaxTid

VARIABLES
    rows,      \* object_state: [oid, tid, prev, data] records
    current,   \* current_object: the newest tid of each oid, 0 when it has none
    txns       \* transaction: the committed tids

InitTid == 1

Init ==
    /\ rows = {[oid |-> o, tid |-> InitTid, prev |-> 0, data |-> InitTid] : o \in InitOids}
    /\ current = [o \in Oid |-> IF o \in InitOids THEN InitTid ELSE 0]
    /\ txns = {InitTid}

Commit(t, writes) ==
    /\ \A s \in txns : s < t
    /\ txns' = txns \cup {t}
    /\ rows' = rows \cup {[oid |-> o, tid |-> t, prev |-> current[o], data |-> t] : o \in writes}
    /\ current' = [o \in Oid |-> IF o \in writes THEN t ELSE current[o]]

Next == \E t \in 1..MaxTid, writes \in SUBSET Oid : Commit(t, writes)

Spec == Init /\ [][Next]_<<rows, current, txns>>
=============================================================================
