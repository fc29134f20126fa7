------------------------ MODULE MCGenerationalCache ------------------------
(* Small instances of GenerationalCache for TLC.                             *)
EXTENDS GenerationalCache, TLC

CONSTANTS big, growing, small      \* object ids

MCStateLength ==
    [o \in Oids |-> [t \in Tids |-> CASE o = big -> 3
                                      [] o = growing -> t
                                      [] o = small -> 1]]

\* Either two objects, one of which is written several times, or three
\* objects that compete for room and are written once.
MCWorkloads ==
    {[o \in Oids |-> CASE o = big -> {1} [] o = growing -> Tids [] o = small -> {}],
     [o \in Oids |-> {1}]}

Limit(eden, protected, probation) ==
    [g \in Generations |-> CASE g = "eden" -> eden
                             [] g = "protected" -> protected
                             [] g = "probation" -> probation]

MCLimits == {Limit(4, 6, 4)}

Row(o, t, f) == [oid |-> o, tid |-> t, frozen |-> TRUE, frequency |-> f]

MCFiles == {<<Row(big, 1, 1), Row(small, 1, 2), Row(growing, 1, 1)>>,
            <<Row(growing, 1, 2), Row(big, 1, 1)>>}
=============================================================================
