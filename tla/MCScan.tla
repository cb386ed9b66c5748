------------------------------- MODULE MCScan -------------------------------
(***************************************************************************)
(* Three slaves of one vendor, a database of two and a library of two      *)
(* devices; files with one device too many, no name, no match.             *)
(***************************************************************************)
EXTENDS Scan

CONSTANTS s1, s2, s3

Id(v, p, r, s) == [vendor |-> v, product |-> p, revision |-> r, serial |-> s]
Identities == [s \in Slaves |-> IF s = s1 THEN Id(7, 1, 1, 1)
                               ELSE IF s = s2 THEN Id(7, 2, 2, 2)
                               ELSE Id(7, 1, 3, 3)]

(* s1 is the library's when Library has it: in second place, if it can.    *)
InTurn == [s \in Slaves |-> IF s = s1 THEN 1 ELSE 0]

Mixed2   == {<<s1, s2>>, <<s2, s3>>, <<s2>>}
BothWays == {<<s1, s2>>, <<s2, s1>>, <<s1>>, <<s2>>}

Drive    == Device("drive", 7, 2, 5, 0)
Coupler  == Device("coupler", 7, 1, 6, 0)
Nameless == Device("", 7, 1, 4, 4)
Esi == { << <<Drive, Coupler>> >>, << <<Nameless>>, <<Coupler, Drive>> >> }
=============================================================================
