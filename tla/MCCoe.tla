------------------------------- MODULE MCCoe -------------------------------
(***************************************************************************)
(* Dictionaries, operations and stray requests for model-checking Coe.     *)
(***************************************************************************)
EXTENDS Coe

Entry(index, sub, access, length) ==
  [index |-> index, sub |-> sub, access |-> access, length |-> length]

Name   == Entry(1, 0, {"R"}, 21)          \* three segments
Short  == Entry(2, 0, {"R", "W"}, 2)      \* expedited
Tuning == Entry(2, 1, {"R", "W"}, 5)      \* one segment
Door   == Entry(3, 0, {"W"}, 4)

Table1 == <<Name, Short, Tuning, Door>>
Table2 == <<Entry(1, 0, {"R"}, 5)>>
MCTables == {Table1, Table2}

Operation(kind, index, sub, data) ==
  [kind |-> kind, index |-> index, sub |-> sub, data |-> data]
Up(index, sub) == Operation("upload", index, sub, <<>>)
Down(index, sub, version) ==
  LET B(i) == Byte(<<index, sub>>, i, version)
  IN  Operation("download", index, sub, <<B(1), B(2), B(3), B(4)>>)

Uploads   == {Up(1, 0), Up(2, 0), Up(2, 1), Up(2, 9), Up(3, 0)}
Downloads == {Down(2, 1, 1), Down(2, 1, 2), Down(1, 0, 1), Down(2, 0, 1)}
MCOperations == Uploads \cup Downloads

MCStrays ==
  { Request("sdo", "upload", 1, 0), Request("sdo", "abort", 0, 0),
    Request("sdo", "segment", 0, 0), Request("sdo", "other", 1, 0),
    Request("info", "list", 0, 0), Request("none", "other", 0, 0),
    [Request("sdo", "download", 2, 1) EXCEPT !.expedited = FALSE] }

=============================================================================
