-------------------------------- MODULE MCPage --------------------------------
(* KsPage for TLC: files on both sides of every boundary of the code, with *)
(* a zero byte nowhere, at the start, and in the last place; and targets   *)
(* of every kind, on both sides of the path's limit.                       *)
EXTENDS KsPage

Sizes == {0, 1, 9, 10, 11, 99, 100, 999, 1000, 9999, 10000, 65533, 65534,
          65535, 65536, 65537, 131072, 131073, 5000000}

File(kind, n, s, z) == [asks |-> kind, name |-> n, size |-> s, zero |-> z]

MCFiles ==
    {File("name", 2, s, z) : s \in Sizes, z \in {0, 65534, 65535, 65536}} \cup
    {File("name", 2, s, s) : s \in Sizes} \cup
    {File(k, n, 90, 90) : k \in {"dots", "name"}, n \in {495, 496, 497, 4000}}
    \cup {File("root", 1, 90, 90)}

LegalFiles == {f \in MCFiles : f.zero <= f.size}

=============================================================================
