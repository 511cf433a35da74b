------------------------------ MODULE MCSparse ------------------------------
(***************************************************************************)
(* Instances of SparseLoader.  Every array of five zeros and ones is        *)
(* compressed and loaded alone; two data sets of different lengths, one    *)
(* with a buffer of zeros only, are loaded by loads that overlap.          *)
(***************************************************************************)
EXTENDS SparseLoader

Arr(s) == [i \in 0 .. Len(s) - 1 |-> s[i + 1]]
MCLabels == {"int", "float"}

Bits(n) == [i \in 0 .. 4 |-> (n \div 2 ^ i) % 2]
MCData ==
  [d \in 0 .. 33 |->
     CASE d = 32 -> [int |-> Arr(<<1, 2, 3, 0>>), float |-> Arr(<<0, 0>>)]
       [] d = 33 -> [int |-> Arr(<<0, 0, 5>>), float |-> Arr(<<4, 4>>)]
       [] OTHER -> [int |-> Bits(d), float |-> Arr(<<1>>)]]
MCShelves == {{d} : d \in 0 .. 31} \cup {{32, 33}}

=============================================================================
