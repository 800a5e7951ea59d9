------------------------------ MODULE MCSgTable ------------------------------
(* Values for the constants of SgTable: pages of 4 bytes, an unsigned int of  *)
(* 5 bits, an unsigned long of 8.                                             *)
EXTENDS SgTable

\* Every offset in a page; buffers up to more than an unsigned int can count,
\* and the last ones before the sum of both wraps.
AllBufs == 8 .. 11
AllLens == (0 .. 36) \cup (ULong - 12 .. ULong - 1)
==============================================================================
