-------------------------- MODULE MCCrimeIngestion --------------------------
(***************************************************************************)
(* Instances of CrimeIngestion for TLC.                                    *)
(***************************************************************************)
EXTENDS CrimeIngestion

CONSTANTS c1, c2, c3

\* Three crimes in two chunks, with a repeated and an invalid row between them.
MCRows == <<c1, Invalid, c2, c1, c3>>

Good == [ranges |-> "bytes", sized |-> TRUE, digest |-> "published"]

\* A server that offers everything, and servers that offer less or do not keep to it.
MCServers == {Good, [Good EXCEPT !.ranges = "none", !.sized = FALSE],
              [Good EXCEPT !.ranges = "ignored"], [Good EXCEPT !.digest = "none"]}
MCGoodServer == {Good}
=============================================================================
