----------------------------- MODULE MCSessions -----------------------------
(* Three requests at a time on one case: see Sessions.                      *)
EXTENDS Sessions

\* The remedy under the first hypothesis needs an approval, the one under the second does not.
GatedFirst == {1}
=============================================================================
