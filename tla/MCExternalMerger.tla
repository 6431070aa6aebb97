-------------------------- MODULE MCExternalMerger --------------------------
(* At most three values under two keys; the values are told apart.  Three   *)
(* inputs are enough: which key comes first does not matter.                *)
EXTENDS ExternalMerger

CONSTANTS k1, k2

MCInputs == {<<>>, << <<k1, 1>>, <<k2, 2>>, <<k1, 3>> >>, << <<k1, 1>>, <<k1, 2>>, <<k2, 3>> >>}
=============================================================================
