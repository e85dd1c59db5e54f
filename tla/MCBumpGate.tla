----------------------------- MODULE MCBumpGate -----------------------------
(* BumpGate where the second version of one package never builds, and that of
   the other now and then. *)
EXTENDS BumpGate

MCBroken == {<<"a", 2>>}
MCFlaky == {<<"b", 2>>}
MCNone == {}
=============================================================================
