----------------------------- MODULE MC_IdStore -----------------------------
(* Model values and bounds for the IdStore runs.                           *)
EXTENDS IdStore

CONSTANTS o1, o2, o3, o4, s0, nil

MCObjects == {o1, o2, o3, o4}

(* The object store: o4 is non-collectable (a built-in prototype), and so *)
(* is the sentinel in slot 0.                                              *)
ObjectStoreCollectable == {o1, o2, o3}

(* The string store: its gcSweep has no collectable() test.                *)
StringStoreCollectable == MCObjects \cup {s0}
=============================================================================
