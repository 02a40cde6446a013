---------------------------- MODULE MCStateStore ----------------------------
(***************************************************************************)
(* Small instances of StateStore for TLC: two handler threads, the flush   *)
(* task, two durable and two deferred writes.                              *)
(***************************************************************************)
EXTENDS StateStore, TLC

CONSTANTS t1, t2, u1, u2, d1, d2

MCWriters == {t1, t2}
MCDurable == {u1, u2}
MCDeferred == {d1, d2}
MCOneDurable == {u1}
MCOneDeferred == {d1}

MCSymmetry == Permutations(MCWriters) \cup Permutations(MCDurable)
                \cup Permutations(MCDeferred)
=============================================================================
