----------------------------- MODULE MCHistory -----------------------------
(* Small instances of HistorySync: two jobs compete for one folder.        *)
EXTENDS HistoryProperties, TLC

CONSTANTS d1, d2, f1, a1

OneJob == {d1}
JobSet == {d1, d2}
OneFolder == {f1}
OneAccount == (f1 :> a1)

(* A gap below the newest message, or none.                                *)
GapUids == (f1 :> {1, 3})
PairUids == (f1 :> {1, 2})

JobSymmetry == Permutations(JobSet)
=============================================================================
