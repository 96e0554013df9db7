----------------------------- MODULE MCBackends -----------------------------
EXTENDS BackendsProperties

(* Two overlapping calls, and a mishap.                                    *)
Overlaps == [provider : {"gmail", "fastmail"}, calls : {2}, mishaps : {1}]
=============================================================================
