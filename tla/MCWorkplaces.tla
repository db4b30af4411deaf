--------------------------- MODULE MCWorkplaces -----------------------------
(* Two conversations are open at first, one in the checkout and one in the   *)
(* worktree of f, and a third can be created or forked; b is a branch that   *)
(* may not exist yet.                                                        *)
EXTENDS Workplaces, TLC
CONSTANTS s1, s2, s3, main, b, f
MCSession == {s1, s2, s3}
MCMoved == {s1}
MCEarly == {s2}
MCBranch == {b, f}
=============================================================================
