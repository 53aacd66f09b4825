--------------------------- MODULE MCProvablyFair ---------------------------
(* ProvablyFair on small instances. *)
EXTENDS ProvablyFairProps, TLC

CONSTANTS c1, c2

ClientSeeds == {c1, c2}
Long2 == {c2}

\* Words in 0 .. 255.  The first draws of a seed are above the range (raw points
\* beyond 10.0), so that different seeds give the same crash point; the others
\* are in the range, but Word(2, c1, 2) = 200 is an instant crash, 1.0, which
\* CrashPoint.create refuses unless PointMin has raised it.
MCWord(s, c, n) == (s + 207 * n + 40 + (IF c = c1 THEN 0 ELSE 5)) % 256
=============================================================================
