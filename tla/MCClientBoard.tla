---------------------------- MODULE MCClientBoard ----------------------------
(***************************************************************************)
(* Instances of ClientBoard for TLC.                                        *)
(***************************************************************************)
EXTENDS ClientBoard, TLC

CONSTANTS p1, m1, m2, m3, w1, s1, s2, f1, f2, f3, c1, a1, g1, t1

At(place, rank) == [Fresh(place, t1) EXCEPT !.rank = rank]

\* A project with one card of each kind, each made as the first of its list, and
\* neither comments nor personas.
OneCard ==
  p1 :> At(<<>>, <<>>) @@ m1 :> At(<<p1>>, <<12>>)
    @@ w1 :> At(<<p1>>, <<12>>) @@ s1 :> At(<<w1>>, <<12>>)
    @@ f1 :> At(<<m1, s1>>, <<12>>)

\* The cell has a second card, dragged to the front again and again, and there is a
\* second release, the last of many: no letter is left beside their ranks.
TwoReleases == OneCard @@ f2 :> At(<<m1, s1>>, <<1>>) @@ m2 :> At(<<p1>>, <<24>>)

=============================================================================
