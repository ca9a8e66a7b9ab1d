------------------------- MODULE MCFrameworkCatalog -------------------------
(***************************************************************************)
(* Instances of FrameworkCatalog for TLC: three uploads.  The first has    *)
(* one of everything; the second changes the level's content, in the       *)
(* second of two lines about it, and brings a further skill; the third     *)
(* has a level whose skill it lacks and another on two lines.  The uploads *)
(* are interchangeable.                                                    *)
(***************************************************************************)
EXTENDS FrameworkCatalog, TLC

CONSTANTS C1, C2, T1, T2, A1

Line(n, t, u, k, x) == [place |-> n, table |-> t, under |-> u, key |-> k, text |-> x]

MCPayloads ==
  { { Line(1, "framework", Root, Framework, T1), Line(1, "skill", Framework, C1, T1),
      Line(1, "level", C1, 1, T1), Line(1, "attribute", Framework, A1, T1) },
    { Line(1, "framework", Root, Framework, T2), Line(1, "skill", Framework, C1, T1),
      Line(2, "skill", Framework, C2, T2),
      Line(1, "level", C1, 1, T1), Line(2, "level", C1, 1, T2) },
    { Line(1, "framework", Root, Framework, T1), Line(1, "skill", Framework, C2, T2),
      Line(1, "level", C1, 1, T2), Line(2, "level", C2, 1, T2), Line(3, "level", C2, 1, T1) } }

Symmetry == Permutations(Imports)
=============================================================================
