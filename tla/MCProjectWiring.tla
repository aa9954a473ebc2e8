--------------------------- MODULE MCProjectWiring ---------------------------
(* ProjectWiring with two hubs of one name and, to be wired themselves, a      *)
(* repository named like the view.                                             *)
EXTENDS ProjectWiring, TLC

CONSTANTS p, q, a, b, s, anchor, v

SmallName == a :> "n" @@ b :> "n" @@ s :> "v" @@ v :> "v" @@ anchor :> "p"
SmallCommands == {<<"derive", a>>, <<"teardown", a>>, <<"retrofit", a>>, <<"archive", a>>,
                  <<"seed_view", a>>, <<"prune", a>>, <<"teardown", s>>}
SmallStarts == {{a, v}}
Symmetry == Permutations(Procs)
=============================================================================
