------------------------------- MODULE MCShell -------------------------------
(* Shell on a tree of up to three levels, with one or two names to a level,  *)
(* every path of up to three components that goes up once between names, and *)
(* mounts at the root and at a directory of the volume.                      *)
EXTENDS Shell

MCNames == {"A", "B"}
MCPaths == {<<"A">>, <<"B">>, <<"A", "A">>, <<"A", "B">>, <<"A", "B", "A">>}
MCArgs  == {arg \in [absolute : BOOLEAN,
                     comps : UNION {[1..n -> MCNames \union {".", ".."}] : n \in 0..3}] :
              OneUpAtATime(arg.comps)}
MCPoints == {RootDir, <<"A">>}
=============================================================================
