---------------------------- MODULE MCMethodCache ----------------------------
(***************************************************************************)
(* MethodCache for a root class and its subclass, with small caches.       *)
(***************************************************************************)
EXTENDS MethodCache, TLC

CONSTANTS Root, Sub

MCSuper == (Root :> NoClass) @@ (Sub :> Root)

MCMessages == {<<Root, 2>>, <<Sub, 2>>, <<Sub, 4>>, <<Sub, 6>>}

\* For the selector 2 nobody has a method, the root class has one, or the
\* subclass has another one.
MCFirstMethods ==
  LET none == [c \in Classes |-> [s \in Sels |-> Nil]]
      inherited == [none EXCEPT ![Root][2] = Forward + 1]
  IN {none, inherited, [inherited EXCEPT ![Sub][2] = Forward + 2]}

ThreadSymmetry == Permutations(Threads)

=============================================================================
