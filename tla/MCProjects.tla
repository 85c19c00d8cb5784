----------------------------- MODULE MCProjects -----------------------------
(* An instance of Projects for TLC. *)
EXTENDS Projects, TLC

MCAsks == {{"image"}, {"server"}, {"user", "password"}}
MCFirstLogin == LoginOf(Nothing)
MCPayloads == {[Nothing EXCEPT !.server = Own],
               [Nothing EXCEPT !.image = Own, !.user = Own, !.password = Own]}
MCSymmetry == Permutations(Update) \cup Permutations(Job)
=============================================================================
