--------------------------- MODULE MCHttpSession ---------------------------
(* An instance of HttpSession for TLC: what the client may send. *)
EXTENDS HttpSession

CONSTANT c1

Meant(lengths, junk, body) == [lengths |-> lengths, junk |-> junk, body |-> body]
Get == Meant(<<>>, FALSE, 0)
Post(n) == Meant(<<n>>, FALSE, n)

Sessions == {
    <<Post(1), Get>>,                          \* as it should be
    <<Meant(<<1>>, TRUE, 1), Get>>,            \* rejected with a length
    <<Meant(<<Size - 3>>, FALSE, 0), Get>>,    \* header and length wrap to nothing
    <<Meant(<<>>, FALSE, 1), Get>> }           \* a body nobody announced

SessionPlans == [Conns -> Sessions]
=============================================================================
