------------------------------- MODULE MCNet --------------------------------
EXTENDS Net

CONSTANTS u1, u2, i1, p1337, p7

MCLoad(frames, kinds, most, socks, headers) ==
  [frames |-> frames, kinds |-> kinds, sends |-> most, sockets |-> socks, headers |-> headers]

(* Reception past the first use of all descriptors, with rings that        *)
(* overflow; every kind of frame and of socket; sending, with a ring that  *)
(* overruns; every header of three words.                                  *)
MCWorkloads ==
  {MCLoad(5, {p1337}, 0, {u1}, {}), MCLoad(3, {"long", p7}, 0, {u1}, {}),
   MCLoad(2, {"long", "other", "icmp", p1337}, 1, {u1, u2, i1}, {<<1>>}),
   MCLoad(1, {"other"}, 5, {u1, i1}, {<<1>>}),
   MCLoad(0, {}, 1, {i1}, [1 .. 3 -> 0 .. Modulus - 1])}

MCRxWorkloads == {MCLoad(4, {p1337, "other"}, 0, {u1}, {})}
=============================================================================
