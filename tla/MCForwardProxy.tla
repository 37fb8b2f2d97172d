--------------------------- MODULE MCForwardProxy ---------------------------
(***************************************************************************)
(* ForwardProxy on small sets of connections and requests.                 *)
(***************************************************************************)
EXTENDS ForwardProxy, TLC

Symmetry == Permutations(Conn) \cup Permutations(Req)

=============================================================================
