--------------------------- MODULE MCOutputCodec ---------------------------
(***************************************************************************)
(* Bytes of four values and token values of at most two of them: bytes of  *)
(* zero and of the largest value, in every padding, one too long, cut      *)
(* short, and in pairs; one address, ELA and one token.                    *)
(***************************************************************************)
EXTENDS OutputCodec

MCToken == {<<1, n>> \o v \o <<0, 1>> : n \in 0 .. 3, v \in UNION {[1 .. k -> {0, 3}] : k \in 0 .. 3}}

MCGoodToken == {w \in MCToken : Len(w) = w[2] + 4}

MCEla == {<<0, 3, 0, 1>>}

MCWires ==
  {<<1>> \o w : w \in MCEla \cup MCToken}
  \cup {<<2>> \o w \o x : w \in MCEla \cup {y \in MCGoodToken : y[2] # 1},
                         x \in MCEla \cup {<<1, 2, 1, 1, 0, 1>>}}

MCRegistrations == {[Name |-> 1, Height |-> 1], [Name |-> 1, Height |-> 2]}
=============================================================================
