--------------------------- MODULE MCStallShadow ----------------------------
(* StallShadow running a program with one bit per register, from any       *)
(* register content: an endless loop that reads a memory bit and           *)
(* accumulates it.                                                         *)
(*                                                                         *)
(*   LEGUP_0:  wait for start                                              *)
(*   load:     t = i xor mem          t has no part in a feedback path     *)
(*   add:      out = s;  s = s xor t;  i = not i     s and i are phis      *)
(*   flush:    u = out xor mem;  entered from add when i is 1              *)
EXTENDS StallShadow, Integers

MCCtl == {"LEGUP_0", "load", "add", "flush"}

MCReg == {"i", "s", "t", "out", "u"}

MCPhi == {"i", "s"}

MCInput == [start : BOOLEAN, mem : {0, 1}]

MCPowerUp == Data

LOCAL Xor(a, b) == (a + b) % 2

MCNextCtl(c, d, in) ==
  CASE c = "LEGUP_0" -> IF in.start THEN "load" ELSE "LEGUP_0"
    [] c = "load"    -> "add"
    [] c = "add"     -> IF d["i"] = 1 THEN "flush" ELSE "load"
    [] c = "flush"   -> "load"

MCLoads(c, x, d, in) ==
  \/ c = "LEGUP_0" /\ in.start /\ x \in MCPhi
  \/ c = "load" /\ x = "t"
  \/ c = "add" /\ x \in {"i", "s", "out"}
  \/ c = "flush" /\ x = "u"

MCDriver(c, x, d, in) ==
  CASE c = "load" /\ x = "t"  -> Xor(d["i"], in.mem)
    [] c = "add" /\ x = "i"   -> 1 - d["i"]
    [] c = "add" /\ x = "s"   -> Xor(d["s"], d["t"])
    [] c = "add" /\ x = "out" -> d["s"]
    [] c = "flush" /\ x = "u" -> Xor(d["out"], in.mem)
    [] OTHER -> 0

=============================================================================
