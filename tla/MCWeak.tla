------------------------------- MODULE MCWeak -------------------------------
EXTENDS LuaGC
CONSTANTS reg, w, x, y, v, z, s, main, num, nil
(* Tables w with weak keys, v with weak values, z with both.               *)
MCTables == {reg, w, x, y, v, z}
MCModes == [t \in MCTables |-> CASE t = w -> "k" [] t = v -> "v" [] t = z -> "kv" [] OTHER -> ""]
MCWrites == {<<reg, num, w>>, <<w, x, y>>, <<w, y, x>>, <<reg, num, v>>, <<v, num, z>>, <<z, v, s>>}
MCMetas == {<<w, w>>, <<v, v>>, <<z, z>>}
MCMaxStack == [th \in Threads |-> 2]
(* A program uses weak keys or weak values.                                *)
OneKind == Alloc \intersect {w, x, y} = {} \/ Alloc \intersect {v, z, s} = {}
ColorView == [o \in Obj |-> CASE color[o] = currentwhite -> "current"
                              [] color[o] = otherwhite   -> "other"
                              [] OTHER                   -> color[o]]
GrayView == IF gcstate \in {"propagate", "atomic", "insideatomic"} THEN grayVars ELSE <<>>
View == <<ColorView, listVars, gcstate, gcfinnum, atom, sweepVars, GrayView, refVars, funcVars,
          stackVars, cstack>>
=============================================================================
