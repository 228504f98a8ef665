----------------------------- MODULE MCClosures -----------------------------
EXTENDS LuaGC, TLC
CONSTANTS reg, f, g, p, c, cell1, cell2, co, main, num, nil
MCModes == [t \in {reg} |-> ""]
MCMaxStack == [th \in Threads |-> 2]
MCVals == {<<c, f>>, <<c, g>>}
MCJoins == {<<f, g>>, <<g, f>>}
SelfJoins == {<<f, f>>, <<g, g>>}
ColorView == [o \in Obj |-> CASE color[o] = currentwhite -> "current"
                              [] color[o] = otherwhite   -> "other"
                              [] OTHER                   -> color[o]]
GrayView == IF gcstate \in {"propagate", "atomic", "insideatomic"} THEN grayVars ELSE <<>>
View == <<ColorView, listVars, gcstate, gcfinnum, atom, sweepVars, GrayView, refVars, funcVars,
          stackVars, cstack>>
Symmetric == Permutations({f, g}) \union Permutations({cell1, cell2})
=============================================================================
