------------------------------- MODULE MCHeap -------------------------------
EXTENDS LuaGC
CONSTANTS reg, m, u, main, num, nil
MCTables == {reg, m}
MCWeakMode == [t \in MCTables |-> ""]
MCWrites == {<<reg, num, m>>, <<m, num, u>>}
MCMetas == {<<u, m>>}
MCVals == {<<u, m>>}
MCMaxStack == [th \in Threads |-> 2]
ColorView == [o \in Obj |-> CASE color[o] = currentwhite -> "current"
                              [] color[o] = otherwhite   -> "other"
                              [] OTHER                   -> color[o]]
GrayView == IF gcstate \in {"propagate", "atomic", "insideatomic"} THEN grayVars ELSE <<>>
View == <<ColorView, listVars, gcstate, gcfinnum, atom, sweepVars, GrayView, refVars, funcVars,
          stackVars, cstack>>
=============================================================================
