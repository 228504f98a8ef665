----------------------------- MODULE MCFindings -----------------------------
EXTENDS LuaGC
CONSTANTS reg, w, x, main, num, nil
BothTables == {reg, w, x}
BothModes == [t \in BothTables |-> IF t = reg THEN "" ELSE "kv"]
BothWrites == {<<reg, num, w>>}
BothMetas == {<<w, w>>, <<w, x>>}
MCMaxStack == [th \in Threads |-> 2]
=============================================================================
