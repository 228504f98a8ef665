--------------------------- MODULE LuaSafetyProofs ---------------------------
(***************************************************************************)
(* The collector keeps SafetyInv too, so that no object that the program   *)
(* can still find is ever freed, and what it clears from weak tables and   *)
(* finalizes is garbage.                                                   *)
(***************************************************************************)
EXTENDS LuaMutatorProofs

(***************************************************************************)
(* What a step of the mark phase does to colours and to references.        *)
(***************************************************************************)
(* Under the colours c objects are marked, which gives d.                  *)
Marks(c, d) ==
  \A x \in Obj :
    \/ d[x] = c[x]
    \/ /\ c[x] \in Whites /\ d[x] = IF x \in Leaves THEN "black" ELSE "gray"
       /\ x \in Udatas => /\ mt[x] \in Obj => d[mt[x]] \notin Whites
                          /\ val[x] \in Obj => d[val[x]] \notin Whites

NewGray(c, d) == {x \in Obj : c[x] \in Whites /\ d[x] = "gray"}

(* Objects are marked, and the gray ones of B turn black.                  *)
Paints(B) ==
  \A x \in Obj :
    \/ color'[x] = color[x]
    \/ x \in B /\ x \notin Threads /\ color[x] = "gray" /\ color'[x] = "black"
    \/ /\ color[x] \in Whites /\ color'[x] = IF x \in Leaves THEN "black" ELSE "gray"
       /\ x \in Udatas => /\ mt[x] \in Obj => color'[mt[x]] \notin Whites
                          /\ val[x] \in Obj => color'[val[x]] \notin Whites

(* References are dropped, none is added.                                  *)
Shrunk ==
  /\ UNCHANGED <<mt, val, basemt, clp, upv, stk, running, resumer>>
  /\ \A t \in Tables : entries'[t] \subseteq entries[t]
  /\ \A p \in Protos : cache'[p] \in {cache[p], Nil}
  /\ \A th \in Threads : stale'[th] \in {stale[th], Nil}
  /\ \A u \in UpVals : uv'[u].th = uv[u].th /\ uv'[u].v = uv[u].v

(* Mark does that.                                                         *)
LEMMA MarkedMarks ==
  ASSUME NEW W, NEW c \in [Obj -> Colors], RefsOK
  PROVE  /\ Marks(c, Marked(W, c)) /\ Marked(W, c) \in [Obj -> Colors]
         /\ \A x \in W : x \in Obj => Marked(W, c)[x] \notin Whites
         /\ MarkSet(W, c) \ Leaves = NewGray(c, Marked(W, c))
<1>1. Marked(W, c) \in [Obj -> Colors]
  BY DEF Marked, Colors
<1>2. "gray" \notin Whites /\ "black" \notin Whites
  BY DEF Whites
<1>. DEFINE d == Marked(W, c)
            M == MarkSet(W, c)
<1>3. /\ M \subseteq Obj
      /\ \A o \in M : c[o] \in Whites /\ d[o] = IF o \in Leaves THEN "black" ELSE "gray"
      /\ \A o \in Obj \ M : d[o] = c[o]
      /\ \A x \in W : x \in Obj => d[x] \notin Whites
      /\ \A u \in M \intersect Udatas : /\ mt[u] \in Obj => d[mt[u]] \notin Whites
                                        /\ val[u] \in Obj => d[val[u]] \notin Whites
  BY MarkFacts
<1>. HIDE DEF d, M
<1>4. Marks(c, d)
  BY <1>3 DEF Marks
<1>5. M \ Leaves = NewGray(c, d)
  BY <1>2, <1>3 DEF NewGray
<1>. QED  BY <1>1, <1>3, <1>4, <1>5 DEF d, M

(* Marking twice.                                                          *)
LEMMA MarksTwice ==
  ASSUME NEW c, NEW d, NEW e, Marks(c, d), Marks(d, e)
  PROVE  /\ Marks(c, e)
         /\ \A x \in Obj : d[x] \notin Whites => e[x] = d[x]
         /\ NewGray(c, d) \union NewGray(d, e) = NewGray(c, e)
<1>1. "gray" \notin Whites /\ "black" \notin Whites
  BY DEF Whites
<1>2. \A x \in Obj : d[x] \notin Whites => e[x] = d[x]
  BY DEF Marks
<1>3. ASSUME NEW x \in Obj
      PROVE  \/ e[x] = c[x]
             \/ /\ c[x] \in Whites /\ e[x] = IF x \in Leaves THEN "black" ELSE "gray"
                /\ x \in Udatas => /\ mt[x] \in Obj => e[mt[x]] \notin Whites
                                   /\ val[x] \in Obj => e[val[x]] \notin Whites
  <2>1. CASE d[x] = c[x]
    BY <2>1 DEF Marks
  <2>2. CASE d[x] # c[x]
    <3>1. /\ c[x] \in Whites /\ d[x] = IF x \in Leaves THEN "black" ELSE "gray"
          /\ x \in Udatas => /\ mt[x] \in Obj => d[mt[x]] \notin Whites
                             /\ val[x] \in Obj => d[val[x]] \notin Whites
      BY <2>2 DEF Marks
    <3>2. e[x] = d[x]
      BY <1>1, <1>2, <3>1
    <3>. QED  BY <1>2, <3>1, <3>2
  <2>. QED  BY <2>1, <2>2
<1>4. Marks(c, e)
  BY <1>3 DEF Marks
<1>5. NewGray(c, d) \union NewGray(d, e) = NewGray(c, e)
  BY <1>1, <1>2 DEF Marks, NewGray
<1>. QED  BY <1>2, <1>4, <1>5

(* Nothing is freed in the mark phase, and nothing turns white.            *)
LEMMA PaintsFacts ==
  ASSUME TypeOK, TypeOK', KeptOK, KindsOK, UNCHANGED <<currentwhite, mt, val>>,
         \A x \in Obj : color[x] # otherwhite, NEW B, Paints(B)
  PROVE  /\ NotDead' = NotDead /\ Alloc' = Alloc /\ KindsOK'
         /\ \A x \in Obj : color'[x] # otherwhite'
         /\ \A x \in Obj : color'[x] = "free" <=> color[x] = "free"
         /\ Reached \subseteq Reached'
         /\ \A x \in NotDead : color'[x] \notin Whites => x \in Reached'
         /\ GrayOnes' = (GrayOnes \ {x \in B : color'[x] = "black"}) \union NewGray(color, color')
         /\ \A x \in NewGray(color, color') : x \notin GrayOnes
         /\ \A x \in Obj : color'[x] = "black" =>
              \/ color[x] = "black"
              \/ x \in B /\ color[x] = "gray"
              \/ x \in Strings
              \/ x \in Udatas /\ In(mt[x], Reached') /\ In(val[x], Reached')
<1>0. otherwhite' = otherwhite
  BY DEF otherwhite
<1>1. ASSUME NEW x \in Obj
      PROVE  /\ color[x] = "free" <=> color'[x] = "free"
             /\ color'[x] # otherwhite'
             /\ color[x] \in {"gray", "black"} => color'[x] \in {"gray", "black"}
             /\ x \in Threads => color'[x] # "black"
             /\ x \in Leaves => color'[x] # "gray"
             /\ color'[x] \notin Whites => color'[x] \in {"free", "gray", "black"}
  BY <1>0, ColorFacts, ColorFactsNext, OneKind DEF Paints, KindsOK, Colors
<1>2. NotDead' = NotDead /\ Alloc' = Alloc
  BY <1>1, ColorFacts, ColorFactsNext
<1>3. KindsOK'
  BY <1>1 DEF KindsOK
<1>4. Reached \subseteq Reached'
  BY <1>1 DEF Reached
<1>5. \A x \in NotDead : color'[x] \notin Whites => x \in Reached'
  BY <1>1, ColorFacts DEF Reached
<1>6. /\ GrayOnes' = (GrayOnes \ {x \in B : color'[x] = "black"}) \union NewGray(color, color')
      /\ \A x \in NewGray(color, color') : x \notin GrayOnes
  BY ColorFacts DEF GrayOnes, NewGray, Paints
<1>7. ASSUME NEW x \in Obj, color'[x] = "black"
      PROVE  \/ color[x] = "black"
             \/ x \in B /\ color[x] = "gray"
             \/ x \in Strings
             \/ x \in Udatas /\ In(mt[x], Reached') /\ In(val[x], Reached')
  <2>1. CASE color[x] \in Whites /\ x \in Udatas
    <3>1. x \in NotDead
      BY <1>7, <2>1, ColorFacts
    <3>2. In(mt[x], NotDead) /\ In(val[x], NotDead)
      BY <2>1, <3>1 DEF KeptOK, FieldsIn, BaseIn
    <3>3. /\ mt[x] \in Obj => color'[mt[x]] \notin Whites
          /\ val[x] \in Obj => color'[val[x]] \notin Whites
      BY <1>7, <2>1, ColorFacts DEF Paints
    <3>. QED  BY <1>5, <2>1, <3>2, <3>3 DEF In
  <2>2. CASE ~(color[x] \in Whites /\ x \in Udatas)
    BY <1>7, <2>2, ColorFacts DEF Paints, Leaves
  <2>. QED  BY <2>1, <2>2
<1>. QED  BY <1>1, <1>2, <1>3, <1>4, <1>5, <1>6, <1>7

(* References that are left lead where they led.                           *)
LEMMA ShrunkIn ==
  ASSUME Shrunk, NEW o, NEW S, NEW T, S \subseteq T
  PROVE  /\ BaseIn(o, S) => BaseIn(o, T)'
         /\ o \in Threads /\ StackIn(o, S) => StackIn(o, T)'
<1>0. Nil \notin Obj
  BY Kinds
<1>1. o \in Tables /\ KeysIn(o, S) /\ ValuesIn(o, S) => (KeysIn(o, T) /\ ValuesIn(o, T))'
  BY DEF Shrunk, KeysIn, ValuesIn, In
<1>2. StackIn(o, S) => StackIn(o, T)'
  BY DEF Shrunk, StackIn, In
<1>3. /\ o \in Protos => cache'[o] \in {cache[o], Nil}
      /\ o \in Threads => stale'[o] \in {stale[o], Nil}
      /\ UNCHANGED <<mt, val, clp>>
  BY DEF Shrunk
<1>. QED  BY <1>0, <1>1, <1>2, <1>3 DEF BaseIn, In

(* Nothing is freed and no reference is added.                             *)
LEMMA ShrunkSafe ==
  ASSUME TypeOK, TypeOK', SafetyInv, Shrunk, NotDead' = NotDead,
         \A x \in Obj : color'[x] = "free" <=> color[x] = "free",
         strcache' \subseteq strcache, tobefnz' \subseteq NotDead, twups' \subseteq NotDead,
         finobj' \union tobefnz' \subseteq finobj \union tobefnz
  PROVE  /\ KeptOK' /\ FreeOK' /\ ClosuresOK' /\ MetasOK' /\ ThreadsOK'
<1>1. ASSUME NEW o \in NotDead PROVE FieldsIn(o, NotDead)'
  <2>1. FieldsIn(o, NotDead)
    BY DEF SafetyInv, KeptOK
  <2>2. BaseIn(o, NotDead)'
    BY <2>1, ShrunkIn DEF FieldsIn
  <2>3. o \in LClosures => upv[o] \in UpVals /\ upv'[o] = upv[o]
    BY KeptUpvalue DEF Shrunk
  <2>. QED  BY <2>1, <2>2, <2>3 DEF FieldsIn, Shrunk
<1>2. KeptOK'
  BY <1>1 DEF SafetyInv, KeptOK, Shrunk
<1>3. FreeOK'
  <2>. SUFFICES ASSUME NEW o \in Obj, color'[o] = "free"
                PROVE  /\ BaseIn(o, {})'
                       /\ o \in LClosures => upv'[o] = Nil
                       /\ \A u \in UpVals : uv'[u].th # o
    BY DEF FreeOK
  <2>1. BaseIn(o, {}) /\ (o \in LClosures => upv[o] = Nil) /\ \A u \in UpVals : uv[u].th # o
    BY DEF SafetyInv, FreeOK
  <2>2. BaseIn(o, {})'
    BY <2>1, ShrunkIn
  <2>. QED  BY <2>1, <2>2 DEF Shrunk
<1>4. ClosuresOK' /\ MetasOK'
  BY Kinds DEF SafetyInv, ClosuresOK, MetasOK, Shrunk
<1>5. ThreadsOK'
  BY ThreadsKept DEF SafetyInv, Shrunk
<1>. QED  BY <1>2, <1>3, <1>4, <1>5

(***************************************************************************)
(* propagatemark.                                                          *)
(***************************************************************************)
(* What is not white and not free is reached.                              *)
NonWhite(x, c) == x \in Obj => c[x] \notin Whites

(* A mark, perhaps after an object turned black.                           *)
LEMMA MarkPaints ==
  ASSUME TypeOK, UNCHANGED <<mt, val>>, NEW o \in Obj, color[o] = "gray", o \notin Threads,
         NEW c \in {color, [color EXCEPT ![o] = "black"]}, NEW W, color' = Marked(W, c)
  PROVE  /\ Paints({o}) /\ color'[o] = c[o]
         /\ \A x \in W : NonWhite(x, color')
         /\ MarkSet(W, c) \ Leaves = NewGray(color, color')
<1>1. c \in [Obj -> Colors] /\ \A x \in Obj : x # o => c[x] = color[x]
  BY ColorFacts DEF Colors
<1>2. c[o] \in {"gray", "black"} /\ c[o] \notin Whites
  BY ColorFacts
<1>3. /\ Marks(c, color') /\ \A x \in W : x \in Obj => color'[x] \notin Whites
      /\ MarkSet(W, c) \ Leaves = NewGray(c, color')
  BY <1>1, MarkedMarks DEF TypeOK
<1>4. color'[o] = c[o]
  BY <1>2, <1>3 DEF Marks
<1>5. Paints({o})
  BY <1>1, <1>2, <1>3, <1>4 DEF Marks, Paints
<1>6. NewGray(c, color') = NewGray(color, color')
  BY <1>1, <1>2, ColorFacts DEF NewGray
<1>. QED  BY <1>3, <1>4, <1>5, <1>6 DEF NonWhite

(* A mark of no white object but strings.                                  *)
LEMMA MarkStrings ==
  ASSUME NEW W, NEW c, \A x \in W : x \in Obj /\ c[x] \in Whites => x \in Strings
  PROVE  MarkSet(W, c) \subseteq Strings
<1>1. W \intersect White(c, Udatas) \subseteq {}
  BY Kinds, OneKind DEF White
<1>2. MarkedUdatas(W, c) = {}
  <2>1. {} \in SUBSET White(c, Udatas)
    OBVIOUS
  <2>. QED  BY <1>1, <2>1 DEF MarkedUdatas
<1>. QED  BY <1>2 DEF MarkSet, White, Objs

(* traverseephemeron.                                                      *)
LEMMA VisitFacts ==
  ASSUME RefsOK, NEW h \in Tables, NEW c \in [Obj -> Colors], NEW g, NEW eph,
         NEW early \in SUBSET entries[h], VisitEphemeron(h, c, g, eph, early)
  PROVE  /\ Marks(c, color') /\ gray' = g \union NewGray(c, color')
         /\ gcstate = "propagate" => /\ grayagain' = grayagain \union {h}
                                     /\ ephemeron' = eph /\ allweak' = allweak
         /\ gcstate # "propagate" =>
              /\ grayagain' = grayagain
              /\ eph \subseteq ephemeron' /\ ephemeron' \subseteq eph \union {h}
              /\ allweak \subseteq allweak' /\ allweak' \subseteq allweak \union {h}
              /\ \/ h \in ephemeron' \union allweak'
                 \/ \A e \in entries[h] : NonWhite(e[1], color') /\ NonWhite(e[2], color')
<1>. DEFINE late == entries[h] \ early
            W1   == VisitMarks(early, c)
            c1   == Marked(W1, c)
            W2   == VisitMarks(late, c1)
            W    == W1 \union W2
            hasww == \/ \E e \in WhiteKeyed(early, c) : ValueWhite(e, c)
                     \/ \E e \in WhiteKeyed(late, c1) : ValueWhite(e, c1)
            hasclears == WhiteKeyed(early, c) # {} \/ WhiteKeyed(late, c1) # {}
<1>1. /\ Mark(W, c, g)
      /\ grayagain' = IF gcstate = "propagate" THEN grayagain \union {h} ELSE grayagain
      /\ ephemeron' = IF gcstate # "propagate" /\ hasww THEN eph \union {h} ELSE eph
      /\ allweak' = IF gcstate # "propagate" /\ ~hasww /\ hasclears
                    THEN allweak \union {h} ELSE allweak
  BY DEF VisitEphemeron
<1>2. /\ Marks(c, color') /\ \A x \in W : x \in Obj => color'[x] \notin Whites
      /\ MarkSet(W, c) \ Leaves = NewGray(c, color')
  <2>. HIDE DEF W
  <2>. QED  BY <1>1, MarkedMarks DEF Mark
<1>3. gray' = g \union NewGray(c, color')
  BY <1>1, <1>2 DEF Mark
<1>4. ASSUME ~hasclears, NEW e \in entries[h]
      PROVE  NonWhite(e[1], color') /\ NonWhite(e[2], color')
  <2>1. \A x \in W : NonWhite(x, color')
    BY <1>2 DEF NonWhite
  <2>2. e[2] \in W
    <3>1. e \in early => KeyMarked(e, c)
      BY <1>4 DEF WhiteKeyed
    <3>2. e \in late => KeyMarked(e, c1)
      BY <1>4 DEF WhiteKeyed
    <3>. HIDE DEF c1
    <3>. QED  BY <3>1, <3>2 DEF VisitMarks
  <2>3. CASE e[1] \in Strings
    <3>1. e[1] \in W
      BY <2>3 DEF VisitMarks
    <3>. QED  BY <2>1, <2>2, <3>1
  <2>4. CASE e[1] \in Obj \ Strings
    <3>1. e \in early => c[e[1]] \notin Whites
      BY <1>4, <2>4 DEF WhiteKeyed, KeyMarked, Weakable
    <3>2. e \in late => c1[e[1]] \notin Whites
      BY <1>4, <2>4 DEF WhiteKeyed, KeyMarked, Weakable
    <3>3. c1[e[1]] \notin Whites => c[e[1]] \notin Whites \/ e[1] \in MarkSet(W1, c)
      BY <2>4 DEF Marked
    <3>4. e[1] \in MarkSet(W1, c) => e[1] \in MarkSet(W, c)
      <4>1. MarkedUdatas(W1, c) \subseteq MarkedUdatas(W, c)
        <5>. HIDE DEF W1, W2
        <5>. QED  BY DEF MarkedUdatas
      <4>. HIDE DEF W1, W2
      <4>. QED  BY <4>1 DEF MarkSet, White, Objs
    <3>5. e[1] \in MarkSet(W, c) => color'[e[1]] \notin Whites
      <4>. HIDE DEF W
      <4>. QED  BY <1>1, <2>4 DEF Mark, Marked, Whites
    <3>6. c[e[1]] \notin Whites => color'[e[1]] \notin Whites
      BY <1>2, <2>4 DEF Marks
    <3>7. color'[e[1]] \notin Whites
      <4>. HIDE DEF W, W1, c1
      <4>. QED  BY <3>1, <3>2, <3>3, <3>4, <3>5, <3>6
    <3>8. NonWhite(e[1], color')
      BY <3>7 DEF NonWhite
    <3>. HIDE DEF W
    <3>. QED  BY <2>1, <2>2, <3>8
  <2>5. CASE e[1] \notin Obj
    <3>. HIDE DEF W
    <3>. QED  BY <2>1, <2>2, <2>5 DEF NonWhite
  <2>. QED  BY <2>3, <2>4, <2>5, Kinds
<1>5. ASSUME gcstate # "propagate"
      PROVE  \/ h \in ephemeron' \union allweak'
             \/ \A e \in entries[h] : NonWhite(e[1], color') /\ NonWhite(e[2], color')
  <2>. HIDE DEF hasww, hasclears
  <2>. QED  BY <1>1, <1>4, <1>5
<1>. HIDE DEF hasww, hasclears, W
<1>. QED  BY <1>1, <1>2, <1>3, <1>5

(* A visit that marks no value leaves no marked key with a white value.    *)
LEMMA VisitSettles ==
  ASSUME RefsOK, NEW h \in Tables, NEW c \in [Obj -> Colors], NEW g, NEW eph,
         NEW early \in SUBSET entries[h], VisitEphemeron(h, c, g, eph, early),
         ~MarksValue(early, c),
         ~MarksValue(entries[h] \ early, Marked(VisitMarks(early, c), c))
  PROVE  /\ \A x \in Obj \ Strings : color'[x] = c[x]
         /\ \A x \in Obj : color'[x] \in Whites => c[x] \in Whites
         /\ gray' = g
         /\ \A e \in entries[h] : KeyMarked(e, color') => ~ValueWhite(e, color')
<1>. DEFINE late == entries[h] \ early
            W1   == VisitMarks(early, c)
            c1   == Marked(W1, c)
            W2   == VisitMarks(late, c1)
            W    == W1 \union W2
<1>1. Mark(W, c, g)
  BY DEF VisitEphemeron
<1>2. \A x \in W1 : x \in Obj /\ c[x] \in Whites => x \in Strings
  BY DEF VisitMarks, MarksValue, ValueWhite
<1>3. /\ \A x \in Obj \ Strings : c1[x] = c[x]
      /\ \A x \in Obj : c1[x] \in Whites => c[x] \in Whites
      /\ c1 \in [Obj -> Colors]
  <2>1. MarkSet(W1, c) \subseteq Strings
    BY <1>2, MarkStrings
  <2>2. Marks(c, c1) /\ c1 \in [Obj -> Colors]
    BY MarkedMarks
  <2>. QED  BY <2>1, <2>2 DEF Marked, Marks, Whites
<1>4. \A x \in W2 : x \in Obj /\ c1[x] \in Whites => x \in Strings
  <2>. HIDE DEF c1
  <2>. QED  BY DEF VisitMarks, MarksValue, ValueWhite, c1
<1>5. \A x \in W : x \in Obj /\ c[x] \in Whites => x \in Strings
  <2>. HIDE DEF W1, W2, c1
  <2>. QED  BY <1>2, <1>3, <1>4
<1>6. MarkSet(W, c) \subseteq Strings
  <2>. HIDE DEF W
  <2>. QED  BY <1>5, MarkStrings
<1>7. color' = Marked(W, c) /\ gray' = g
  <2>. HIDE DEF W
  <2>. QED  BY <1>1, <1>6 DEF Mark, Leaves
<1>8. /\ \A x \in Obj \ Strings : color'[x] = c[x]
      /\ \A x \in Obj : color'[x] \in Whites => c[x] \in Whites
  <2>1. Marks(c, color')
    <3>. HIDE DEF W
    <3>. QED  BY <1>7, MarkedMarks
  <2>. HIDE DEF W
  <2>. QED  BY <1>6, <1>7, <2>1 DEF Marked, Marks, Whites
<1>9. ASSUME NEW e \in entries[h], KeyMarked(e, color') PROVE ~ValueWhite(e, color')
  <2>1. KeyMarked(e, c) /\ KeyMarked(e, c1)
    <3>. HIDE DEF c1
    <3>. QED  BY <1>3, <1>8, <1>9 DEF KeyMarked, Weakable
  <2>2. CASE e \in early
    BY <1>8, <2>1, <2>2 DEF MarksValue, ValueWhite
  <2>3. CASE e \in late
    <3>1. ~ValueWhite(e, c1)
      BY <2>1, <2>3 DEF MarksValue
    <3>2. e[2] \in Obj => c1[e[2]] \notin Whites
      BY <3>1 DEF ValueWhite
    <3>3. e[2] \in Strings => e[2] \in Obj /\ (c1[e[2]] \notin Whites => color'[e[2]] \notin Whites)
      <4>1. MarkSet(W1, c) \subseteq MarkSet(W, c)
        <5>1. MarkedUdatas(W1, c) \subseteq MarkedUdatas(W, c)
          <6>. HIDE DEF W1, W2
          <6>. QED  BY DEF MarkedUdatas
        <5>. HIDE DEF W1, W2
        <5>. QED  BY <5>1 DEF MarkSet, White, Objs
      <4>. HIDE DEF W1, W
      <4>. QED  BY <1>7, <4>1, Kinds DEF Marked, c1, Whites
    <3>. HIDE DEF c1, W1
    <3>. QED  BY <1>3, <1>8, <3>2, <3>3 DEF ValueWhite
  <2>. QED  BY <2>2, <2>3
<1>. HIDE DEF W1, W, c1
<1>. QED  BY <1>7, <1>8, <1>9

(* What a step that only marks and drops references leaves to be shown.    *)
LEMMA PaintSafe ==
  ASSUME TypeOK, TypeOK', SafetyInv, Shrunk, \A x \in Obj : color[x] # otherwhite,
         NEW B, Paints(B), Marking',
         UNCHANGED <<currentwhite, allgc, finbit, sweepVars, strcache>>,
         finobj' \union tobefnz' = finobj \union tobefnz, finobj' \intersect tobefnz' = {},
         tobefnz' \subseteq NotDead, twups' \subseteq NotDead,
         ~issweepphase, ~Resting', ~issweepphase',
         \A o \in Obj : color[o] = "black" =>
           BaseIn(o, Reached) /\ (o \in LClosures => UpvalueOK(o)'),
         \A o \in B : color[o] = "gray" /\ color'[o] = "black" =>
           BaseIn(o, Reached)' /\ (o \in LClosures => UpvalueOK(o)'),
         PhasesOK', FramesOK', TwupsOK', GrayIdleOK', GrayAtomicOK', RootsOK', ConvergenceOK'
  PROVE  SafetyInv'
<1>1. /\ NotDead' = NotDead /\ Alloc' = Alloc /\ KindsOK'
      /\ \A x \in Obj : color'[x] # otherwhite'
      /\ \A x \in Obj : color'[x] = "free" <=> color[x] = "free"
      /\ Reached \subseteq Reached'
      /\ \A x \in Obj : color'[x] = "black" =>
           \/ color[x] = "black"
           \/ x \in B /\ color[x] = "gray"
           \/ x \in Strings
           \/ x \in Udatas /\ In(mt[x], Reached') /\ In(val[x], Reached')
  BY PaintsFacts DEF SafetyInv, Shrunk
<1>2. KeptOK' /\ FreeOK' /\ ClosuresOK' /\ MetasOK' /\ ThreadsOK'
  BY <1>1, ShrunkSafe
<1>3. WhitesOK'
  BY <1>1 DEF WhitesOK
<1>4. ListsPartition'
  <2>1. allgc \union finobj \union tobefnz = Alloc \ {MainThread}
        /\ allgc \intersect (finobj \union tobefnz) = {} /\ finbit = finobj \union tobefnz
    BY DEF SafetyInv, ListsPartition
  <2>. QED  BY <1>1, <2>1 DEF ListsPartition
<1>5. BlackOK'
  <2>. SUFFICES ASSUME NEW o \in Obj, color'[o] = "black"
                PROVE  BaseIn(o, Reached)' /\ (o \in LClosures => UpvalueOK(o)')
    BY DEF BlackOK
  <2>1. CASE color[o] = "black"
    BY <1>1, <2>1, ShrunkIn
  <2>2. CASE o \in B /\ color[o] = "gray"
    BY <2>2
  <2>3. CASE o \in Strings
    BY <2>3, OneKind DEF BaseIn
  <2>4. CASE o \in Udatas /\ In(mt[o], Reached') /\ In(val[o], Reached')
    BY <2>4, OneKind DEF BaseIn, Shrunk
  <2>. QED  BY <1>1, <2>1, <2>2, <2>3, <2>4
<1>6. SweepOK2'
  BY DEF SafetyInv, SweepOK2, issweepphase, SweepStates, sweepVars
<1>. QED  BY <1>1, <1>2, <1>3, <1>4, <1>5, <1>6 DEF SafetyInv

(***************************************************************************)
(* The traversal of an object.                                             *)
(***************************************************************************)
(* What is known of o when it has been traversed.                          *)
Traversed(o) ==
  /\ Paints({o}) /\ Shrunk
  /\ gray' = (gray \ {o}) \union NewGray(color, color')
  /\ grayagain \subseteq grayagain' /\ grayagain' \subseteq grayagain \union {o}
  /\ allweak \subseteq allweak' /\ allweak' \subseteq allweak \union {o}
  /\ weak \subseteq weak' /\ ephemeron \subseteq ephemeron'
  /\ gcstate = "propagate" =>
       /\ UNCHANGED <<weak, ephemeron>>
       /\ color'[o] # "black" => \/ o \in grayagain' /\ allweak' = allweak
                                 \/ grayagain' = grayagain /\ o \in allweak' /\ AllWeakOK(o)'
  /\ color'[o] = "black" => UNCHANGED <<grayagain, allweak>>
  /\ twups \subseteq twups' /\ twups' \subseteq twups \union ({o} \intersect Threads)
  /\ gcstate # "insideatomic" => UNCHANGED <<stale, twups>>
  /\ \A th \in Threads : stale[th] = Nil => stale'[th] = Nil
  /\ \A u \in UpVals : uv[u].touched => uv'[u].touched
  /\ color'[o] = "black" =>
       /\ BaseIn(o, Reached)'
       /\ o \in LClosures => IF IsOpen(upv[o]) /\ gcstate # "insideatomic"
                             THEN uv'[upv[o]].touched ELSE In(uv[upv[o]].v, Reached')
  /\ color'[o] # "black" /\ gcstate # "propagate" =>
       \/ /\ o \in Threads /\ o \in grayagain'
          /\ gcstate = "insideatomic" =>
               /\ StackIn(o, Reached)' /\ stale'[o] = Nil
               /\ (\E u \in UpVals : uv[u].th = o) => o \in twups'
       \/ /\ o \in Tables
          /\ In(mt[o], Reached')
          /\ \/ o \in allweak' \union ephemeron'
             \/ o \in weak' /\ KeysIn(o, Reached)'
             \/ KeysIn(o, Reached)' /\ ValuesIn(o, Reached)'

(* What is in the fields of a gray object, once it is not white, is        *)
(* reached.                                                                *)
LEMMA GrayFields ==
  ASSUME TypeOK, TypeOK', SafetyInv, UNCHANGED <<currentwhite, mt, val>>,
         \A x \in Obj : color[x] # otherwhite,
         NEW o \in Obj, color[o] = "gray", Paints({o})
  PROVE  /\ FieldsIn(o, NotDead)
         /\ \A x : In(x, NotDead) /\ NonWhite(x, color') => In(x, Reached')
<1>1. o \in NotDead
  BY ColorFacts
<1>2. FieldsIn(o, NotDead)
  BY <1>1 DEF SafetyInv, KeptOK
<1>3. \A x \in NotDead : color'[x] \notin Whites => x \in Reached'
  BY PaintsFacts DEF SafetyInv
<1>4. NotDead \subseteq Obj
  BY ColorFacts
<1>. QED  BY <1>2, <1>3, <1>4 DEF In, NonWhite

(* Tables.                                                                 *)
LEMMA TraverseStrongFacts ==
  ASSUME TypeOK, TypeOK', SafetyInv, \A x \in Obj : color[x] # otherwhite,
         NEW o \in Tables, color[o] = "gray", Shrunk, TraverseStrong(o),
         UNCHANGED <<currentwhite, entries, mt, val>>
  PROVE  Traversed(o)
<1>. DEFINE W == {mt[o]} \union Keys(o) \union Values(o)
            c == [color EXCEPT ![o] = "black"]
<1>0. o \in Obj /\ o \notin Threads /\ o \notin LClosures
  BY Kinds, OneKind
<1>1. color' = Marked(W, c) /\ gray' = (gray \ {o}) \union (MarkSet(W, c) \ Leaves)
      /\ UNCHANGED <<grayagain, weak, ephemeron, allweak, uv, cache, stale, twups>>
  BY DEF TraverseStrong, Mark
<1>2. /\ Paints({o}) /\ color'[o] = c[o]
      /\ \A x \in W : NonWhite(x, color')
      /\ MarkSet(W, c) \ Leaves = NewGray(color, color')
  <2>. HIDE DEF W
  <2>. QED  BY <1>0, <1>1, MarkPaints
<1>3. color'[o] = "black"
  BY <1>0, <1>2, ColorFacts
<1>4. /\ FieldsIn(o, NotDead)
      /\ \A x : In(x, NotDead) /\ NonWhite(x, color') => In(x, Reached')
  BY <1>0, <1>2, GrayFields
<1>5. In(mt[o], Reached') /\ \A e \in entries[o] : In(e[1], Reached') /\ In(e[2], Reached')
  BY <1>2, <1>4 DEF FieldsIn, BaseIn, KeysIn, ValuesIn, Keys, Values
<1>6. BaseIn(o, Reached)'
  BY <1>0, <1>5, OneKind DEF BaseIn, KeysIn, ValuesIn
<1>. HIDE DEF W
<1>. QED  BY <1>0, <1>1, <1>2, <1>3, <1>6 DEF Traversed

(* traverseweakvalue leaves the table gray: its keys are marked, or it is  *)
(* visited again in the atomic phase.                                      *)
LEMMA TraverseWeakFacts ==
  ASSUME TypeOK, TypeOK', SafetyInv, \A x \in Obj : color[x] # otherwhite,
         NEW o \in Tables, color[o] = "gray", Shrunk,
         TraverseWeakValue(o) \/ TraverseAllWeak(o), UNCHANGED <<currentwhite, entries, mt, val>>
  PROVE  Traversed(o)
<1>0. o \in Obj /\ o \notin Threads /\ o \notin LClosures
  BY Kinds, OneKind
<1>1. CASE TraverseWeakValue(o)
  <2>1. PICK hasclears \in BOOLEAN, S \in SUBSET (Values(o) \intersect Strings) :
          /\ Mark({mt[o]} \union Keys(o) \union S, color, gray \ {o})
          /\ hasclears \/ \A v \in Objs(Values(o)) : color'[v] \notin Whites
          /\ IF gcstate = "propagate"
             THEN grayagain' = grayagain \union {o} /\ UNCHANGED weak
             ELSE weak' = (IF hasclears THEN weak \union {o} ELSE weak) /\ UNCHANGED grayagain
    BY <1>1 DEF TraverseWeakValue
  <2>. DEFINE W == {mt[o]} \union Keys(o) \union S
  <2>2. UNCHANGED <<ephemeron, allweak, uv, cache, stale, twups>>
    BY <1>1 DEF TraverseWeakValue
  <2>3. /\ Paints({o}) /\ color'[o] = "gray"
        /\ \A x \in W : NonWhite(x, color')
        /\ gray' = (gray \ {o}) \union NewGray(color, color')
    <3>1. color' = Marked(W, color) /\ gray' = (gray \ {o}) \union (MarkSet(W, color) \ Leaves)
      BY <2>1 DEF Mark
    <3>. HIDE DEF W
    <3>. QED  BY <1>0, <3>1, MarkPaints
  <2>4. /\ FieldsIn(o, NotDead)
        /\ \A x : In(x, NotDead) /\ NonWhite(x, color') => In(x, Reached')
    BY <1>0, <2>3, GrayFields
  <2>5. In(mt[o], Reached') /\ KeysIn(o, Reached)'
    BY <2>3, <2>4 DEF FieldsIn, BaseIn, KeysIn, Keys
  <2>6. ~hasclears => ValuesIn(o, Reached)'
    BY <2>1, <2>4 DEF FieldsIn, BaseIn, ValuesIn, Values, Objs, NonWhite
  <2>7. hasclears /\ gcstate # "propagate" => o \in weak'
    BY <2>1
  <2>. HIDE DEF W
  <2>. QED  BY <1>0, <2>1, <2>2, <2>3, <2>5, <2>6, <2>7 DEF Traversed
<1>2. CASE TraverseAllWeak(o)
  <2>1. /\ WeakMode[mt[o]] = "kv" /\ mt[o] # Nil
        /\ color' = Marked({mt[o]}, color)
        /\ gray' = (gray \ {o}) \union (MarkSet({mt[o]}, color) \ Leaves)
        /\ allweak' = allweak \union {o}
        /\ UNCHANGED <<grayagain, weak, ephemeron, uv, cache, stale, twups>>
    BY <1>2 DEF TraverseAllWeak, Mark, Mode
  <2>2. mt[o] \in Tables /\ <<o, mt[o]>> \in Metas
    BY <2>1 DEF SafetyInv, MetasOK, TypeOK, RefsOK
  <2>3. /\ Paints({o}) /\ color'[o] = "gray" /\ NonWhite(mt[o], color')
        /\ gray' = (gray \ {o}) \union NewGray(color, color')
    BY <1>0, <2>1, MarkPaints
  <2>4. In(mt[o], Reached')
    BY <1>0, <2>3, GrayFields DEF FieldsIn, BaseIn
  <2>5. AllWeakOK(o)'
    BY <2>1, <2>2, <2>4, Kinds DEF AllWeakOK, In
  <2>. QED  BY <1>0, <2>1, <2>3, <2>4, <2>5 DEF Traversed
<1>. QED  BY <1>1, <1>2

(* traverseephemeron likewise.                                             *)
LEMMA TraverseEphemeronFacts ==
  ASSUME TypeOK, TypeOK', SafetyInv, \A x \in Obj : color[x] # otherwhite,
         NEW o \in Tables, color[o] = "gray", Shrunk, TraverseEphemeron(o),
         UNCHANGED <<currentwhite, entries, mt, val>>
  PROVE  Traversed(o)
<1>. DEFINE c == Marked({mt[o]}, color)
            g == (gray \ {o}) \union MarkSet({mt[o]}, color)
<1>0. o \in Obj /\ o \notin Threads /\ o \notin LClosures
  BY Kinds, OneKind
<1>1. PICK early \in SUBSET entries[o] : VisitEphemeron(o, c, g, ephemeron, early)
  BY DEF TraverseEphemeron
<1>2. UNCHANGED <<weak, uv, cache, stale, twups>>
  BY DEF TraverseEphemeron
<1>3. /\ Marks(color, c) /\ c \in [Obj -> Colors]
      /\ \A x \in {mt[o]} : x \in Obj => c[x] \notin Whites
      /\ MarkSet({mt[o]}, color) \ Leaves = NewGray(color, c)
  BY MarkedMarks, ColorFacts DEF TypeOK
<1>4. MarkSet({mt[o]}, color) \subseteq Tables
  <2>1. In(mt[o], Tables)
    BY Kinds DEF TypeOK, RefsOK, In
  <2>2. \A x \in {mt[o]} : In(x, Tables)
    BY <2>1
  <2>3. \A u \in Udatas \intersect Tables : In(mt[u], Tables) /\ In(val[u], Tables)
    BY OneKind
  <2>. QED  BY <2>2, <2>3, MarkClosed
<1>5. g = (gray \ {o}) \union NewGray(color, c)
  BY <1>3, <1>4, OneKind DEF Leaves
<1>. HIDE DEF c, g
<1>6. /\ Marks(c, color') /\ gray' = g \union NewGray(c, color')
      /\ gcstate = "propagate" => /\ grayagain' = grayagain \union {o}
                                  /\ ephemeron' = ephemeron /\ allweak' = allweak
      /\ gcstate # "propagate" =>
           /\ grayagain' = grayagain
           /\ ephemeron \subseteq ephemeron' /\ ephemeron' \subseteq ephemeron \union {o}
           /\ allweak \subseteq allweak' /\ allweak' \subseteq allweak \union {o}
           /\ \/ o \in ephemeron' \union allweak'
              \/ \A e \in entries[o] : NonWhite(e[1], color') /\ NonWhite(e[2], color')
  BY <1>1, <1>3, VisitFacts DEF TypeOK
<1>7. /\ Marks(color, color')
      /\ \A x \in Obj : c[x] \notin Whites => color'[x] = c[x]
      /\ NewGray(color, c) \union NewGray(c, color') = NewGray(color, color')
  BY <1>3, <1>6, MarksTwice
<1>8. Paints({o})
  BY <1>7 DEF Marks, Paints
<1>9. color'[o] = "gray" /\ NonWhite(mt[o], color')
  BY <1>0, <1>3, <1>7, ColorFacts DEF Marks, NonWhite
<1>10. /\ FieldsIn(o, NotDead)
       /\ \A x : In(x, NotDead) /\ NonWhite(x, color') => In(x, Reached')
  BY <1>0, <1>8, GrayFields
<1>11. In(mt[o], Reached')
  BY <1>9, <1>10 DEF FieldsIn, BaseIn
<1>12. (\A e \in entries[o] : NonWhite(e[1], color') /\ NonWhite(e[2], color'))
         => KeysIn(o, Reached)' /\ ValuesIn(o, Reached)'
  BY <1>10 DEF FieldsIn, BaseIn, KeysIn, ValuesIn
<1>13. gray' = (gray \ {o}) \union NewGray(color, color')
  BY <1>5, <1>6, <1>7
<1>14. gcstate # "propagate" =>
         \/ o \in allweak' \union ephemeron'
         \/ KeysIn(o, Reached)' /\ ValuesIn(o, Reached)'
  BY <1>6, <1>12
<1>. QED  BY <1>0, <1>2, <1>6, <1>8, <1>9, <1>11, <1>13, <1>14 DEF Traversed

(* Prototypes, closures and threads.                                       *)
LEMMA TraverseFunctionFacts ==
  ASSUME TypeOK, TypeOK', SafetyInv, \A x \in Obj : color[x] # otherwhite,
         NEW o \in Obj, color[o] = "gray", Shrunk,
         \/ o \in Protos /\ TraverseProto(o)
         \/ o \in CClosures /\ TraverseCClosure(o)
         \/ o \in LClosures /\ TraverseLClosure(o),
         UNCHANGED <<currentwhite, entries, mt, val, clp, upv>>
  PROVE  Traversed(o)
<1>0. o \notin Threads /\ o \notin Tables
  BY OneKind
<1>. DEFINE c == [color EXCEPT ![o] = "black"]
<1>1. CASE o \in Protos /\ TraverseProto(o)
  <2>1. /\ cache' = IF cache[o] # Nil /\ IsWhite(cache[o]) THEN [cache EXCEPT ![o] = Nil] ELSE cache
        /\ color' = c /\ gray' = gray \ {o}
        /\ UNCHANGED <<grayagain, weak, ephemeron, allweak, uv, stale, twups>>
    BY <1>1 DEF TraverseProto
  <2>2. color'[o] = "black" /\ \A x \in Obj : x # o => color'[x] = color[x]
    BY <2>1, ColorFacts
  <2>3. Paints({o}) /\ NewGray(color, color') = {}
    BY <1>0, <2>2, ColorFacts DEF Paints, NewGray
  <2>4. /\ FieldsIn(o, NotDead)
        /\ \A x : In(x, NotDead) /\ NonWhite(x, color') => In(x, Reached')
    BY <2>3, GrayFields
  <2>5. In(cache'[o], Reached')
    <3>1. CASE cache[o] # Nil /\ IsWhite(cache[o])
      <4>1. cache \in [Protos -> LClosures \union {Nil}]
        BY DEF TypeOK, FuncsOK
      <4>2. cache'[o] = Nil
        BY <1>1, <2>1, <3>1, <4>1
      <4>. QED  BY <4>2, Kinds DEF In
    <3>2. CASE cache[o] = Nil
      BY <2>1, <3>2, Kinds DEF In
    <3>3. CASE cache[o] # Nil /\ ~IsWhite(cache[o])
      <4>1. cache'[o] = cache[o]
        BY <2>1, <3>3
      <4>2. NonWhite(cache[o], color')
        BY <2>2, <3>3, ColorFacts DEF IsWhite, NonWhite
      <4>. QED  BY <1>1, <2>4, <4>1, <4>2 DEF FieldsIn, BaseIn
    <3>. QED  BY <3>1, <3>2, <3>3
  <2>6. BaseIn(o, Reached)'
    BY <1>1, <2>5, OneKind DEF BaseIn
  <2>. QED  BY <1>0, <1>1, <2>1, <2>2, <2>3, <2>6, OneKind DEF Traversed
<1>2. CASE o \in CClosures /\ TraverseCClosure(o)
  <2>1. /\ color' = Marked({val[o]}, c) /\ gray' = (gray \ {o}) \union (MarkSet({val[o]}, c) \ Leaves)
        /\ UNCHANGED <<grayagain, weak, ephemeron, allweak, uv, cache, stale, twups>>
    BY <1>2 DEF TraverseCClosure, Mark
  <2>2. /\ Paints({o}) /\ color'[o] = c[o] /\ NonWhite(val[o], color')
        /\ MarkSet({val[o]}, c) \ Leaves = NewGray(color, color')
    BY <1>0, <2>1, MarkPaints
  <2>3. color'[o] = "black"
    BY <2>2, ColorFacts
  <2>4. In(val[o], Reached')
    BY <1>2, <2>2, GrayFields DEF FieldsIn, BaseIn
  <2>5. BaseIn(o, Reached)'
    BY <1>2, <2>4, OneKind DEF BaseIn
  <2>. QED  BY <1>0, <1>2, <2>1, <2>2, <2>3, <2>5, OneKind DEF Traversed
<1>3. CASE o \in LClosures /\ TraverseLClosure(o)
  <2>. DEFINE open == IsOpen(upv[o]) /\ gcstate # "insideatomic"
              W    == IF open THEN {clp[o]} ELSE {clp[o], uv[upv[o]].v}
  <2>1. /\ color' = Marked(W, c) /\ gray' = (gray \ {o}) \union (MarkSet(W, c) \ Leaves)
        /\ uv' = IF open THEN [uv EXCEPT ![upv[o]].touched = TRUE] ELSE uv
        /\ UNCHANGED <<grayagain, weak, ephemeron, allweak, cache, stale, twups>>
    BY <1>3 DEF TraverseLClosure, Mark
  <2>2. /\ Paints({o}) /\ color'[o] = c[o] /\ \A x \in W : NonWhite(x, color')
        /\ MarkSet(W, c) \ Leaves = NewGray(color, color')
    <3>. HIDE DEF W
    <3>. QED  BY <1>0, <2>1, MarkPaints
  <2>3. color'[o] = "black"
    BY <2>2, ColorFacts
  <2>4. o \in NotDead
    BY ColorFacts
  <2>5. upv[o] \in UpVals /\ In(uv[upv[o]].v, NotDead) /\ In(clp[o], NotDead)
    BY <1>3, <2>4, KeptUpvalue DEF In
  <2>6. In(clp[o], Reached') /\ (~open => In(uv[upv[o]].v, Reached'))
    BY <2>2, <2>5, GrayFields
  <2>7. BaseIn(o, Reached)'
    BY <1>3, <2>6, OneKind DEF BaseIn
  <2>8. open => uv'[upv[o]].touched
    BY <2>1, <2>5 DEF TypeOK, FuncsOK, Cell
  <2>9. \A u \in UpVals : uv[u].touched => uv'[u].touched
    BY <2>1 DEF TypeOK, FuncsOK, Cell
  <2>. HIDE DEF W
  <2>. QED  BY <1>0, <1>3, <2>1, <2>2, <2>3, <2>6, <2>7, <2>8, <2>9 DEF Traversed
<1>. QED  BY <1>1, <1>2, <1>3

(* traversethread: a thread is never black.                                *)
LEMMA TraverseThreadFacts ==
  ASSUME TypeOK, TypeOK', SafetyInv, \A x \in Obj : color[x] # otherwhite,
         NEW o \in Threads, color[o] = "gray", Shrunk, TraverseThread(o),
         UNCHANGED <<currentwhite, entries, mt, val, stk>>
  PROVE  Traversed(o)
<1>0. o \in Obj /\ o \notin Tables /\ o \notin LClosures
  BY Kinds, OneKind
<1>1. /\ color' = Marked(StackRefs(o), color)
      /\ gray' = (gray \ {o}) \union (MarkSet(StackRefs(o), color) \ Leaves)
      /\ grayagain' = grayagain \union {o}
      /\ IF gcstate = "insideatomic"
         THEN stale' = [stale EXCEPT ![o] = Nil] /\ twups' = Relinked(o)
         ELSE UNCHANGED <<stale, twups>>
      /\ UNCHANGED <<weak, ephemeron, allweak, uv, cache>>
  BY DEF TraverseThread, Mark
<1>2. /\ Marks(color, color') /\ \A x \in StackRefs(o) : x \in Obj => color'[x] \notin Whites
      /\ MarkSet(StackRefs(o), color) \ Leaves = NewGray(color, color')
  BY <1>1, MarkedMarks, ColorFacts DEF TypeOK
<1>3. Paints({o}) /\ color'[o] = "gray"
  BY <1>0, <1>2, ColorFacts DEF Marks, Paints
<1>4. /\ FieldsIn(o, NotDead)
      /\ \A x : In(x, NotDead) /\ NonWhite(x, color') => In(x, Reached')
  BY <1>0, <1>3, GrayFields
<1>5. StackIn(o, Reached)'
  <2>1. stk[o] \subseteq NotDead /\ \A u \in UpVals : uv[u].th = o => In(uv[u].v, NotDead)
    BY <1>4 DEF FieldsIn, BaseIn, StackIn
  <2>2. \A x \in stk[o] : In(x, Reached')
    BY <1>2, <1>4, <2>1 DEF StackRefs, NonWhite, In
  <2>3. \A u \in UpVals : uv[u].th = o => In(uv[u].v, Reached')
    BY <1>2, <1>4, <2>1 DEF StackRefs, OpenUpvals, NonWhite
  <2>4. stk[o] \subseteq Obj
    BY DEF TypeOK, StackOK
  <2>. QED  BY <1>1, <2>2, <2>3, <2>4 DEF StackIn, In
<1>6. gcstate = "insideatomic" =>
        stale'[o] = Nil /\ ((\E u \in UpVals : uv[u].th = o) => o \in twups')
  BY <1>1 DEF Relinked, OpenUpvals, TypeOK, StackOK
<1>7. /\ twups \subseteq twups' /\ twups' \subseteq twups \union ({o} \intersect Threads)
      /\ \A th \in Threads : stale[th] = Nil => stale'[th] = Nil
  BY <1>1 DEF Relinked, TypeOK, StackOK
<1>. QED  BY <1>0, <1>1, <1>2, <1>3, <1>5, <1>6, <1>7 DEF Traversed

(* propagatemark.                                                          *)
LEMMA PropagateFacts ==
  ASSUME TypeOK, TypeOK', SafetyInv, \A x \in Obj : color[x] # otherwhite,
         NEW o, color[o] = "gray", Propagate(o)
  PROVE  o \in Obj /\ o \in gray /\ Traversed(o)
<1>1. /\ o \in gray
      /\ UNCHANGED <<listVars, currentwhite, gcfinnum, atom, sweepVars, refVars,
                     clp, upv, stk, running, resumer, strcache>>
  BY DEF Propagate
<1>2. o \in Obj
  BY <1>1 DEF TypeOK, GrayOK
<1>3. UNCHANGED <<mt, val, basemt, clp, upv, stk, running, resumer, entries, currentwhite>>
  BY <1>1 DEF refVars
<1>4. CASE o \in Tables /\ (\/ TraverseStrong(o) \/ TraverseWeakValue(o)
                            \/ TraverseEphemeron(o) \/ TraverseAllWeak(o))
  <2>1. UNCHANGED <<uv, cache, stale>>
    BY <1>4 DEF TraverseStrong, TraverseWeakValue, TraverseEphemeron, TraverseAllWeak
  <2>2. Shrunk
    BY <1>3, <2>1 DEF Shrunk
  <2>3. UNCHANGED <<currentwhite, entries, mt, val>>
    BY <1>3
  <2>4. TraverseStrong(o) => Traversed(o)
    BY <1>4, <2>2, <2>3, TraverseStrongFacts
  <2>5. TraverseWeakValue(o) \/ TraverseAllWeak(o) => Traversed(o)
    BY <1>4, <2>2, <2>3, TraverseWeakFacts
  <2>6. TraverseEphemeron(o) => Traversed(o)
    BY <1>4, <2>2, <2>3, TraverseEphemeronFacts
  <2>. QED  BY <1>1, <1>2, <1>4, <2>4, <2>5, <2>6
<1>5. CASE \/ o \in Protos /\ TraverseProto(o)
           \/ o \in CClosures /\ TraverseCClosure(o)
           \/ o \in LClosures /\ TraverseLClosure(o)
  <2>1. /\ UNCHANGED stale
        /\ \A p \in Protos : cache'[p] \in {cache[p], Nil}
    BY <1>5 DEF TraverseProto, TraverseCClosure, TraverseLClosure, TypeOK, FuncsOK
  <2>2. \A u \in UpVals : uv'[u].th = uv[u].th /\ uv'[u].v = uv[u].v
    BY <1>5 DEF TraverseProto, TraverseCClosure, TraverseLClosure, TypeOK, FuncsOK, Cell
  <2>3. Shrunk
    BY <1>3, <2>1, <2>2 DEF Shrunk
  <2>4. UNCHANGED <<currentwhite, entries, mt, val, clp, upv>>
    BY <1>3
  <2>5. Traversed(o)
    BY <1>2, <1>5, <2>3, <2>4, TraverseFunctionFacts
  <2>. QED  BY <1>1, <1>2, <2>5
<1>6. CASE o \in Threads /\ TraverseThread(o)
  <2>1. UNCHANGED <<uv, cache>> /\ \A th \in Threads : stale'[th] \in {stale[th], Nil}
    BY <1>6 DEF TraverseThread, TypeOK, StackOK
  <2>2. Shrunk
    BY <1>3, <2>1 DEF Shrunk
  <2>3. UNCHANGED <<currentwhite, entries, mt, val, stk>>
    BY <1>3
  <2>4. Traversed(o)
    BY <1>6, <2>2, <2>3, TraverseThreadFacts
  <2>. QED  BY <1>1, <1>2, <2>4
<1>. QED  BY <1>1, <1>2, <1>4, <1>5, <1>6 DEF Propagate

(***************************************************************************)
(* The steps of the mark phase.                                            *)
(***************************************************************************)
(* A black closure stays as it should be while objects are traversed.      *)
LEMMA UpvalueStays ==
  ASSUME Shrunk, Reached \subseteq Reached', NEW c \in LClosures, UpvalueOK(c), upv[c] \in UpVals,
         \A u \in UpVals : uv[u].touched => uv'[u].touched,
         keepinvariant' => keepinvariant,
         ~keepinvariant' => ~keepinvariant /\ twups \subseteq twups' /\ (atom.pc = "remark" => atom'.pc = "remark")
  PROVE  UpvalueOK(c)'
  BY DEF UpvalueOK, Shrunk, IsOpen, In

(* The atomic phase and what precedes it: the program does not run, or it  *)
(* has just begun a step.                                                  *)
LEMMA MarkFrames ==
  ASSUME TypeOK, SafetyInv, Shrunk, cstack' \in {cstack, Pushed(StepFrame)}
  PROVE  FramesOK'
<1>1. \A th \in Threads : Active(th) => Active(th)' /\ stk[th] \subseteq stk'[th]
  BY DEF Shrunk, Active
<1>2. FramesOK
  BY DEF SafetyInv
<1>3. StepFrame.kind # "fin" /\ cstack' \in {cstack, Append(cstack, StepFrame)}
  BY DEF StepFrame, Pushed
<1>. QED  BY <1>1, <1>2, <1>3, FramesGrow

(* singlestep in GCSpropagate.                                             *)
LEMMA PropagateStepSafe ==
  ASSUME TypeOK, TypeOK', SafetyInv, PropagateStep PROVE SafetyInv'
<1>1. PICK o \in gray : Propagate(o)
  BY DEF PropagateStep
<1>2. /\ gcstate = "propagate" /\ gcstate' \in {"atomic", "propagate"} /\ Idling
      /\ cstack' \in {cstack, Pushed(StepFrame)}
  BY DEF PropagateStep, SingleStep
<1>3. UNCHANGED <<listVars, currentwhite, gcfinnum, atom, sweepVars, refVars,
                  clp, upv, stk, running, resumer, strcache>>
  BY <1>1 DEF Propagate
<1>4. keepinvariant /\ keepinvariant' /\ Marking /\ Marking' /\ Idling' /\ ~Remarking /\ ~Remarking'
  BY <1>2, <1>3 DEF keepinvariant, Marking, Idling, Remarking
<1>5. \A x \in Obj : color[x] # otherwhite
  BY <1>4 DEF SafetyInv, WhitesOK
<1>6. /\ GrayOnes = gray \union grayagain \union allweak
      /\ gray \intersect grayagain = {} /\ gray \intersect allweak = {} /\ grayagain \intersect allweak = {}
      /\ weak = {} /\ ephemeron = {}
      /\ \A t \in allweak : AllWeakOK(t)
  BY <1>2, <1>4 DEF SafetyInv, GrayIdleOK
<1>7. o \in Obj /\ color[o] = "gray"
  BY <1>6 DEF GrayOnes
<1>8. Traversed(o)
  BY <1>1, <1>5, <1>7, PropagateFacts
<1>9. Paints({o}) /\ Shrunk
  BY <1>8 DEF Traversed
<1>10. /\ NotDead' = NotDead /\ Reached \subseteq Reached'
       /\ GrayOnes' = (GrayOnes \ {x \in {o} : color'[x] = "black"}) \union NewGray(color, color')
       /\ \A x \in NewGray(color, color') : x \notin GrayOnes
  BY <1>3, <1>5, <1>9, PaintsFacts DEF SafetyInv, refVars
<1>11. /\ gray' = (gray \ {o}) \union NewGray(color, color')
       /\ UNCHANGED <<weak, ephemeron, twups, stale>>
       /\ color'[o] = "black" => UNCHANGED <<grayagain, allweak>>
       /\ color'[o] # "black" => \/ grayagain' = grayagain \union {o} /\ allweak' = allweak
                                 \/ grayagain' = grayagain /\ allweak' = allweak \union {o} /\ AllWeakOK(o)'
       /\ \A u \in UpVals : uv[u].touched => uv'[u].touched
  BY <1>2, <1>8 DEF Traversed
<1>12. GrayIdleOK'
  <2>1. \A t \in allweak' : AllWeakOK(t)'
    BY <1>6, <1>10, <1>11 DEF AllWeakOK
  <2>2. /\ GrayOnes' = gray' \union grayagain' \union allweak'
        /\ gray' \intersect grayagain' = {} /\ gray' \intersect allweak' = {} /\ grayagain' \intersect allweak' = {}
    <3>1. CASE color'[o] = "black"
      BY <1>1, <1>6, <1>10, <1>11, <3>1
    <3>2. CASE color'[o] # "black"
      BY <1>1, <1>6, <1>10, <1>11, <3>2
    <3>. QED  BY <3>1, <3>2
  <2>. QED  BY <1>6, <1>11, <2>1, <2>2 DEF GrayIdleOK
<1>13. ~issweepphase /\ ~issweepphase' /\ ~Resting'
  BY <1>2 DEF issweepphase, SweepStates, Resting
<1>14. PhasesOK' /\ ~Atomically'
  BY <1>2, <1>3, <1>4 DEF SafetyInv, PhasesOK, Idling, Atomically
<1>15. GrayAtomicOK' /\ ConvergenceOK'
  BY <1>2, <1>3, <1>14 DEF GrayAtomicOK, ConvergenceOK, Idling
<1>16. FramesOK'
  BY <1>2, <1>9, MarkFrames
<1>17. TwupsOK'
  BY <1>2, <1>9, <1>10, <1>11 DEF SafetyInv, TwupsOK, Shrunk, IsOpen
<1>18. RootsOK'
  BY <1>3, <1>4, <1>10 DEF SafetyInv, RootsOK, listVars
<1>19. \A x \in Obj : color[x] = "black" =>
         BaseIn(x, Reached) /\ (x \in LClosures => UpvalueOK(x)')
  <2>. SUFFICES ASSUME NEW x \in Obj, color[x] = "black"
                PROVE  BaseIn(x, Reached) /\ (x \in LClosures => UpvalueOK(x)')
    OBVIOUS
  <2>1. BaseIn(x, Reached) /\ (x \in LClosures => UpvalueOK(x))
    BY <1>4 DEF SafetyInv, BlackOK
  <2>2. x \in LClosures => upv[x] \in UpVals
    BY KeptUpvalue, ColorFacts
  <2>. QED  BY <1>4, <1>9, <1>10, <1>11, <2>1, <2>2, UpvalueStays
<1>20. \A x \in {o} : color[x] = "gray" /\ color'[x] = "black" =>
         BaseIn(x, Reached)' /\ (x \in LClosures => UpvalueOK(x)')
  <2>. SUFFICES ASSUME color'[o] = "black"
                PROVE  BaseIn(o, Reached)' /\ (o \in LClosures => UpvalueOK(o)')
    OBVIOUS
  <2>1. BaseIn(o, Reached)'
    BY <1>8 DEF Traversed
  <2>2. ASSUME o \in LClosures PROVE UpvalueOK(o)'
    <3>1. upv[o] \in UpVals
      BY <1>7, <2>2, KeptUpvalue, ColorFacts
    <3>2. IF IsOpen(upv[o]) THEN uv'[upv[o]].touched ELSE In(uv[upv[o]].v, Reached')
      BY <1>2, <1>8, <2>2 DEF Traversed
    <3>. QED  BY <1>4, <1>9, <3>1, <3>2 DEF UpvalueOK, Shrunk, IsOpen
  <2>. QED  BY <2>1, <2>2
<1>21. /\ twups' \subseteq NotDead /\ tobefnz' \subseteq NotDead /\ finobj \intersect tobefnz = {}
       /\ UNCHANGED <<finobj, tobefnz, allgc, finbit>>
  BY <1>3, <1>11 DEF SafetyInv, KeptOK, ListsPartition, listVars
<1>. QED  BY <1>3, <1>4, <1>5, <1>9, <1>12, <1>13, <1>14, <1>15, <1>16, <1>17, <1>18, <1>19, <1>20, <1>21,
             PaintSafe

(* What is known of a visited object stays true.                           *)
LEMMA VisitedStays ==
  ASSUME Shrunk, Reached \subseteq Reached', NEW o, Visited(o), Remarking => Remarking',
         o \in allweak => o \in allweak',
         o \in ephemeron \union atom.eph => o \in ephemeron' \union atom'.eph \union allweak'
                                              \/ (KeysIn(o, Reached) /\ ValuesIn(o, Reached))',
         o \in weak => o \in weak',
         o \in twups => o \in twups' \/ OpenUpvals(o) = {}
  PROVE  Visited(o)'
<1>1. Nil \notin Obj
  BY Kinds
<1>2. /\ o \in Threads /\ StackIn(o, Reached) => StackIn(o, Reached)'
      /\ o \in Threads /\ stale[o] = Nil => stale'[o] = Nil
      /\ o \in Tables /\ KeysIn(o, Reached) => KeysIn(o, Reached)'
      /\ o \in Tables /\ ValuesIn(o, Reached) => ValuesIn(o, Reached)'
      /\ In(mt[o], Reached) => In(mt[o], Reached')
  BY DEF Shrunk, StackIn, KeysIn, ValuesIn, In
<1>3. /\ UNCHANGED mt /\ \A u \in UpVals : uv'[u].th = uv[u].th
      /\ OpenUpvals(o) = {} => \A u \in UpVals : uv'[u].th # o
  BY DEF Shrunk, OpenUpvals
<1>4. CASE o \in Threads /\ Remarking
    /\ StackIn(o, Reached) /\ stale[o] = Nil
    /\ ((\E u \in UpVals : uv[u].th = o) => o \in twups)
  BY <1>2, <1>3, <1>4 DEF Visited
<1>5. CASE o \in Tables /\ In(mt[o], Reached)
    /\ (\/ o \in allweak
        \/ o \in ephemeron \union atom.eph
        \/ (o \in weak /\ KeysIn(o, Reached))
        \/ (KeysIn(o, Reached) /\ ValuesIn(o, Reached)))
  BY <1>2, <1>3, <1>5 DEF Visited
<1>. QED  BY <1>4, <1>5 DEF Visited

(* propagateall.                                                           *)
LEMMA PropagateAllSafe ==
  ASSUME TypeOK, TypeOK', SafetyInv, PropagateAll PROVE SafetyInv'
<1>1. PICK o \in gray : Propagate(o)
  BY DEF PropagateAll
<1>2. /\ atom.pc \in {"pre", "prop1", "again", "eph1", "prop2", "eph2"}
      /\ UNCHANGED <<gcstate, cstack>>
  BY DEF PropagateAll
<1>3. UNCHANGED <<listVars, currentwhite, gcfinnum, atom, sweepVars, refVars,
                  clp, upv, stk, running, resumer, strcache>>
  BY <1>1 DEF Propagate
<1>4. /\ IF atom.pc = "pre" THEN gcstate = "atomic" ELSE gcstate = "insideatomic"
      /\ ~Idling /\ ~Idling'
  BY <1>2, <1>3 DEF SafetyInv, PhasesOK, Idling
<1>5. /\ Atomically /\ Atomically' /\ Marking /\ Marking' /\ (Remarking <=> Remarking')
      /\ (keepinvariant <=> keepinvariant') /\ (Remarking <=> atom.pc # "pre")
      /\ (keepinvariant <=> atom.pc = "pre")
  BY <1>2, <1>3, <1>4 DEF Atomically, Marking, Remarking, keepinvariant
<1>6. \A x \in Obj : color[x] # otherwhite
  BY <1>5 DEF SafetyInv, WhitesOK
<1>7. /\ Work \subseteq GrayOnes /\ gray \intersect Again = {}
      /\ \A x \in GrayOnes \ Work : Visited(x)
  BY <1>5 DEF SafetyInv, GrayAtomicOK
<1>8. o \in Obj /\ color[o] = "gray"
  BY <1>7 DEF GrayOnes, Work
<1>9. Traversed(o)
  BY <1>1, <1>6, <1>8, PropagateFacts
<1>10. Paints({o}) /\ Shrunk
  BY <1>9 DEF Traversed
<1>11. /\ NotDead' = NotDead /\ Reached \subseteq Reached'
       /\ GrayOnes' = (GrayOnes \ {x \in {o} : color'[x] = "black"}) \union NewGray(color, color')
       /\ \A x \in NewGray(color, color') : x \notin GrayOnes
  BY <1>3, <1>6, <1>10, PaintsFacts DEF SafetyInv, refVars
<1>12. /\ gray' = (gray \ {o}) \union NewGray(color, color')
       /\ grayagain \subseteq grayagain' /\ grayagain' \subseteq grayagain \union {o}
       /\ allweak \subseteq allweak' /\ weak \subseteq weak' /\ ephemeron \subseteq ephemeron'
       /\ twups \subseteq twups' /\ twups' \subseteq twups \union ({o} \intersect Threads)
       /\ gcstate # "insideatomic" => UNCHANGED <<stale, twups>>
       /\ \A u \in UpVals : uv[u].touched => uv'[u].touched
  BY <1>9 DEF Traversed
<1>13. o \in Reached /\ o \in NotDead
  BY <1>8, ColorFacts DEF Reached
<1>14. GrayAtomicOK'
  <2>1. Again' = Again \/ (atom.pc = "pre" /\ Again' = grayagain' /\ Again = grayagain)
    BY <1>3 DEF Again
  <2>2. color'[o] # "black" => o \in Work' \/ Visited(o)'
    <3>. SUFFICES ASSUME color'[o] # "black" PROVE o \in Work' \/ Visited(o)'
      OBVIOUS
    <3>1. gcstate # "propagate"
      BY <1>2, <1>4
    <3>2. CASE /\ o \in Threads /\ o \in grayagain'
               /\ gcstate = "insideatomic" =>
                    /\ StackIn(o, Reached)' /\ stale'[o] = Nil
                    /\ (\E u \in UpVals : uv[u].th = o) => o \in twups'
      <4>1. CASE atom.pc = "pre"
        BY <1>3, <3>2, <4>1 DEF Work, Again
      <4>2. CASE atom.pc # "pre"
        BY <1>2, <1>4, <1>5, <1>10, <3>2, <4>2 DEF Visited, Shrunk
      <4>. QED  BY <4>1, <4>2
    <3>3. CASE /\ o \in Tables
               /\ In(mt[o], Reached')
               /\ \/ o \in allweak' \union ephemeron'
                  \/ o \in weak' /\ KeysIn(o, Reached)'
                  \/ KeysIn(o, Reached)' /\ ValuesIn(o, Reached)'
      BY <1>10, <3>3 DEF Visited, Shrunk
    <3>. QED  BY <1>9, <3>1, <3>2, <3>3 DEF Traversed
  <2>3. \A x \in GrayOnes \ Work : Visited(x)'
    <3>. SUFFICES ASSUME NEW x \in GrayOnes \ Work PROVE Visited(x)'
      OBVIOUS
    <3>. QED  BY <1>3, <1>5, <1>7, <1>10, <1>11, <1>12, VisitedStays
  <2>4. Work' \subseteq GrayOnes' /\ gray' \intersect Again' = {}
    <3>1. CASE color'[o] # "black"
      BY <1>1, <1>7, <1>8, <1>11, <1>12, <2>1, <3>1 DEF Work, GrayOnes
    <3>2. CASE color'[o] = "black"
      <4>1. o \notin Again /\ o \in gray
        BY <1>1, <1>7
      <4>2. o \notin Again'
        BY <1>3, <1>9, <3>2, <4>1 DEF Traversed, Again
      <4>. QED  BY <1>1, <1>7, <1>8, <1>11, <1>12, <2>1, <3>2, <4>1, <4>2 DEF Work, GrayOnes
    <3>. QED  BY <3>1, <3>2
  <2>5. \A x \in GrayOnes' \ Work' : x \in GrayOnes \ Work \/ (x = o /\ color'[o] # "black")
    BY <1>7, <1>8, <1>11, <1>12, <2>1 DEF Work, GrayOnes
  <2>. QED  BY <2>2, <2>3, <2>4, <2>5 DEF GrayAtomicOK
<1>15. ~issweepphase /\ ~issweepphase' /\ ~Resting'
  BY <1>2, <1>4 DEF issweepphase, SweepStates, Resting
<1>16. PhasesOK' /\ GrayIdleOK'
  BY <1>2, <1>3, <1>4 DEF SafetyInv, PhasesOK, GrayIdleOK, TopIs, Top
<1>17. ConvergenceOK'
  <2>1. \A t \in atom.origweak \union atom.origall : ValuesIn(t, Reached) => ValuesIn(t, Reached)'
    BY <1>3, <1>11 DEF ValuesIn, In, refVars
  <2>. QED  BY <1>1, <1>3, <2>1 DEF SafetyInv, ConvergenceOK
<1>18. FramesOK'
  BY <1>2, <1>10, MarkFrames
<1>19. TwupsOK'
  BY <1>2, <1>3, <1>4, <1>5, <1>10, <1>11, <1>12 DEF SafetyInv, TwupsOK, Shrunk, IsOpen, Remarking
<1>20. RootsOK'
  <2>1. UNCHANGED <<tobefnz, running, basemt, atom>>
    BY <1>3 DEF listVars, refVars
  <2>2. /\ MainThread \in Reached /\ tobefnz \subseteq Reached
        /\ Remarking => {running, Registry} \subseteq Reached /\ In(basemt, Reached)
        /\ Remarking /\ atom.pc # "remark" => twups \subseteq Reached
    BY <1>5 DEF SafetyInv, RootsOK
  <2>3. Remarking' => twups' \subseteq Reached'
    BY <1>2, <1>5, <1>11, <1>12, <1>13, <2>2
  <2>4. In(basemt, Reached) => In(basemt', Reached')
    BY <1>11, <2>1 DEF In
  <2>5. /\ MainThread \in Reached' /\ tobefnz' \subseteq Reached'
        /\ Remarking' => {running', Registry} \subseteq Reached' /\ In(basemt', Reached')
    BY <1>5, <1>11, <2>1, <2>2, <2>4
  <2>. QED  BY <2>3, <2>5 DEF RootsOK
<1>21. \A x \in Obj : color[x] = "black" =>
         BaseIn(x, Reached) /\ (x \in LClosures => UpvalueOK(x)')
  <2>. SUFFICES ASSUME NEW x \in Obj, color[x] = "black"
                PROVE  BaseIn(x, Reached) /\ (x \in LClosures => UpvalueOK(x)')
    OBVIOUS
  <2>1. BaseIn(x, Reached) /\ (x \in LClosures => UpvalueOK(x))
    BY <1>5 DEF SafetyInv, BlackOK
  <2>2. x \in LClosures => upv[x] \in UpVals
    BY KeptUpvalue, ColorFacts
  <2>. QED  BY <1>3, <1>5, <1>10, <1>11, <1>12, <2>1, <2>2, UpvalueStays
<1>22. \A x \in {o} : color[x] = "gray" /\ color'[x] = "black" =>
         BaseIn(x, Reached)' /\ (x \in LClosures => UpvalueOK(x)')
  <2>. SUFFICES ASSUME color'[o] = "black"
                PROVE  BaseIn(o, Reached)' /\ (o \in LClosures => UpvalueOK(o)')
    OBVIOUS
  <2>1. BaseIn(o, Reached)'
    BY <1>9 DEF Traversed
  <2>2. ASSUME o \in LClosures PROVE UpvalueOK(o)'
    <3>1. upv[o] \in UpVals
      BY <1>8, <2>2, KeptUpvalue, ColorFacts
    <3>2. IF IsOpen(upv[o]) /\ gcstate # "insideatomic"
          THEN uv'[upv[o]].touched ELSE In(uv[upv[o]].v, Reached')
      BY <1>9, <2>2 DEF Traversed
    <3>. QED  BY <1>2, <1>4, <1>5, <1>10, <3>1, <3>2 DEF UpvalueOK, Shrunk, IsOpen
  <2>. QED  BY <2>1, <2>2
<1>23. /\ twups' \subseteq NotDead /\ tobefnz' \subseteq NotDead /\ finobj \intersect tobefnz = {}
       /\ UNCHANGED <<finobj, tobefnz, allgc, finbit>>
  BY <1>3, <1>12, <1>13 DEF SafetyInv, KeptOK, ListsPartition, listVars
<1>. QED  BY <1>3, <1>5, <1>6, <1>10, <1>14, <1>15, <1>16, <1>17, <1>18, <1>19, <1>20, <1>21, <1>22, <1>23,
             PaintSafe

(* The C stack loses its innermost call, or another takes its place.       *)
LEMMA FramesFewer ==
  ASSUME TypeOK, FramesOK, cstack # <<>>, NEW f, f.kind # "fin", cstack' \in {Dropped, Replaced(f)},
         \A th \in Threads : Active(th) => Active(th)' /\ stk[th] \subseteq stk'[th]
  PROVE  FramesOK'
<1>1. cstack \in Seq(Frame) /\ Len(cstack) \in Nat \ {0}
  BY DEF TypeOK, StackOK
<1>2. /\ Len(cstack') \in Nat /\ Len(cstack') <= Len(cstack)
      /\ \A i \in 1..Len(cstack') : cstack'[i].kind = "fin" => cstack'[i] = cstack[i]
  <2>1. CASE cstack' = Dropped
    BY <1>1, <2>1 DEF Dropped
  <2>2. CASE cstack' = Replaced(f)
    BY <1>1, <2>2 DEF Replaced
  <2>. QED  BY <2>1, <2>2
<1>3. \A i \in 1..Len(cstack) : cstack[i].kind = "fin" => cstack[i].th \in Threads
  BY FinFrame
<1>4. \A i \in 1..Len(cstack') : i \in 1..Len(cstack)
  BY <1>1, <1>2
<1>5. ASSUME NEW i \in 1..Len(cstack'), cstack'[i].kind = "fin"
      PROVE  Active(cstack[i].th)' /\ cstack'[i].base \subseteq stk'[cstack'[i].th]
  <2>1. i \in 1..Len(cstack) /\ cstack'[i] = cstack[i] /\ cstack[i].kind = "fin" /\ cstack[i].th \in Threads
    BY <1>2, <1>3, <1>4, <1>5
  <2>2. PICK th \in Threads : th = cstack[i].th /\ th = cstack'[i].th
    BY <2>1
  <2>3. Active(th) /\ cstack[i].base \subseteq stk[th]
    BY <2>1, <2>2 DEF FramesOK
  <2>4. Active(th)' /\ stk[th] \subseteq stk'[th]
    BY <2>3
  <2>5. Active(cstack[i].th)'
    BY <2>2, <2>4 DEF Active
  <2>. QED  BY <2>1, <2>2, <2>3, <2>4, <2>5
<1>6. ASSUME NEW i \in 1..Len(cstack'), NEW j \in 1..Len(cstack'), i < j, cstack'[i].kind = "fin",
             cstack'[j].kind = "fin", cstack'[i].th = cstack'[j].th
      PROVE  cstack'[i].base \subseteq cstack'[j].base
  <2>1. /\ i \in 1..Len(cstack) /\ cstack'[i] = cstack[i] /\ j \in 1..Len(cstack) /\ cstack'[j] = cstack[j]
    BY <1>2, <1>4, <1>6
  <2>. QED  BY <1>6, <2>1 DEF FramesOK
<1>. QED  BY <1>5, <1>6 DEF FramesOK

(* What is not free lives, in the mark phase; what is free holds nothing.  *)
LEMMA MarkingKept ==
  ASSUME TypeOK, SafetyInv, \A x \in Obj : color[x] # otherwhite
  PROVE  /\ \A o \in Obj : color[o] # "free" => o \in NotDead
         /\ \A o \in Obj : FieldsIn(o, NotDead) \/ (color[o] = "free" /\ BaseIn(o, {}))
<1>1. \A o \in Obj : color[o] # "free" => o \in NotDead
  BY ColorFacts
<1>2. \A o \in NotDead : FieldsIn(o, NotDead)
  BY DEF SafetyInv, KeptOK
<1>3. \A o \in Obj : color[o] = "free" => BaseIn(o, {})
  BY DEF SafetyInv, FreeOK
<1>. QED  BY <1>1, <1>2, <1>3

(* singlestep in GCSpause: restartcollection.                              *)
LEMMA RestartSafe ==
  ASSUME TypeOK, TypeOK', SafetyInv, Restart PROVE SafetyInv'
<1>. DEFINE W == {MainThread, Registry, basemt} \union tobefnz
<1>1. /\ Idling /\ gcstate = "pause" /\ gcstate' = "propagate"
      /\ color' = Marked(W, color) /\ gray' = {} \union (MarkSet(W, color) \ Leaves)
      /\ grayagain' = {} /\ weak' = {} /\ ephemeron' = {} /\ allweak' = {}
      /\ UNCHANGED <<listVars, currentwhite, gcfinnum, atom, sweepVars, refVars, funcVars, stackVars>>
  BY DEF Restart, Mark
<1>2. Resting /\ ~issweepphase /\ ~issweepphase' /\ ~Resting' /\ Marking' /\ keepinvariant' /\ ~Remarking'
      /\ Idling' /\ ~Atomically'
  BY <1>1 DEF Resting, issweepphase, SweepStates, Marking, keepinvariant, Remarking, Idling, Atomically
<1>3. \A x \in Obj : color[x] \in {"free", currentwhite}
  BY <1>2 DEF SafetyInv, WhitesOK
<1>4. /\ \A x \in Obj : color[x] # otherwhite /\ color[x] # "gray" /\ color[x] # "black"
      /\ GrayOnes = {}
  BY <1>3, ColorFacts DEF GrayOnes
<1>5. Shrunk
  BY <1>1 DEF Shrunk, refVars, funcVars, stackVars
<1>6. Marks(color, color') /\ (\A x \in W : x \in Obj => color'[x] \notin Whites)
      /\ gray' = NewGray(color, color')
  <2>. HIDE DEF W
  <2>. QED  BY <1>1, MarkedMarks, ColorFacts DEF TypeOK
<1>7. Paints({})
  BY <1>6 DEF Marks, Paints
<1>8. /\ NotDead' = NotDead /\ Reached \subseteq Reached'
      /\ GrayOnes' = NewGray(color, color')
      /\ \A x \in NotDead : color'[x] \notin Whites => x \in Reached'
  BY <1>1, <1>4, <1>7, PaintsFacts DEF SafetyInv, refVars
<1>9. GrayIdleOK'
  BY <1>1, <1>6, <1>8 DEF GrayIdleOK
<1>10. RootsOK'
  <2>1. MainThread \in NotDead /\ tobefnz \subseteq NotDead /\ NotDead \subseteq Obj
    BY ColorFacts DEF SafetyInv, KeptOK
  <2>. QED  BY <1>1, <1>2, <1>6, <1>8, <2>1 DEF RootsOK, listVars
<1>11. PhasesOK' /\ GrayAtomicOK' /\ ConvergenceOK'
  BY <1>1, <1>2 DEF SafetyInv, PhasesOK, Idling, GrayAtomicOK, ConvergenceOK
<1>12. FramesOK'
  <2>1. \A th \in Threads : Active(th) => Active(th)' /\ stk[th] \subseteq stk'[th]
    BY <1>5 DEF Shrunk, Active
  <2>2. CASE cstack' = Pushed(StepFrame)
    BY <2>1, <2>2, FramesGrow DEF SafetyInv, StepFrame, Pushed
  <2>3. CASE TopIs("full") /\ cstack' = Replaced([Top EXCEPT !.begun = TRUE])
    <3>1. cstack # <<>> /\ Top.kind = "full"
      BY <2>3 DEF TopIs
    <3>2. Top \in Frame
      BY <3>1 DEF TypeOK, StackOK, Top
    <3>3. [Top EXCEPT !.begun = TRUE].kind # "fin"
      BY <3>1, <3>2 DEF Frame
    <3>. QED  BY <2>1, <2>3, <3>1, <3>3, FramesFewer DEF SafetyInv
  <2>. QED  BY <2>2, <2>3 DEF Restart
<1>13. TwupsOK'
  BY <1>1, <1>2, <1>8 DEF SafetyInv, TwupsOK, IsOpen, funcVars, stackVars, Remarking
<1>14. /\ twups' \subseteq NotDead /\ tobefnz' \subseteq NotDead /\ finobj \intersect tobefnz = {}
       /\ UNCHANGED <<finobj, tobefnz, allgc, finbit, strcache>>
  BY <1>1 DEF SafetyInv, KeptOK, ListsPartition, listVars, stackVars
<1>. HIDE DEF W
<1>. QED  BY <1>1, <1>2, <1>4, <1>5, <1>7, <1>9, <1>10, <1>11, <1>12, <1>13, <1>14, PaintSafe

(* The steps of atomic() that mark nothing.                                *)
LEMMA QuietSafe ==
  ASSUME TypeOK, TypeOK', SafetyInv, Marking, Marking', ~Resting', ~issweepphase, ~Idling',
         UNCHANGED <<color, listVars, currentwhite, gcstate, gcfinnum, sweepVars, refVars,
                     funcVars, stackVars>>,
         \A c \in LClosures : UpvalueOK(c) => UpvalueOK(c)',
         cstack' \in {cstack, Pushed(StepFrame)},
         atom.pc # "enter", atom'.pc # "enter",
         PhasesOK', GrayAtomicOK', RootsOK', ConvergenceOK'
  PROVE  SafetyInv'
<1>1. \A x \in Obj : color[x] # otherwhite
  BY DEF SafetyInv, WhitesOK
<1>2. Shrunk /\ Paints({}) /\ NotDead' = NotDead
  BY DEF Shrunk, Paints, refVars, funcVars, stackVars, NotDead, Alloc, IsDead, otherwhite
<1>3. TwupsOK' /\ GrayIdleOK'
  BY <1>2 DEF SafetyInv, TwupsOK, GrayIdleOK, IsOpen, funcVars, stackVars
<1>4. FramesOK'
  BY <1>2, MarkFrames
<1>5. \A o \in Obj : color[o] = "black" =>
        BaseIn(o, Reached) /\ (o \in LClosures => UpvalueOK(o)')
  BY DEF SafetyInv, BlackOK
<1>6. /\ twups' \subseteq NotDead /\ tobefnz' \subseteq NotDead /\ finobj \intersect tobefnz = {}
      /\ UNCHANGED <<finobj, tobefnz, allgc, finbit, strcache>> /\ ~issweepphase'
  BY DEF SafetyInv, KeptOK, ListsPartition, listVars, stackVars, issweepphase
<1>. QED  BY <1>1, <1>2, <1>3, <1>4, <1>5, <1>6, PaintSafe

(* A new call is the innermost one.                                        *)
LEMMA PushedTop ==
  ASSUME TypeOK, NEW f, cstack' = Pushed(f)
  PROVE  TopIs(f.kind)' /\ Top' = f
<1>1. cstack \in Seq(Frame)
  BY DEF TypeOK, StackOK
<1>2. /\ Len(cstack') = Len(cstack) + 1 /\ cstack'[Len(cstack) + 1] = f /\ Len(cstack) \in Nat
      /\ cstack' # <<>>
  BY <1>1 DEF Pushed
<1>. QED  BY <1>2 DEF TopIs, Top

(* atomic() begins; the all-weak tables have still the metatable they had. *)
LEMMA AtomicEnterSafe ==
  ASSUME TypeOK, TypeOK', SafetyInv, OneAllWeakMeta, AtomicEnter PROVE SafetyInv'
<1>1. /\ gcstate = "atomic" /\ Idling /\ cstack' \in {cstack, Pushed(StepFrame)}
      /\ atom' = [atom EXCEPT !.pc = "pre"]
      /\ UNCHANGED <<color, listVars, currentwhite, gcstate, gcfinnum, sweepVars, grayVars,
                     refVars, funcVars, stackVars>>
  BY DEF AtomicEnter, SingleStep, At
<1>2. /\ atom.pc = "idle" /\ atom'.pc = "pre" /\ atom'.again = atom.again /\ atom'.eph = atom.eph
  BY <1>1 DEF Idling, TypeOK, PhaseOK
<1>3. /\ keepinvariant /\ keepinvariant' /\ Marking /\ Marking' /\ ~Resting' /\ ~issweepphase
      /\ ~Remarking /\ ~Remarking' /\ ~Idling'
  BY <1>1, <1>2 DEF keepinvariant, Marking, Resting, issweepphase, SweepStates, Remarking, Idling
<1>4. /\ GrayOnes = gray \union grayagain \union allweak
      /\ gray \intersect grayagain = {}
      /\ \A t \in allweak : AllWeakOK(t)
  BY <1>1, <1>3 DEF SafetyInv, GrayIdleOK
<1>5. \A t \in allweak : t \in Tables /\ In(mt[t], Reached)
  <2>. SUFFICES ASSUME NEW t \in allweak PROVE t \in Tables /\ In(mt[t], Reached)
    OBVIOUS
  <2>1. t \in Tables /\ mt[t] \in Tables \union {Nil}
    BY DEF TypeOK, GrayOK, RefsOK
  <2>2. PICK m \in Tables : <<t, m>> \in Metas /\ WeakMode[m] = "kv" /\ m \in Reached
    BY <1>4 DEF AllWeakOK
  <2>3. m # Nil
    BY <2>2, Kinds
  <2>4. mt[t] # Nil => <<t, mt[t]>> \in Metas
    BY <2>1 DEF SafetyInv, MetasOK
  <2>5. mt[t] # Nil => mt[t] \in {m, Nil}
    BY <2>2, <2>3, <2>4 DEF OneAllWeakMeta
  <2>. QED  BY <2>1, <2>2, <2>5, Kinds DEF In
<1>6. GrayAtomicOK'
  <2>1. GrayOnes' = GrayOnes /\ Work' = gray \union grayagain /\ Again' = grayagain /\ gray' = gray
    BY <1>1, <1>2 DEF GrayOnes, Work, Again, grayVars
  <2>2. \A t \in allweak : Visited(t)'
    BY <1>1, <1>5 DEF Visited, refVars, grayVars, Reached
  <2>. QED  BY <1>4, <2>1, <2>2 DEF GrayAtomicOK
<1>7. \A c \in LClosures : UpvalueOK(c) => UpvalueOK(c)'
  <2>1. upv' = upv /\ uv' = uv /\ Reached' = Reached
    BY <1>1 DEF funcVars, Reached
  <2>. QED  BY <1>3, <2>1 DEF UpvalueOK, IsOpen
<1>8. PhasesOK'
  <2>1. TopIs("step")' \/ TopIs("full")'
    <3>1. CASE cstack' = Pushed(StepFrame)
      BY <3>1, PushedTop DEF StepFrame
    <3>2. CASE (TopIs("step") \/ TopIs("full")) /\ cstack' = cstack
      BY <3>2 DEF TopIs, Top
    <3>. QED  BY <3>1, <3>2 DEF AtomicEnter, SingleStep
  <2>2. atom.again = {} /\ atom.eph = {}
    BY <1>2 DEF SafetyInv, PhasesOK
  <2>. QED  BY <1>1, <1>2, <2>1, <2>2 DEF PhasesOK
<1>9. RootsOK' /\ ConvergenceOK'
  BY <1>1, <1>2, <1>3 DEF SafetyInv, RootsOK, ConvergenceOK, listVars, Reached
<1>. QED  BY <1>1, <1>2, <1>3, <1>6, <1>7, <1>8, <1>9, QuietSafe

(* The roots are marked again.                                             *)
LEMMA AtomicStartSafe ==
  ASSUME TypeOK, TypeOK', SafetyInv, AtomicStart PROVE SafetyInv'
<1>. DEFINE W == {running, Registry, basemt}
<1>1. /\ atom.pc = "pre" /\ gray = {} /\ gcstate' = "insideatomic"
      /\ color' = Marked(W, color) /\ gray' = gray \union (MarkSet(W, color) \ Leaves)
      /\ atom' = [[atom EXCEPT !.pc = "remark"] EXCEPT !.again = grayagain]
      /\ UNCHANGED <<finbit, allgc, sweepgc, unswept, mt, val, basemt, clp, upv, stk,
                     running, resumer, cstack, finobj, tobefnz, currentwhite, gcfinnum,
                     grayagain, weak, ephemeron, allweak, entries, cache, uv, stale, twups, strcache>>
  BY DEF AtomicStart, Mark, At, quietVars, sweepVars
<1>2. atom'.pc = "remark" /\ atom'.again = grayagain /\ atom'.eph = atom.eph
  BY <1>1 DEF TypeOK, PhaseOK
<1>3. gcstate = "atomic" /\ (TopIs("step") \/ TopIs("full")) /\ atom.eph = {}
  BY <1>1 DEF SafetyInv, PhasesOK
<1>4. /\ Atomically /\ Atomically' /\ Marking /\ Marking' /\ ~Remarking /\ Remarking'
      /\ keepinvariant /\ ~keepinvariant' /\ ~Idling' /\ ~Resting' /\ ~issweepphase /\ ~issweepphase'
  BY <1>1, <1>2, <1>3 DEF Atomically, Marking, Remarking, keepinvariant, Idling, Resting,
                          issweepphase, SweepStates
<1>5. \A x \in Obj : color[x] # otherwhite
  BY <1>4 DEF SafetyInv, WhitesOK
<1>6. Shrunk
  BY <1>1 DEF Shrunk
<1>7. Marks(color, color') /\ (\A x \in W : x \in Obj => color'[x] \notin Whites)
      /\ gray' = NewGray(color, color')
  <2>. HIDE DEF W
  <2>. QED  BY <1>1, MarkedMarks, ColorFacts DEF TypeOK
<1>8. Paints({})
  BY <1>7 DEF Marks, Paints
<1>9. /\ NotDead' = NotDead /\ Reached \subseteq Reached'
      /\ GrayOnes' = GrayOnes \union NewGray(color, color')
      /\ \A x \in NewGray(color, color') : x \notin GrayOnes
      /\ \A x \in NotDead : color'[x] \notin Whites => x \in Reached'
  <2>1. KeptOK /\ KindsOK
    BY DEF SafetyInv
  <2>2. UNCHANGED <<currentwhite, mt, val>>
    BY <1>1
  <2>3. /\ NotDead' = NotDead /\ Reached \subseteq Reached'
        /\ GrayOnes' = (GrayOnes \ {x \in {} : color'[x] = "black"}) \union NewGray(color, color')
        /\ \A x \in NewGray(color, color') : x \notin GrayOnes
        /\ \A x \in NotDead : color'[x] \notin Whites => x \in Reached'
    BY <1>5, <1>8, <2>1, <2>2, PaintsFacts
  <2>. QED  BY <2>3
<1>10. GrayAtomicOK'
  <2>1. Work = grayagain /\ Work' = NewGray(color, color') \union grayagain /\ Again' = grayagain
    BY <1>1, <1>2, <1>7 DEF Work, Again
  <2>2. grayagain \subseteq GrayOnes /\ \A x \in GrayOnes \ grayagain : Visited(x)
    BY <1>4, <2>1 DEF SafetyInv, GrayAtomicOK
  <2>3. \A x \in GrayOnes \ grayagain : Visited(x)'
    BY <1>1, <1>2, <1>4, <1>6, <1>9, <2>2, VisitedStays
  <2>. QED  BY <1>7, <1>9, <2>1, <2>2, <2>3 DEF GrayAtomicOK
<1>11. RootsOK'
  <2>1. running \in NotDead /\ Registry \in NotDead /\ In(basemt, NotDead) /\ NotDead \subseteq Obj
    BY ColorFacts DEF SafetyInv, KeptOK
  <2>2. running \in Reached' /\ Registry \in Reached' /\ In(basemt, Reached')
    BY <1>7, <1>9, <2>1 DEF In
  <2>3. MainThread \in Reached /\ tobefnz \subseteq Reached
    BY <1>4 DEF SafetyInv, RootsOK
  <2>. QED  BY <1>1, <1>2, <1>9, <2>2, <2>3 DEF RootsOK
<1>12. PhasesOK' /\ GrayIdleOK' /\ TwupsOK' /\ ConvergenceOK'
  BY <1>1, <1>2, <1>3, <1>4 DEF PhasesOK, GrayIdleOK, TwupsOK, ConvergenceOK, TopIs, Top
<1>13. FramesOK'
  BY <1>1, <1>6, MarkFrames
<1>14. \A x \in Obj : color[x] = "black" =>
         BaseIn(x, Reached) /\ (x \in LClosures => UpvalueOK(x)')
  <2>. SUFFICES ASSUME NEW x \in Obj, color[x] = "black"
                PROVE  BaseIn(x, Reached) /\ (x \in LClosures => UpvalueOK(x)')
    OBVIOUS
  <2>1. BaseIn(x, Reached) /\ (x \in LClosures => UpvalueOK(x))
    BY <1>4 DEF SafetyInv, BlackOK
  <2>2. ASSUME x \in LClosures PROVE UpvalueOK(x)'
    <3>1. upv[x] \in UpVals /\ upv'[x] = upv[x]
      BY <1>1, <2>2, KeptUpvalue, ColorFacts
    <3>2. CASE IsOpen(upv[x])
      <4>1. uv[upv[x]].touched /\ uv[upv[x]].th \in Threads
        BY <1>4, <2>1, <2>2, <3>2 DEF UpvalueOK, IsOpen
      <4>2. color[uv[upv[x]].th] # "free"
        BY <3>1, <4>1, Kinds DEF SafetyInv, FreeOK
      <4>3. uv[upv[x]].th \in NotDead
        BY <1>5, <4>1, <4>2, Kinds, ColorFacts
      <4>4. uv[upv[x]].th \in twups
        BY <1>3, <3>1, <3>2, <4>3 DEF SafetyInv, TwupsOK
      <4>5. uv' = uv /\ twups' = twups
        BY <1>1
      <4>6. atom'.pc = "remark" /\ uv'[upv'[x]].touched /\ uv'[upv'[x]].th \in twups' /\ IsOpen(upv[x])'
        BY <1>2, <3>1, <3>2, <4>1, <4>4, <4>5 DEF IsOpen
      <4>. QED  BY <1>4, <3>1, <4>6 DEF UpvalueOK
    <3>3. CASE ~IsOpen(upv[x])
      BY <1>1, <1>9, <2>1, <2>2, <3>1, <3>3 DEF UpvalueOK, IsOpen, In
    <3>. QED  BY <3>2, <3>3
  <2>. QED  BY <2>1, <2>2
<1>15. /\ twups' \subseteq NotDead /\ tobefnz' \subseteq NotDead /\ finobj \intersect tobefnz = {}
  BY <1>1 DEF SafetyInv, KeptOK, ListsPartition
<1>. HIDE DEF W
<1>. QED  BY <1>1, <1>4, <1>5, <1>6, <1>8, <1>10, <1>11, <1>12, <1>13, <1>14, <1>15, PaintSafe DEF sweepVars

(* remarkupvals.                                                           *)
LEMMA RemarkUpvalsSafe ==
  ASSUME TypeOK, TypeOK', SafetyInv, NEW th \in twups, RemarkUpvals(th) PROVE SafetyInv'
<1>. DEFINE V == {uv[u].v : u \in {w \in OpenUpvals(th) : uv[w].touched}}
<1>1. /\ atom.pc = "remark" /\ ~Stays(th) /\ twups' = twups \ {th}
      /\ color' = Marked(V, color) /\ gray' = gray \union (MarkSet(V, color) \ Leaves)
      /\ uv' = [u \in UpVals |-> IF u \in OpenUpvals(th) THEN [uv[u] EXCEPT !.touched = FALSE] ELSE uv[u]]
      /\ UNCHANGED <<finbit, allgc, sweepgc, unswept, mt, val, basemt, clp, upv, stk,
                     running, resumer, cstack, finobj, tobefnz, currentwhite, gcstate, gcfinnum, atom,
                     grayagain, weak, ephemeron, allweak, entries, cache, stale, strcache>>
  BY DEF RemarkUpvals, Mark, quietVars, sweepVars, phaseVars
<1>2. gcstate = "insideatomic" /\ (TopIs("step") \/ TopIs("full"))
  BY <1>1 DEF SafetyInv, PhasesOK
<1>3. /\ Atomically /\ Atomically' /\ Marking /\ Marking' /\ Remarking /\ Remarking'
      /\ ~keepinvariant /\ ~keepinvariant' /\ ~Idling' /\ ~Resting' /\ ~issweepphase /\ ~issweepphase'
  BY <1>1, <1>2 DEF Atomically, Marking, Remarking, keepinvariant, Idling, Resting,
                    issweepphase, SweepStates
<1>4. \A x \in Obj : color[x] # otherwhite
  BY <1>3 DEF SafetyInv, WhitesOK
<1>5. \A u \in UpVals : /\ uv'[u].th = uv[u].th /\ uv'[u].v = uv[u].v
                        /\ uv[u].th # th => uv'[u] = uv[u]
  BY <1>1 DEF OpenUpvals, TypeOK, FuncsOK, Cell
<1>6. Shrunk
  BY <1>1, <1>5 DEF Shrunk
<1>7. /\ Marks(color, color') /\ \A x \in V : x \in Obj => color'[x] \notin Whites
      /\ gray' = gray \union NewGray(color, color')
  <2>. HIDE DEF V
  <2>. QED  BY <1>1, MarkedMarks, ColorFacts DEF TypeOK
<1>8. Paints({})
  BY <1>7 DEF Marks, Paints
<1>9. /\ NotDead' = NotDead /\ Reached \subseteq Reached'
      /\ GrayOnes' = GrayOnes \union NewGray(color, color')
      /\ \A x \in NewGray(color, color') : x \notin GrayOnes
      /\ \A x \in NotDead : color'[x] \notin Whites => x \in Reached'
  BY <1>1, <1>4, <1>8, PaintsFacts DEF SafetyInv
<1>10. GrayAtomicOK'
  <2>1. Work' = Work \union NewGray(color, color') /\ Again' = Again
    BY <1>1, <1>7 DEF Work, Again
  <2>2. Work \subseteq GrayOnes /\ gray \intersect Again = {} /\ \A x \in GrayOnes \ Work : Visited(x)
    BY <1>3 DEF SafetyInv, GrayAtomicOK
  <2>3. \A x \in GrayOnes \ Work : Visited(x)'
    <3>. SUFFICES ASSUME NEW x \in GrayOnes \ Work PROVE Visited(x)'
      OBVIOUS
    <3>1. x \in twups => x \in twups' \/ OpenUpvals(x) = {}
      BY <1>1 DEF Stays, GrayOnes
    <3>. QED  BY <1>1, <1>3, <1>6, <1>9, <2>2, <3>1, VisitedStays
  <2>4. Again \subseteq GrayOnes
    BY <2>2 DEF Work
  <2>. QED  BY <1>7, <1>9, <2>1, <2>2, <2>3, <2>4 DEF GrayAtomicOK
<1>11. RootsOK'
  BY <1>1, <1>3, <1>9 DEF SafetyInv, RootsOK, In
<1>12. PhasesOK' /\ GrayIdleOK' /\ TwupsOK' /\ ConvergenceOK'
  BY <1>1, <1>2, <1>3 DEF SafetyInv, PhasesOK, GrayIdleOK, TwupsOK, ConvergenceOK, TopIs, Top
<1>13. FramesOK'
  BY <1>1, <1>6, MarkFrames
<1>14. \A v \in V : In(v, Reached')
  <2>1. th \in NotDead /\ th \in Threads
    BY DEF SafetyInv, KeptOK, TypeOK, StackOK
  <2>2. \A u \in UpVals : uv[u].th = th => In(uv[u].v, NotDead)
    BY <2>1 DEF SafetyInv, KeptOK, FieldsIn, BaseIn, StackIn
  <2>. QED  BY <1>7, <1>9, <2>2 DEF OpenUpvals, In
<1>15. \A x \in Obj : color[x] = "black" =>
         BaseIn(x, Reached) /\ (x \in LClosures => UpvalueOK(x)')
  <2>. SUFFICES ASSUME NEW x \in Obj, color[x] = "black"
                PROVE  BaseIn(x, Reached) /\ (x \in LClosures => UpvalueOK(x)')
    OBVIOUS
  <2>1. BaseIn(x, Reached) /\ (x \in LClosures => UpvalueOK(x))
    BY <1>3 DEF SafetyInv, BlackOK
  <2>2. ASSUME x \in LClosures PROVE UpvalueOK(x)'
    <3>1. upv[x] \in UpVals /\ upv'[x] = upv[x]
      BY <1>1, <2>2, KeptUpvalue, ColorFacts
    <3>. DEFINE u == upv[x]
    <3>10. UpvalueOK(x)' <=>
             IF ~IsOpen(u) THEN In(uv[u].v, Reached')
             ELSE \/ In(uv[u].v, Reached')
                  \/ uv[u].th \in Reached'
                  \/ atom.pc = "remark" /\ uv'[u].touched /\ uv[u].th \in twups'
      <4>1. uv'[u].th = uv[u].th /\ uv'[u].v = uv[u].v /\ atom' = atom
        BY <1>1, <1>5, <3>1
      <4>. QED  BY <1>3, <3>1, <4>1 DEF UpvalueOK, IsOpen
    <3>2. In(uv[u].v, Reached) \/ (IsOpen(u) /\ uv[u].th \in Reached) => UpvalueOK(x)'
      <4>. HIDE DEF u
      <4>. QED  BY <1>9, <3>10 DEF In
    <3>3. CASE IsOpen(u) /\ uv[u].touched /\ uv[u].th \in twups
      <4>1. CASE uv[u].th = th
        <5>1. uv[u].v \in V
          BY <3>1, <3>3, <4>1 DEF OpenUpvals
        <5>. HIDE DEF V
        <5>. HIDE DEF u
        <5>. QED  BY <1>14, <3>10, <5>1
      <4>2. CASE uv[u].th # th
        <5>1. uv'[u].touched /\ uv[u].th \in twups'
          BY <1>1, <1>5, <3>1, <3>3, <4>2
        <5>. HIDE DEF u
        <5>. QED  BY <1>1, <3>3, <3>10, <5>1
      <4>. QED  BY <4>1, <4>2
    <3>. QED  BY <1>3, <2>1, <2>2, <3>2, <3>3 DEF UpvalueOK
  <2>. QED  BY <2>1, <2>2
<1>16. /\ twups' \subseteq NotDead /\ tobefnz' \subseteq NotDead /\ finobj \intersect tobefnz = {}
  BY <1>1 DEF SafetyInv, KeptOK, ListsPartition
<1>. HIDE DEF V
<1>. QED  BY <1>1, <1>3, <1>4, <1>6, <1>8, <1>10, <1>11, <1>12, <1>13, <1>15, <1>16, PaintSafe DEF sweepVars

(* The end of remarkupvals, the passes over grayagain and over the         *)
(* ephemerons begin.                                                       *)
LEMMA QuietSteps ==
  ASSUME TypeOK, TypeOK', SafetyInv, RemarkDone \/ GrayAgain \/ ConvergeRound PROVE SafetyInv'
<1>1. UNCHANGED <<color, listVars, currentwhite, gcstate, gcfinnum, sweepVars, grayagain, weak, allweak,
                  refVars, funcVars, stackVars, cstack>>
  BY DEF RemarkDone, GrayAgain, ConvergeRound, grayVars
<1>2. /\ atom.pc \in {"remark", "prop1", "again", "prop2", "eph1", "eph2"}
      /\ atom'.pc \in {"prop1", "again", "eph1", "eph2"}
      /\ gcstate = "insideatomic" /\ (TopIs("step") \/ TopIs("full"))
  BY DEF RemarkDone, GrayAgain, ConvergeRound, At, SafetyInv, PhasesOK, TypeOK, PhaseOK
<1>3. /\ Atomically /\ Atomically' /\ Marking /\ Marking' /\ Remarking /\ Remarking'
      /\ ~keepinvariant /\ ~keepinvariant' /\ ~Idling' /\ ~Resting' /\ ~issweepphase
  BY <1>1, <1>2 DEF Atomically, Marking, Remarking, keepinvariant, Idling, Resting,
                    issweepphase, SweepStates
<1>4. /\ Work' = Work /\ gray' \intersect Again' = {}
      /\ atom'.pc \notin {"remark", "prop1"} => atom'.again = {}
      /\ atom'.pc \notin {"eph1", "eph2"} => atom'.eph = {}
      /\ ephemeron' \union atom'.eph = ephemeron \union atom.eph
      /\ atom'.pc \in {"eph1", "eph2"} => gray' = {} /\ ephemeron' = {} /\ ~atom'.changed
      /\ atom'.pc \in {"prop2", "eph2"} =>
           /\ atom.pc \in {"prop2", "eph2"}
           /\ atom'.origweak = atom.origweak /\ atom'.origall = atom.origall
  <2>1. /\ atom.pc \notin {"remark", "prop1"} => atom.again = {}
        /\ atom.pc \notin {"eph1", "eph2"} => atom.eph = {}
        /\ gray \intersect Again = {}
    BY <1>3 DEF SafetyInv, PhasesOK, GrayAtomicOK
  <2>2. CASE RemarkDone
    BY <2>1, <2>2 DEF RemarkDone, At, grayVars, Work, Again, TypeOK, PhaseOK
  <2>3. CASE GrayAgain
    BY <2>1, <2>3 DEF GrayAgain, At, Work, Again, TypeOK, PhaseOK
  <2>4. CASE ConvergeRound
    BY <2>1, <2>4, ZenonT(60) DEF ConvergeRound, At, Work, Again, TypeOK, PhaseOK
  <2>. QED  BY <2>2, <2>3, <2>4
<1>5. Shrunk /\ Reached' = Reached /\ GrayOnes' = GrayOnes
  BY <1>1 DEF Shrunk, refVars, funcVars, stackVars, Reached, GrayOnes
<1>6. GrayAtomicOK'
  <2>1. Work \subseteq GrayOnes /\ \A x \in GrayOnes \ Work : Visited(x)
    BY <1>3 DEF SafetyInv, GrayAtomicOK
  <2>2. \A x \in GrayOnes \ Work : Visited(x)'
    BY <1>1, <1>3, <1>4, <1>5, <2>1, VisitedStays DEF stackVars
  <2>. QED  BY <1>4, <1>5, <2>1, <2>2 DEF GrayAtomicOK
<1>7. RemarkDone => twups \subseteq Reached
  BY DEF RemarkDone, Stays, Reached, TypeOK, StackOK, Threads, Obj
<1>8. RootsOK'
  <2>1. twups \subseteq Reached
    BY <1>2, <1>3, <1>7 DEF SafetyInv, RootsOK, RemarkDone, GrayAgain, ConvergeRound
  <2>. QED  BY <1>1, <1>3, <1>5, <2>1 DEF SafetyInv, RootsOK, listVars, refVars, stackVars
<1>9. PhasesOK'
  BY <1>1, <1>2, <1>4 DEF SafetyInv, PhasesOK, TopIs, Top
<1>10. ConvergenceOK'
  BY <1>1, <1>4, <1>5 DEF SafetyInv, ConvergenceOK, ValuesIn, refVars
<1>11. \A c \in LClosures : UpvalueOK(c) => UpvalueOK(c)'
  <2>. SUFFICES ASSUME NEW c \in LClosures, UpvalueOK(c) PROVE UpvalueOK(c)'
    OBVIOUS
  <2>1. atom.pc = "remark" => twups \subseteq Reached
    BY <1>7 DEF RemarkDone, GrayAgain, ConvergeRound
  <2>. QED  BY <1>1, <1>3, <1>5, <2>1 DEF UpvalueOK, IsOpen, funcVars
<1>. QED  BY <1>1, <1>2, <1>3, <1>6, <1>8, <1>9, <1>10, <1>11, QuietSafe

(* convergeephemerons: the visit of one ephemeron table.                   *)
LEMMA ConvergeVisitSafe ==
  ASSUME TypeOK, TypeOK', SafetyInv, NEW w \in Tables, ConvergeVisit(w) PROVE SafetyInv'
<1>1. PICK early \in SUBSET entries[w] :
        /\ VisitEphemeron(w, color, gray, ephemeron, early)
        /\ atom' = [atom EXCEPT !.eph = @ \ {w},
                                !.changed = \/ @
                                            \/ MarksValue(early, color)
                                            \/ MarksValue(entries[w] \ early,
                                                 Marked(VisitMarks(early, color), color))]
  BY DEF ConvergeVisit
<1>2. /\ atom.pc \in {"eph1", "eph2"} /\ gray = {} /\ w \in atom.eph
      /\ UNCHANGED <<listVars, currentwhite, gcstate, gcfinnum, sweepVars, weak,
                     refVars, funcVars, stackVars, cstack>>
  BY DEF ConvergeVisit
<1>3. /\ atom'.pc = atom.pc /\ atom'.again = atom.again /\ atom'.eph = atom.eph \ {w}
      /\ atom'.origweak = atom.origweak /\ atom'.origall = atom.origall
      /\ ~atom'.changed => /\ ~atom.changed
                           /\ ~MarksValue(early, color)
                           /\ ~MarksValue(entries[w] \ early, Marked(VisitMarks(early, color), color))
  BY <1>1 DEF TypeOK, PhaseOK
<1>4. gcstate = "insideatomic" /\ (TopIs("step") \/ TopIs("full"))
  BY <1>2 DEF SafetyInv, PhasesOK
<1>5. /\ Atomically /\ Atomically' /\ Marking /\ Marking' /\ Remarking /\ Remarking'
      /\ ~keepinvariant /\ ~keepinvariant' /\ ~Idling' /\ ~Resting' /\ ~issweepphase /\ ~issweepphase'
  BY <1>2, <1>3, <1>4 DEF Atomically, Marking, Remarking, keepinvariant, Idling, Resting,
                          issweepphase, SweepStates
<1>6. \A x \in Obj : color[x] # otherwhite
  BY <1>5 DEF SafetyInv, WhitesOK
<1>7. Shrunk
  BY <1>2 DEF Shrunk, refVars, funcVars, stackVars
<1>8. /\ Marks(color, color') /\ gray' = NewGray(color, color')
      /\ grayagain' = grayagain
      /\ ephemeron \subseteq ephemeron' /\ ephemeron' \subseteq ephemeron \union {w}
      /\ allweak \subseteq allweak'
      /\ \/ w \in ephemeron' \union allweak'
         \/ \A e \in entries[w] : NonWhite(e[1], color') /\ NonWhite(e[2], color')
  <2>1. color \in [Obj -> Colors] /\ gcstate # "propagate"
    BY <1>4, ColorFacts
  <2>2. RefsOK
    BY DEF TypeOK
  <2>3. VisitEphemeron(w, color, gray, ephemeron, early)
    BY <1>1
  <2>4. /\ Marks(color, color') /\ gray' = gray \union NewGray(color, color')
        /\ gcstate # "propagate" =>
             /\ grayagain' = grayagain
             /\ ephemeron \subseteq ephemeron' /\ ephemeron' \subseteq ephemeron \union {w}
             /\ allweak \subseteq allweak' /\ allweak' \subseteq allweak \union {w}
             /\ \/ w \in ephemeron' \union allweak'
                \/ \A e \in entries[w] : NonWhite(e[1], color') /\ NonWhite(e[2], color')
    BY <2>1, <2>2, <2>3, VisitFacts
  <2>. QED  BY <1>2, <2>1, <2>4
<1>9. Paints({})
  BY <1>8 DEF Marks, Paints
<1>10. /\ NotDead' = NotDead /\ Reached \subseteq Reached'
       /\ GrayOnes' = GrayOnes \union NewGray(color, color')
       /\ \A x \in NewGray(color, color') : x \notin GrayOnes
       /\ \A x \in NotDead : color'[x] \notin Whites => x \in Reached'
  BY <1>2, <1>6, <1>9, PaintsFacts DEF SafetyInv, refVars
<1>11. GrayAtomicOK'
  <2>1. Work = Again /\ Work' = Again \union NewGray(color, color') /\ Again' = Again
    BY <1>2, <1>3, <1>8 DEF Work, Again
  <2>2. Work \subseteq GrayOnes /\ \A x \in GrayOnes \ Work : Visited(x)
    BY <1>5 DEF SafetyInv, GrayAtomicOK
  <2>3. \A x \in GrayOnes \ Work : Visited(x)'
    <3>. SUFFICES ASSUME NEW x \in GrayOnes \ Work PROVE Visited(x)'
      OBVIOUS
    <3>1. ASSUME x = w, \A e \in entries[w] : NonWhite(e[1], color') /\ NonWhite(e[2], color')
          PROVE  (KeysIn(x, Reached) /\ ValuesIn(x, Reached))'
      <4>1. w \in NotDead
        BY <3>1, ColorFacts DEF GrayOnes
      <4>2. KeysIn(w, NotDead) /\ ValuesIn(w, NotDead)
        BY <4>1 DEF SafetyInv, KeptOK, FieldsIn, BaseIn
      <4>. QED  BY <1>2, <1>10, <3>1, <4>2 DEF KeysIn, ValuesIn, In, NonWhite, refVars
    <3>2. x \in ephemeron \union atom.eph =>
            x \in ephemeron' \union atom'.eph \union allweak' \/ (KeysIn(x, Reached) /\ ValuesIn(x, Reached))'
      BY <1>3, <1>8, <3>1
    <3>3. Visited(x) /\ (Remarking => Remarking') /\ (x \in allweak => x \in allweak')
          /\ (x \in weak => x \in weak') /\ (x \in twups => x \in twups')
      BY <1>2, <1>5, <1>8, <2>2 DEF stackVars
    <3>. QED  BY <1>7, <1>10, <3>2, <3>3, VisitedStays
  <2>. QED  BY <1>8, <1>10, <2>1, <2>2, <2>3 DEF GrayAtomicOK
<1>12. RootsOK'
  BY <1>2, <1>3, <1>5, <1>10 DEF SafetyInv, RootsOK, In, listVars, refVars, stackVars
<1>13. PhasesOK' /\ GrayIdleOK' /\ TwupsOK'
  BY <1>2, <1>3, <1>4, <1>5 DEF SafetyInv, PhasesOK, GrayIdleOK, TwupsOK, TopIs, Top
<1>14. ConvergenceOK'
  <2>1. ASSUME atom'.pc \in {"prop2", "eph2"}, NEW t \in atom'.origweak \union atom'.origall
        PROVE  ValuesIn(t, Reached)'
    <3>1. ValuesIn(t, Reached)
      BY <1>3, <2>1 DEF SafetyInv, ConvergenceOK
    <3>. QED  BY <1>2, <1>10, <3>1 DEF ValuesIn, In, refVars
  <2>2. ASSUME ~atom'.changed PROVE gray' = {} /\ \A t \in ephemeron' : Settled(t)'
    <3>1. /\ \A x \in Obj \ Strings : color'[x] = color[x]
          /\ \A x \in Obj : color'[x] \in Whites => color[x] \in Whites
          /\ gray' = gray
          /\ \A e \in entries[w] : KeyMarked(e, color') => ~ValueWhite(e, color')
      BY <1>1, <1>3, <2>2, ColorFacts, VisitSettles DEF TypeOK
    <3>2. \A t \in ephemeron : Settled(t)
      BY <1>2, <1>3, <2>2 DEF SafetyInv, ConvergenceOK
    <3>3. ASSUME NEW t \in ephemeron PROVE Settled(t)'
      <4>. SUFFICES ASSUME NEW e \in entries[t], KeyMarked(e, color'), ValueWhite(e, color') PROVE FALSE
        BY <1>2 DEF Settled, refVars
      <4>1. KeyMarked(e, color) /\ ValueWhite(e, color)
        BY <3>1 DEF KeyMarked, ValueWhite, Weakable
      <4>. QED  BY <3>2, <4>1 DEF Settled
    <3>4. Settled(w)'
      BY <1>2, <3>1 DEF Settled, refVars
    <3>. QED  BY <1>2, <1>8, <3>1, <3>3, <3>4
  <2>. QED  BY <2>1, <2>2 DEF ConvergenceOK
<1>15. FramesOK'
  BY <1>2, <1>7, MarkFrames
<1>16. \A x \in Obj : color[x] = "black" =>
         BaseIn(x, Reached) /\ (x \in LClosures => UpvalueOK(x)')
  <2>. SUFFICES ASSUME NEW x \in Obj, color[x] = "black"
                PROVE  BaseIn(x, Reached) /\ (x \in LClosures => UpvalueOK(x)')
    OBVIOUS
  <2>1. BaseIn(x, Reached) /\ (x \in LClosures => UpvalueOK(x))
    BY <1>5 DEF SafetyInv, BlackOK
  <2>2. x \in LClosures => upv[x] \in UpVals
    BY KeptUpvalue, ColorFacts
  <2>. QED  BY <1>2, <1>3, <1>5, <1>7, <1>10, <2>1, <2>2, UpvalueStays DEF funcVars, stackVars
<1>17. /\ twups' \subseteq NotDead /\ tobefnz' \subseteq NotDead /\ finobj \intersect tobefnz = {}
       /\ UNCHANGED <<finobj, tobefnz, allgc, finbit, strcache>>
  BY <1>2 DEF SafetyInv, KeptOK, ListsPartition, listVars, stackVars
<1>. QED  BY <1>2, <1>5, <1>6, <1>7, <1>9, <1>11, <1>12, <1>13, <1>14, <1>15, <1>16, <1>17, PaintSafe

(* clearvalues, separatetobefnz and markbeingfnz.                          *)
LEMMA SeparateSafe ==
  ASSUME TypeOK, TypeOK', SafetyInv, Separate PROVE SafetyInv'
<1>. DEFINE T == weak \union allweak
            S == {o \in finobj : IsWhite(o)}
            Q == UNION {Values(t) \intersect Strings : t \in T}
            c1 == Marked(Q, color)
            W == tobefnz \union S
<1>1. /\ atom.pc = "eph1" /\ gray = {} /\ atom.eph = {} /\ ~atom.changed
      /\ entries' = [t \in Tables |-> IF t \in T THEN {e \in entries[t] : ~Cleared(e[2])} ELSE entries[t]]
      /\ finobj' = finobj \ S /\ tobefnz' = tobefnz \union S
      /\ color' = Marked(W, c1) /\ gray' = gray \union (MarkSet(W, c1) \ Leaves)
      /\ atom' = [[atom EXCEPT !.pc = "prop2"] EXCEPT !.origweak = weak, !.origall = allweak]
      /\ UNCHANGED <<finbit, allgc, sweepgc, unswept, mt, val, basemt, clp, upv, stk,
                     running, resumer, cstack, currentwhite, gcstate, grayagain, weak, ephemeron, allweak,
                     cache, uv, stale, twups, strcache>>
  BY DEF Separate, Converged, Mark, At, quietVars, sweepVars
<1>2. /\ atom'.pc = "prop2" /\ atom'.again = atom.again /\ atom'.eph = {}
      /\ atom'.origweak = weak /\ atom'.origall = allweak
  BY <1>1 DEF TypeOK, PhaseOK
<1>3. gcstate = "insideatomic" /\ (TopIs("step") \/ TopIs("full")) /\ atom.again = {}
  BY <1>1 DEF SafetyInv, PhasesOK
<1>4. /\ Atomically /\ Atomically' /\ Marking /\ Marking' /\ Remarking /\ Remarking'
      /\ ~keepinvariant /\ ~keepinvariant' /\ ~Idling' /\ ~Resting' /\ ~issweepphase /\ ~issweepphase'
  BY <1>1, <1>2, <1>3 DEF Atomically, Marking, Remarking, keepinvariant, Idling, Resting,
                          issweepphase, SweepStates
<1>5. \A x \in Obj : color[x] # otherwhite
  BY <1>4 DEF SafetyInv, WhitesOK
<1>6. Shrunk
  <2>1. \A t \in Tables : entries'[t] \subseteq entries[t]
    BY <1>1
  <2>. QED  BY <1>1, <2>1 DEF Shrunk
<1>7. /\ Marks(color, c1) /\ c1 \in [Obj -> Colors] /\ \A x \in Q : x \in Obj => c1[x] \notin Whites
      /\ NewGray(color, c1) = {}
  <2>1. MarkSet(Q, color) \subseteq Strings
    <3>1. \A x \in Q : x \in Obj /\ color[x] \in Whites => x \in Strings
      OBVIOUS
    <3>. HIDE DEF Q
    <3>. QED  BY <3>1, MarkStrings
  <2>. HIDE DEF Q
  <2>. QED  BY <2>1, MarkedMarks, ColorFacts DEF TypeOK, Leaves
<1>8. /\ Marks(c1, color') /\ (\A x \in W : x \in Obj => color'[x] \notin Whites)
      /\ gray' = NewGray(c1, color')
  <2>. HIDE DEF W, c1
  <2>. QED  BY <1>1, <1>7, MarkedMarks DEF TypeOK
<1>9. /\ Marks(color, color') /\ gray' = NewGray(color, color')
      /\ \A x \in Q \union W : x \in Obj => color'[x] \notin Whites
  <2>. HIDE DEF W, c1, Q
  <2>1. /\ Marks(color, color') /\ \A x \in Obj : c1[x] \notin Whites => color'[x] = c1[x]
        /\ NewGray(color, c1) \union NewGray(c1, color') = NewGray(color, color')
    <3>1. Marks(color, c1) /\ Marks(c1, color')
      BY <1>7, <1>8
    <3>. QED  BY <3>1, MarksTwice
  <2>2. gray' = NewGray(color, color')
    BY <1>7, <1>8, <2>1
  <2>3. \A x \in Q : x \in Obj => color'[x] \notin Whites
    BY <1>7, <2>1
  <2>. QED  BY <1>8, <2>1, <2>2, <2>3
<1>10. Paints({})
  BY <1>9 DEF Marks, Paints
<1>11. /\ NotDead' = NotDead /\ Reached \subseteq Reached'
       /\ GrayOnes' = GrayOnes \union NewGray(color, color')
       /\ \A x \in NewGray(color, color') : x \notin GrayOnes
       /\ \A x \in NotDead : color'[x] \notin Whites => x \in Reached'
  BY <1>1, <1>5, <1>10, PaintsFacts DEF SafetyInv
<1>12. S \subseteq NotDead /\ W \subseteq NotDead /\ W \subseteq Obj
  <2>1. finobj \subseteq Obj /\ tobefnz \subseteq NotDead
    BY DEF SafetyInv, KeptOK, TypeOK, ListsOK
  <2>. QED  BY <1>5, <2>1, ColorFacts DEF IsWhite
<1>13. GrayAtomicOK'
  <2>1. Work = {} /\ Work' = NewGray(color, color') /\ Again' = {}
    BY <1>1, <1>2, <1>3, <1>9 DEF Work, Again
  <2>2. \A x \in GrayOnes : Visited(x)
    BY <1>4, <2>1 DEF SafetyInv, GrayAtomicOK
  <2>3. \A x \in GrayOnes : Visited(x)'
    BY <1>1, <1>2, <1>4, <1>6, <1>11, <2>2, VisitedStays
  <2>. QED  BY <1>11, <2>1, <2>3 DEF GrayAtomicOK
<1>14. RootsOK'
  <2>1. tobefnz' \subseteq Reached'
    BY <1>1, <1>9, <1>11, <1>12
  <2>. QED  BY <1>1, <1>2, <1>4, <1>11, <2>1 DEF SafetyInv, RootsOK, In
<1>15. PhasesOK' /\ GrayIdleOK' /\ TwupsOK'
  BY <1>1, <1>2, <1>3, <1>4 DEF SafetyInv, PhasesOK, GrayIdleOK, TwupsOK, TopIs, Top
<1>16. ConvergenceOK'
  <2>1. ASSUME NEW t \in T PROVE ValuesIn(t, Reached)'
    <3>. SUFFICES ASSUME NEW e \in entries'[t] PROVE In(e[2], Reached')
      BY DEF ValuesIn
    <3>1. t \in Tables /\ t \in Obj
      BY Kinds DEF TypeOK, GrayOK
    <3>2. e \in entries[t] /\ ~Cleared(e[2])
      BY <1>1, <3>1
    <3>3. In(e[2], NotDead)
      BY <1>5, <3>1, <3>2, MarkingKept DEF FieldsIn, BaseIn, ValuesIn, In
    <3>4. e[2] \in Strings => e[2] \in Q
      BY <3>2 DEF Values
    <3>5. e[2] \in Obj \ Strings => color'[e[2]] \notin Whites
      <4>1. \A x \in Obj : color[x] \notin Whites => color'[x] \notin Whites
        BY <1>9 DEF Marks
      <4>. QED  BY <3>2, <4>1 DEF Cleared, Weakable, IsWhite
    <3>. HIDE DEF Q, T
    <3>. QED  BY <1>9, <1>11, <3>3, <3>4, <3>5 DEF In
  <2>. QED  BY <1>2, <2>1 DEF ConvergenceOK
<1>17. FramesOK'
  BY <1>1, <1>6, MarkFrames
<1>18. \A x \in Obj : color[x] = "black" =>
         BaseIn(x, Reached) /\ (x \in LClosures => UpvalueOK(x)')
  <2>. SUFFICES ASSUME NEW x \in Obj, color[x] = "black"
                PROVE  BaseIn(x, Reached) /\ (x \in LClosures => UpvalueOK(x)')
    OBVIOUS
  <2>1. BaseIn(x, Reached) /\ (x \in LClosures => UpvalueOK(x))
    BY <1>4 DEF SafetyInv, BlackOK
  <2>2. x \in LClosures => upv[x] \in UpVals
    BY KeptUpvalue, ColorFacts
  <2>. QED  BY <1>1, <1>4, <1>6, <1>11, <2>1, <2>2, UpvalueStays
<1>19. /\ finobj' \union tobefnz' = finobj \union tobefnz /\ finobj' \intersect tobefnz' = {}
       /\ tobefnz' \subseteq NotDead /\ twups' \subseteq NotDead
  BY <1>1, <1>12 DEF SafetyInv, KeptOK, ListsPartition
<1>. HIDE DEF W, c1, Q, T, S
<1>. QED  BY <1>1, <1>4, <1>5, <1>6, <1>10, <1>13, <1>14, <1>15, <1>16, <1>17, <1>18, <1>19, PaintSafe DEF sweepVars

(***************************************************************************)
(* The end of atomic(): the flip of the current white.                     *)
(***************************************************************************)
(* What is then reached refers to nothing that is white, once the weak     *)
(* tables are cleared.                                                     *)
LEMMA ReachedClosed ==
  ASSUME TypeOK, TypeOK', SafetyInv, AtomicFinish
  PROVE  /\ Shrunk
         /\ \A x \in Obj : color'[x] = color[x] \/ (x \in Strings /\ color[x] \in Whites /\ color'[x] = "black")
         /\ \A x \in Obj : color[x] # otherwhite
         /\ Reached \subseteq Reached'
         /\ \A x \in NotDead : color'[x] \notin Whites => x \in Reached'
         /\ \A o \in Reached' : FieldsIn(o, Reached)'
         /\ \A th \in Threads : th \in Reached =>
              /\ StackIn(th, Reached)
              /\ (\E u \in UpVals : uv[u].th = th) => th \in twups
<1>. DEFINE K  == ephemeron \union allweak
            V  == (weak \ atom.origweak) \union (allweak \ atom.origall)
            E1 == [t \in Tables |-> IF t \in K THEN {e \in entries[t] : ~Cleared(e[1])}
                                    ELSE entries[t]]
            S1 == UNION {Keys(t) \intersect Strings : t \in K}
            S2 == UNION {{e[2] : e \in E1[t]} \intersect Strings : t \in V}
            S  == S1 \union S2
<1>1. /\ atom.pc = "eph2" /\ gray = {} /\ atom.eph = {} /\ ~atom.changed
      /\ entries' = [t \in Tables |-> IF t \in V THEN {e \in E1[t] : ~Cleared(e[2])} ELSE E1[t]]
      /\ color' = Marked(S, color)
      /\ UNCHANGED <<mt, val, basemt, clp, upv, stk, running, resumer, cache, uv, stale>>
  BY DEF AtomicFinish, Converged, quietVars
<1>2. gcstate = "insideatomic" /\ atom.again = {}
  BY <1>1 DEF SafetyInv, PhasesOK
<1>3. Atomically /\ Marking /\ Remarking /\ ~keepinvariant
  BY <1>1, <1>2 DEF Atomically, Marking, Remarking, keepinvariant
<1>4. \A x \in Obj : color[x] # otherwhite
  BY <1>3 DEF SafetyInv, WhitesOK
<1>5. /\ \A t \in Tables : entries'[t] \subseteq entries[t]
      /\ \A t \in K : \A e \in entries'[t] : ~Cleared(e[1])
      /\ \A t \in V : \A e \in entries'[t] : ~Cleared(e[2])
      /\ \A t \in K : \A e \in entries'[t] : e[1] \in Strings => e[1] \in S
      /\ \A t \in V : \A e \in entries'[t] : e[2] \in Strings => e[2] \in S
  <2>1. K \subseteq Tables /\ V \subseteq Tables
    BY DEF TypeOK, GrayOK
  <2>2. \A t \in Tables : E1[t] \subseteq entries[t] /\ (t \in K => \A e \in E1[t] : ~Cleared(e[1]))
    OBVIOUS
  <2>3. \A t \in Tables : entries'[t] \subseteq E1[t] /\ (t \in V => \A e \in entries'[t] : ~Cleared(e[2]))
    <3>. HIDE DEF E1, V
    <3>. QED  BY <1>1
  <2>4. \A t \in K : \A e \in entries[t] : e[1] \in Strings => e[1] \in S
    <3>. SUFFICES ASSUME NEW t \in K, NEW e \in entries[t], e[1] \in Strings PROVE e[1] \in S
      <4>. HIDE DEF K, S
      <4>. QED  OBVIOUS
    <3>1. e[1] \in Keys(t) \intersect Strings
      BY DEF Keys
    <3>2. e[1] \in S1
      <4>. HIDE DEF K
      <4>. QED  BY <3>1
    <3>. HIDE DEF S1, S2
    <3>. QED  BY <3>2
  <2>5. \A t \in V : \A e \in E1[t] : e[2] \in Strings => e[2] \in S
    <3>. SUFFICES ASSUME NEW t \in V, NEW e \in E1[t], e[2] \in Strings PROVE e[2] \in S
      <4>. HIDE DEF V, S, E1
      <4>. QED  OBVIOUS
    <3>1. e[2] \in {d[2] : d \in E1[t]} \intersect Strings
      <4>. HIDE DEF E1
      <4>. QED  OBVIOUS
    <3>2. e[2] \in S2
      <4>. HIDE DEF V, E1
      <4>. QED  BY <3>1
    <3>. HIDE DEF S1, S2
    <3>. QED  BY <3>2
  <2>. HIDE DEF E1, S, K, V
  <2>6. \A t \in Tables : entries'[t] \subseteq entries[t]
    BY <2>2, <2>3
  <2>7. /\ \A t \in K : \A e \in entries'[t] : ~Cleared(e[1])
        /\ \A t \in V : \A e \in entries'[t] : ~Cleared(e[2])
    BY <2>1, <2>2, <2>3
  <2>8. /\ \A t \in K : \A e \in entries'[t] : e[1] \in Strings => e[1] \in S
        /\ \A t \in V : \A e \in entries'[t] : e[2] \in Strings => e[2] \in S
    BY <2>1, <2>3, <2>4, <2>5, <2>6
  <2>. QED  BY <2>6, <2>7, <2>8
<1>6. \A x \in S : x \in Strings
  <2>1. \A x \in S1 : x \in Strings
    <3>. HIDE DEF K
    <3>. QED  OBVIOUS
  <2>2. \A x \in S2 : x \in Strings
    <3>. HIDE DEF E1, V
    <3>. QED  OBVIOUS
  <2>. HIDE DEF S1, S2
  <2>. QED  BY <2>1, <2>2
<1>. HIDE DEF S, E1
<1>7. /\ \A x \in Obj : color'[x] = color[x] \/ (x \in Strings /\ color[x] \in Whites /\ color'[x] = "black")
      /\ \A x \in S : x \in Obj => color'[x] \notin Whites
  <2>1. MarkSet(S, color) \subseteq Strings
    BY <1>6, MarkStrings
  <2>. QED  BY <1>1, <2>1, MarkedMarks, MarkFacts, ColorFacts DEF TypeOK, Leaves
<1>8. Shrunk
  BY <1>1, <1>5, Kinds DEF Shrunk
<1>9. Reached \subseteq Reached'
  BY <1>7, ColorFacts DEF Reached
<1>10. \A x \in NotDead : color'[x] \notin Whites => x \in Reached'
  BY <1>7, ColorFacts DEF Reached, Colors
<1>11. \A x \in GrayOnes : Visited(x)
  <2>1. Work = {}
    BY <1>1, <1>2 DEF Work, Again
  <2>. QED  BY <1>3, <2>1 DEF SafetyInv, GrayAtomicOK
<1>12. \A th \in Threads : th \in Reached =>
         /\ StackIn(th, Reached) /\ stale[th] = Nil
         /\ (\E u \in UpVals : uv[u].th = th) => th \in twups
  <2>. SUFFICES ASSUME NEW th \in Threads, th \in Reached
                PROVE  /\ StackIn(th, Reached) /\ stale[th] = Nil
                       /\ (\E u \in UpVals : uv[u].th = th) => th \in twups
    OBVIOUS
  <2>1. th \in GrayOnes /\ th \notin Tables
    BY Kinds, OneKind DEF SafetyInv, KindsOK, GrayOnes, Reached
  <2>. QED  BY <1>11, <2>1 DEF Visited
<1>13. ASSUME NEW t \in Tables, t \in GrayOnes PROVE FieldsIn(t, Reached)'
  <2>1. t \in NotDead /\ t \notin Threads /\ t \notin LClosures
    BY <1>13, ColorFacts, OneKind DEF GrayOnes
  <2>2. KeysIn(t, NotDead) /\ ValuesIn(t, NotDead)
    BY <2>1 DEF SafetyInv, KeptOK, FieldsIn, BaseIn
  <2>3. /\ In(mt[t], Reached)
        /\ \/ t \in allweak
           \/ t \in ephemeron
           \/ t \in weak /\ KeysIn(t, Reached)
           \/ KeysIn(t, Reached) /\ ValuesIn(t, Reached)
    BY <1>1, <1>11, <1>13, <2>1 DEF Visited
  <2>4. t \in K => \A e \in entries'[t] : In(e[1], Reached')
    <3>. SUFFICES ASSUME t \in K, NEW e \in entries'[t], e[1] \in Obj PROVE e[1] \in Reached'
      BY DEF In
    <3>1. e[1] \in NotDead
      BY <1>5, <2>2 DEF KeysIn, In
    <3>2. CASE e[1] \in Strings
      BY <1>5, <1>7, <1>10, <3>1, <3>2
    <3>3. CASE e[1] \notin Strings
      <4>1. color[e[1]] \notin Whites
        BY <1>5, <3>3 DEF Cleared, Weakable, IsWhite
      <4>. QED  BY <1>7, <1>10, <3>1, <3>3, <4>1
    <3>. QED  BY <3>2, <3>3
  <2>5. t \in V => \A e \in entries'[t] : In(e[2], Reached')
    <3>. SUFFICES ASSUME t \in V, NEW e \in entries'[t], e[2] \in Obj PROVE e[2] \in Reached'
      BY DEF In
    <3>1. e[2] \in NotDead
      BY <1>5, <2>2 DEF ValuesIn, In
    <3>2. CASE e[2] \in Strings
      BY <1>5, <1>7, <1>10, <3>1, <3>2
    <3>3. CASE e[2] \notin Strings
      <4>1. color[e[2]] \notin Whites
        BY <1>5, <3>3 DEF Cleared, Weakable, IsWhite
      <4>. QED  BY <1>7, <1>10, <3>1, <3>3, <4>1
    <3>. QED  BY <3>2, <3>3
  <2>6. /\ KeysIn(t, Reached) => \A e \in entries'[t] : In(e[1], Reached')
        /\ ValuesIn(t, Reached) => \A e \in entries'[t] : In(e[2], Reached')
    BY <1>5, <1>9 DEF KeysIn, ValuesIn, In
  <2>7. t \in atom.origweak \union atom.origall => ValuesIn(t, Reached)
    BY <1>1 DEF SafetyInv, ConvergenceOK
  <2>8. t \in ephemeron => \A e \in entries'[t] : In(e[2], Reached')
    <3>. SUFFICES ASSUME t \in ephemeron, NEW e \in entries'[t], e[2] \in Obj PROVE e[2] \in Reached'
      BY DEF In
    <3>1. e \in entries[t] /\ KeyMarked(e, color)
      BY <1>5 DEF Cleared, KeyMarked, IsWhite, Weakable
    <3>2. ~ValueWhite(e, color)
      BY <1>1, <3>1 DEF SafetyInv, ConvergenceOK, Settled
    <3>3. e[2] \in NotDead /\ color[e[2]] \notin Whites
      BY <2>2, <3>1, <3>2 DEF ValuesIn, In, ValueWhite
    <3>4. color'[e[2]] \notin Whites
      BY <1>7, <3>3, ColorFacts
    <3>. QED  BY <1>10, <3>3, <3>4
  <2>9. \A e \in entries'[t] : In(e[1], Reached') /\ In(e[2], Reached')
    BY <2>3, <2>4, <2>5, <2>6, <2>7, <2>8
  <2>10. In(mt'[t], Reached')
    BY <1>1, <1>9, <2>3 DEF In
  <2>. HIDE DEF K, V
  <2>. QED  BY <2>1, <2>9, <2>10, OneKind DEF FieldsIn, BaseIn, KeysIn, ValuesIn
<1>14. ASSUME NEW o \in Reached' PROVE FieldsIn(o, Reached)'
  <2>1. o \in Obj
    BY DEF Reached
  <2>2. CASE color[o] = "black"
    <3>1. BaseIn(o, Reached) /\ (o \in LClosures => UpvalueOK(o))
      BY <1>3, <2>1, <2>2 DEF SafetyInv, BlackOK
    <3>2. BaseIn(o, Reached)'
      BY <1>8, <1>9, <3>1, ShrunkIn
    <3>3. ASSUME o \in LClosures PROVE In(uv'[upv'[o]].v, Reached')
      <4>1. upv[o] \in UpVals
        BY <2>1, <2>2, <3>3, KeptUpvalue, ColorFacts
      <4>2. In(uv[upv[o]].v, Reached) \/ (IsOpen(upv[o]) /\ uv[upv[o]].th \in Reached)
        BY <1>1, <1>3, <3>1, <3>3 DEF UpvalueOK
      <4>3. In(uv[upv[o]].v, Reached)
        BY <1>12, <4>1, <4>2 DEF IsOpen, StackIn
      <4>. QED  BY <1>1, <1>9, <4>3 DEF In
    <3>. QED  BY <3>2, <3>3 DEF FieldsIn
  <2>3. CASE color[o] = "gray"
    <3>1. Visited(o) /\ o \in Reached /\ o \in GrayOnes
      BY <1>11, <2>1, <2>3 DEF GrayOnes, Reached
    <3>2. CASE o \in Tables
      BY <1>13, <3>1, <3>2
    <3>3. CASE o \in Threads
      <4>1. StackIn(o, Reached) /\ stale[o] = Nil
        BY <1>12, <3>1, <3>3
      <4>2. StackIn(o, Reached)'
        BY <1>8, <1>9, <3>3, <4>1, ShrunkIn
      <4>. QED  BY <1>1, <3>3, <4>1, <4>2, OneKind, Kinds DEF FieldsIn, BaseIn, In
    <3>. QED  BY <3>1, <3>2, <3>3 DEF Visited
  <2>4. CASE color[o] \notin {"gray", "black"}
    <3>1. o \in Strings
      BY <1>7, <2>1, <2>4 DEF Reached
    <3>. QED  BY <3>1, OneKind DEF FieldsIn, BaseIn
  <2>. QED  BY <2>2, <2>3, <2>4
<1>. QED  BY <1>4, <1>7, <1>8, <1>9, <1>10, <1>12, <1>14

(* After the flip what is not reached carries the old white, and nothing   *)
(* that is reached refers to it.                                           *)
LEMMA AtomicFinishSafe ==
  ASSUME TypeOK, TypeOK', SafetyInv, AtomicFinish PROVE SafetyInv'
<1>1. /\ atom.pc = "eph2" /\ strcache' = {s \in strcache : color'[s] \notin Whites}
      /\ currentwhite' = otherwhite /\ atom' = [Idle EXCEPT !.pc = "enter"]
      /\ UNCHANGED <<finbit, allgc, sweepgc, unswept, mt, val, basemt, clp, upv, stk,
                     running, resumer, cstack, finobj, tobefnz, gcstate, gray, grayagain, weak,
                     ephemeron, allweak, uv, twups>>
  BY DEF AtomicFinish, Converged, quietVars, grayVars, sweepVars
<1>2. /\ atom'.pc = "enter" /\ atom'.again = {} /\ atom'.eph = {}
  BY <1>1 DEF Idle
<1>3. gcstate = "insideatomic" /\ (TopIs("step") \/ TopIs("full"))
  BY <1>1 DEF SafetyInv, PhasesOK
<1>4. /\ Marking /\ Remarking /\ ~keepinvariant' /\ ~Remarking' /\ ~Marking' /\ ~Resting'
      /\ ~issweepphase /\ ~issweepphase' /\ ~Atomically'
  BY <1>1, <1>2, <1>3 DEF Marking, Remarking, keepinvariant, Resting, issweepphase, SweepStates, Atomically
<1>5. /\ Shrunk
      /\ \A x \in Obj : color'[x] = color[x] \/ (x \in Strings /\ color[x] \in Whites /\ color'[x] = "black")
      /\ \A x \in Obj : color[x] # otherwhite
      /\ Reached \subseteq Reached'
      /\ \A x \in NotDead : color'[x] \notin Whites => x \in Reached'
      /\ \A o \in Reached' : FieldsIn(o, Reached)'
      /\ \A th \in Threads : th \in Reached =>
           /\ StackIn(th, Reached)
           /\ (\E u \in UpVals : uv[u].th = th) => th \in twups
  BY ReachedClosed
<1>6. /\ \A x \in Obj : color'[x] = "free" <=> color[x] = "free"
      /\ \A x \in Threads : color'[x] = color[x]
      /\ \A x \in Leaves : color[x] # "gray" => color'[x] # "gray"
      /\ \A x \in Obj : x \notin Strings => color'[x] = color[x]
  BY <1>5, ColorFacts, OneKind, Kinds
<1>7. NotDead' = Reached' /\ Alloc' = Alloc
  <2>1. otherwhite' = currentwhite
    BY <1>1 DEF otherwhite, TypeOK, PhaseOK, Whites
  <2>2. ASSUME NEW x \in Obj
        PROVE  color'[x] # "free" /\ color'[x] # otherwhite' <=> color'[x] \in {"gray", "black"}
    BY <1>5, <2>1, ColorFacts, ColorFactsNext DEF Colors
  <2>. QED  BY <1>6, <2>2, ColorFacts, ColorFactsNext DEF Reached
<1>8. MainThread \in Reached /\ tobefnz \subseteq Reached /\ {running, Registry} \subseteq Reached
      /\ In(basemt, Reached) /\ twups \subseteq Reached
  BY <1>1, <1>4 DEF SafetyInv, RootsOK
<1>9. KeptOK'
  <2>1. strcache' \subseteq Reached'
    BY <1>1, <1>5 DEF SafetyInv, KeptOK
  <2>2. \A o \in Reached' : FieldsIn(o, NotDead)'
    BY <1>5, <1>7 DEF FieldsIn, BaseIn, KeysIn, ValuesIn, StackIn
  <2>3. In(basemt', NotDead')
    BY <1>1, <1>5, <1>7, <1>8 DEF In
  <2>. QED  BY <1>1, <1>5, <1>7, <1>8, <2>1, <2>2, <2>3 DEF KeptOK
<1>19. KindsOK'
  BY <1>6, <1>5 DEF SafetyInv, KindsOK
<1>10. FreeOK'
  <2>. SUFFICES ASSUME NEW o \in Obj, color'[o] = "free"
                PROVE  /\ BaseIn(o, {})'
                       /\ o \in LClosures => upv'[o] = Nil
                       /\ \A u \in UpVals : uv'[u].th # o
    BY DEF FreeOK
  <2>1. BaseIn(o, {}) /\ (o \in LClosures => upv[o] = Nil) /\ \A u \in UpVals : uv[u].th # o
    BY <1>6 DEF SafetyInv, FreeOK
  <2>2. BaseIn(o, {})'
    BY <1>5, <2>1, ShrunkIn
  <2>. QED  BY <1>1, <2>1, <2>2
<1>11. ClosuresOK' /\ MetasOK'
  BY <1>1, <1>6, Kinds DEF SafetyInv, ClosuresOK, MetasOK
<1>12. WhitesOK' /\ BlackOK' /\ GrayIdleOK' /\ GrayAtomicOK' /\ RootsOK' /\ ConvergenceOK'
  BY <1>2, <1>4 DEF WhitesOK, BlackOK, GrayIdleOK, GrayAtomicOK, RootsOK, ConvergenceOK, Marking
<1>13. ListsPartition'
  BY <1>1, <1>7 DEF SafetyInv, ListsPartition
<1>14. TwupsOK'
  <2>. SUFFICES ASSUME NEW u \in UpVals, uv[u].th \in Threads, uv[u].th \in Reached'
                PROVE  uv[u].th \in twups
    BY <1>1, <1>7 DEF TwupsOK, IsOpen
  <2>1. uv[u].th \in Reached
    BY <1>6, Kinds DEF Reached
  <2>. QED  BY <1>5, <2>1
<1>15. ThreadsOK'
  <2>. DEFINE R == {th \in Threads : th \in Reached}
  <2>1. /\ MainThread \in R
        /\ \A th \in Threads : resumer[th] \in R => th \in R
    <3>1. MainThread \in R
      BY <1>8, Kinds
    <3>2. ASSUME NEW th \in Threads, resumer[th] \in R PROVE th \in R
      <4>1. resumer[th] # Nil
        BY <3>2, Kinds
      <4>2. th \in stk[resumer[th]]
        BY <4>1 DEF SafetyInv, ThreadsOK
      <4>. QED  BY <1>5, <3>2, <4>2 DEF StackIn
    <3>. QED  BY <3>1, <3>2
  <2>2. \A th \in Threads : Active(th) => th \in R
    <3>1. R \in SUBSET Threads
      OBVIOUS
    <3>2. \A Q \in SUBSET Threads :
            (MainThread \in Q /\ \A th \in Threads : resumer[th] \in Q => th \in Q)
              => \A th \in Threads : Active(th) => th \in Q
      BY DEF SafetyInv, ThreadsOK
    <3>. HIDE DEF R
    <3>. QED  BY <2>1, <3>1, <3>2
  <2>3. \A th \in Threads : Active(th)' => th \in NotDead'
    BY <1>1, <1>5, <1>7, <2>2 DEF Active
  <2>. QED  BY <1>1, <2>3 DEF SafetyInv, ThreadsOK, Active
<1>16. FramesOK'
  BY <1>1, <1>5, MarkFrames
<1>17. PhasesOK'
  BY <1>1, <1>2, <1>3 DEF PhasesOK, TopIs, Top
<1>18. SweepOK2'
  BY <1>1, <1>4 DEF SafetyInv, SweepOK2, issweepphase, SweepStates
<1>. QED  BY <1>9, <1>19, <1>10, <1>11, <1>12, <1>13, <1>14, <1>15, <1>16, <1>17, <1>18 DEF SafetyInv

(***************************************************************************)
(* The sweep phase.                                                        *)
(***************************************************************************)
(* The colours after a batch C of a list has been swept.                   *)
LEMMA SweptFacts ==
  ASSUME TypeOK, TypeOK', NEW C \in SUBSET Obj, C \subseteq Alloc, color' = Swept(C, color),
         UNCHANGED currentwhite
  PROVE  /\ Dead(C) \subseteq C /\ Dead(C) \intersect NotDead = {} /\ C \ Dead(C) \subseteq NotDead
         /\ \A x \in Dead(C) : IsDead(x)
         /\ \A x \in Obj : color'[x] = IF x \in Dead(C) THEN "free"
                                       ELSE IF x \in C THEN currentwhite ELSE color[x]
         /\ NotDead' = NotDead /\ Alloc' = Alloc \ Dead(C)
<1>1. /\ Dead(C) \subseteq C /\ \A x \in Dead(C) : color[x] = otherwhite /\ IsDead(x)
      /\ \A x \in C \ Dead(C) : color[x] # otherwhite
  BY DEF Dead, IsDead
<1>2. \A x \in Obj : color'[x] = IF x \in Dead(C) THEN "free"
                                 ELSE IF x \in C THEN currentwhite ELSE color[x]
  BY DEF Swept
<1>3. otherwhite' = otherwhite
  BY DEF otherwhite
<1>4. \A x \in C : color[x] # "free"
  BY ColorFacts
<1>5. NotDead' = NotDead /\ Alloc' = Alloc \ Dead(C)
  BY <1>1, <1>2, <1>3, <1>4, ColorFacts, ColorFactsNext, SMTT(40)
<1>6. Dead(C) \intersect NotDead = {} /\ C \ Dead(C) \subseteq NotDead
  BY <1>1, <1>4, ColorFacts
<1>. QED  BY <1>1, <1>2, <1>5, <1>6

(* A batch of a list is swept: what is left to be shown is about the list. *)
LEMMA BatchSafe ==
  ASSUME TypeOK, TypeOK', SafetyInv, NEW C \in SUBSET Obj, C \subseteq Alloc, MainThread \notin C,
         color' = Swept(C, color), mt' = Erase(Dead(C), mt, Nil), Collect(C),
         UNCHANGED <<currentwhite, basemt, running, resumer, twups, strcache>>,
         cstack' \in {cstack, Pushed(StepFrame)},
         gcstate # "insideatomic" \/ atom.pc = "enter",
         issweepphase', Idling', PhasesOK', SweepOK2'
  PROVE  SafetyInv'
<1>. DEFINE D == Dead(C)
<1>1. /\ D \subseteq C /\ D \intersect NotDead = {} /\ C \ D \subseteq NotDead
      /\ \A x \in D : IsDead(x)
      /\ \A x \in Obj : color'[x] = IF x \in D THEN "free"
                                    ELSE IF x \in C THEN currentwhite ELSE color[x]
      /\ NotDead' = NotDead /\ Alloc' = Alloc \ D
  BY SweptFacts
<1>2. /\ Free(D) /\ allgc' = allgc \ D /\ finobj' = finobj \ D /\ tobefnz' = tobefnz \ D
      /\ finbit' = finbit \ D
  BY DEF Collect
<1>3. \A x \in Tables \union Udatas : mt'[x] = IF x \in D THEN Nil ELSE mt[x]
  BY DEF Erase, TypeOK, RefsOK
<1>. HIDE DEF D
<1>4. FramesOK'
  <2>1. ASSUME NEW th \in Threads, Active(th) PROVE Active(th)' /\ stk[th] \subseteq stk'[th]
    <3>1. th \in NotDead
      BY <2>1 DEF SafetyInv, ThreadsOK
    <3>2. th \notin D /\ D \in SUBSET Obj
      BY <1>1, <3>1
    <3>. QED  BY <1>2, <2>1, <3>2, FreedRefs DEF Active
  <2>2. FramesOK /\ StepFrame.kind # "fin"
    BY DEF SafetyInv, StepFrame
  <2>. QED  BY <2>1, <2>2, FramesGrow DEF Pushed
<1>5. ListsPartition'
  <2>1. ListsPartition
    BY DEF SafetyInv
  <2>2. MainThread \notin D
    BY <1>1
  <2>. QED  BY <1>1, <1>2, <2>1, <2>2 DEF ListsPartition
<1>6. finobj' \union tobefnz' \subseteq Tables \union Udatas
  BY <1>2 DEF SafetyInv, MetasOK
<1>7. \A x \in Obj \ D : color'[x] = color[x] \/ (x \in NotDead /\ color'[x] = currentwhite)
  BY <1>1
<1>8. D \in SUBSET Obj /\ (\A x \in D : color'[x] = "free") /\ tobefnz' \subseteq tobefnz
  BY <1>1, <1>2
<1>. QED  BY <1>1, <1>2, <1>3, <1>4, <1>5, <1>6, <1>7, <1>8, SweepSafe

(* Where the sweep pointer goes in a list: p before, q after the batch C   *)
(* of S, which is the rest of the list.                                    *)
LEMMA AdvanceFacts ==
  ASSUME TypeOK, NEW list \in SUBSET Obj, NEW S \in SUBSET list, NEW C \in SUBSET S,
         C \ Dead(C) \subseteq NotDead,
         NEW name \in {"allgc", "finobj"}, NEW p \in {name} \union (list \intersect NotDead),
         p \in Obj => p \notin S,
         NEW q \in AfterSweep(C, S, p)
  PROVE  /\ q = "NULL" <=> C = S
         /\ q \in {name, "NULL"} \union ((list \ Dead(C)) \intersect NotDead)
         /\ q = name => p = name
         /\ (IF q \in Obj THEN S \ C ELSE {}) \subseteq
              IF q \in Obj THEN (list \ Dead(C)) \ {q} ELSE {}
<1>0. "NULL" \notin Obj /\ name \notin Obj /\ name # "NULL"
  BY Kinds
<1>1. Dead(C) \subseteq C /\ Dead(C) \intersect NotDead = {}
  BY DEF Dead, NotDead
<1>2. CASE C = S
  <2>1. q = "NULL"
    BY <1>2 DEF AfterSweep
  <2>. QED  BY <1>0, <1>2, <2>1
<1>3. CASE C # S /\ C = Dead(C)
  <2>1. q = p
    BY <1>3 DEF AfterSweep
  <2>. QED  BY <1>0, <1>1, <1>3, <2>1
<1>4. CASE C # S /\ C # Dead(C)
  <2>1. q \in C \ Dead(C)
    BY <1>4 DEF AfterSweep
  <2>. QED  BY <1>0, <1>1, <1>4, <2>1
<1>. QED  BY <1>2, <1>3, <1>4

(* entersweep.                                                             *)
LEMMA EnterSweepSafe ==
  ASSUME TypeOK, TypeOK', SafetyInv, EnterSweep PROVE SafetyInv'
<1>1. PICK C \in Batch(allgc, 1) :
        /\ Advance(C, allgc, "allgc")
        /\ color' = Swept(C, color)
        /\ mt' = Erase(Dead(C), mt, Nil)
        /\ Collect(C)
  BY DEF EnterSweep
<1>2. /\ atom.pc = "enter" /\ gcstate' = "swpallgc" /\ atom' = Idle
      /\ UNCHANGED <<currentwhite, basemt, running, resumer, twups, strcache, cstack>>
  BY DEF EnterSweep
<1>. DEFINE D == Dead(C)
<1>3. ListsPartition /\ MainThread \in NotDead
  BY DEF SafetyInv, KeptOK
<1>4. /\ C \subseteq allgc /\ C \subseteq Alloc /\ C \subseteq Obj /\ MainThread \notin C
      /\ allgc \in SUBSET Obj
  BY <1>1, <1>3, ColorFacts DEF Batch, ListsPartition
<1>5. /\ D \subseteq C /\ D \intersect NotDead = {} /\ C \ D \subseteq NotDead
      /\ \A x \in Obj : color'[x] = IF x \in D THEN "free"
                                    ELSE IF x \in C THEN currentwhite ELSE color[x]
      /\ NotDead' = NotDead /\ Alloc' = Alloc \ D
  BY <1>1, <1>2, <1>4, SweptFacts
<1>6. allgc' = allgc \ D /\ finobj' = finobj \ D /\ tobefnz' = tobefnz \ D
  BY <1>1 DEF Collect
<1>7. /\ sweepgc' = "NULL" <=> C = allgc
      /\ sweepgc' \in {"allgc", "NULL"} \union ((allgc \ D) \intersect NotDead)
      /\ (IF sweepgc' \in Obj THEN allgc \ C ELSE {}) \subseteq
           IF sweepgc' \in Obj THEN (allgc \ D) \ {sweepgc'} ELSE {}
      /\ unswept' = IF sweepgc' \in Obj THEN allgc \ C ELSE {}
  <2>1. sweepgc' \in AfterSweep(C, allgc, "allgc")
        /\ unswept' = IF sweepgc' \in Obj THEN allgc \ C ELSE {}
    BY <1>1 DEF Advance
  <2>2. "allgc" \notin Obj
    BY Kinds
  <2>. QED  BY <1>4, <1>5, <2>1, <2>2, AdvanceFacts
<1>8. /\ issweepphase' /\ Idling' /\ PhasesOK' /\ (gcstate # "insideatomic" \/ atom.pc = "enter")
  BY <1>2 DEF issweepphase, SweepStates, Idling, Idle, PhasesOK
<1>9. SweepOK2'
  <2>. HIDE DEF D
  <2>1. SweepListOK("allgc", allgc)'
    BY <1>5, <1>6, <1>7 DEF SweepListOK
  <2>2. ASSUME NEW x \in Obj
        PROVE  color'[x] \in {"free", currentwhite} \/ x \in Ahead' \union {MainThread}
    <3>1. CASE x \in C \/ x \notin Alloc
      BY <1>4, <1>5, <3>1, ColorFacts
    <3>2. CASE x \in finobj' \union tobefnz' \/ x = MainThread
      BY <1>2, <3>2 DEF Ahead
    <3>3. CASE x \in allgc \ C
      <4>1. C # allgc /\ x \in allgc'
        BY <1>5, <1>6, <3>3
      <4>2. sweepgc' \in Obj => sweepgc' \notin {"allgc", "finobj", "tobefnz"}
        BY Kinds
      <4>3. sweepgc' = "allgc" \/ sweepgc' \in Obj
        <5>1. sweepgc' # "NULL"
          BY <1>7, <4>1
        <5>. QED  BY <1>4, <1>7, <5>1
      <4>4. CASE sweepgc' = "allgc"
        <5>1. ToSweep' = allgc'
          BY <4>4 DEF ToSweep
        <5>. QED  BY <1>2, <4>1, <5>1 DEF Ahead
      <4>5. CASE sweepgc' \in Obj
        <5>1. ToSweep' = unswept' /\ unswept' = allgc \ C
          BY <1>7, <4>2, <4>5 DEF ToSweep
        <5>. QED  BY <1>2, <3>3, <5>1 DEF Ahead
      <4>. QED  BY <4>3, <4>4, <4>5
    <3>. QED  BY <1>3, <1>5, <1>6, <3>1, <3>2, <3>3 DEF ListsPartition
  <2>. QED  BY <1>2, <2>1, <2>2 DEF SweepOK2, issweepphase, SweepStates
<1>. QED  BY <1>1, <1>2, <1>4, <1>8, <1>9, BatchSafe

(* A batch from a list of at most as many elements is the whole list.      *)
LEMMA WholeBatch ==
  ASSUME NEW S, IsFiniteSet(S), Cardinality(S) <= GCSWEEPMAX, NEW C \in Batch(S, GCSWEEPMAX)
  PROVE  C = S
<1>1. C \in SUBSET S /\ (Cardinality(C) = GCSWEEPMAX \/ C = S)
  BY DEF Batch
<1>2. /\ Cardinality(C) <= Cardinality(S) /\ (Cardinality(S) = Cardinality(C) => S = C)
      /\ Cardinality(S) \in Nat /\ Cardinality(C) \in Nat
  BY <1>1, FS_Subset, FS_CardinalityType
<1>3. GCSWEEPMAX \in Nat
  BY ParametersAssumption
<1>4. Cardinality(C) = GCSWEEPMAX => Cardinality(S) = Cardinality(C)
  BY <1>2, <1>3
<1>. QED  BY <1>1, <1>2, <1>4

(* sweepstep, if tobefnz is swept in one step.                             *)
LEMMA SweepStepSafe ==
  ASSUME TypeOK, TypeOK', SafetyInv, FewPending, SweepStep PROVE SafetyInv'
<1>1. PICK C \in Batch(ToSweep, GCSWEEPMAX) :
        /\ \E p \in IF sweepgc = "NULL" THEN {"NULL"} ELSE AfterSweep(C, ToSweep, sweepgc) :
             /\ gcstate' = IF p = "NULL" THEN NextSweep(gcstate)[1] ELSE gcstate
             /\ sweepgc' = IF p = "NULL" THEN NextSweep(gcstate)[2] ELSE p
        /\ unswept' = IF sweepgc' \in Obj THEN ToSweep \ C ELSE {}
        /\ color' = Swept(C, color)
        /\ mt' = Erase(Dead(C), mt, Nil)
        /\ Collect(C)
  BY DEF SweepStep
<1>2. PICK p \in IF sweepgc = "NULL" THEN {"NULL"} ELSE AfterSweep(C, ToSweep, sweepgc) :
        /\ gcstate' = IF p = "NULL" THEN NextSweep(gcstate)[1] ELSE gcstate
        /\ sweepgc' = IF p = "NULL" THEN NextSweep(gcstate)[2] ELSE p
  BY <1>1
<1>3. /\ gcstate \in {"swpallgc", "swpfinobj", "swptobefnz"} /\ Idling
      /\ cstack' \in {cstack, Pushed(StepFrame)}
      /\ UNCHANGED <<currentwhite, gcfinnum, atom, grayVars, basemt, running, resumer, twups, strcache>>
  BY DEF SweepStep, SingleStep
<1>4. issweepphase /\ SweepOK2 /\ ListsPartition /\ MainThread \in NotDead
  BY <1>3 DEF issweepphase, SweepStates, SafetyInv, KeptOK
<1>. DEFINE D    == Dead(C)
            S    == ToSweep
            name == IF gcstate = "swpallgc" THEN "allgc" ELSE "finobj"
            list == IF gcstate = "swpallgc" THEN allgc ELSE finobj
<1>5. gcstate # "swptobefnz" => SweepListOK(name, list)
  BY <1>3, <1>4 DEF SweepOK2
<1>6. gcstate = "swptobefnz" => sweepgc = "tobefnz" /\ S = tobefnz
  BY <1>4, Kinds DEF SweepOK2, ToSweep
<1>7. /\ "allgc" \notin Obj /\ "finobj" \notin Obj /\ "tobefnz" \notin Obj /\ "NULL" \notin Obj
      /\ allgc \subseteq Obj /\ finobj \subseteq Obj /\ tobefnz \subseteq Obj
  BY Kinds DEF TypeOK, ListsOK
<1>8. gcstate # "swptobefnz" =>
        /\ S \in SUBSET list /\ list \in SUBSET Obj
        /\ sweepgc = "NULL" => S = {}
        /\ sweepgc # "NULL" => sweepgc \in {name} \union (list \intersect NotDead)
        /\ sweepgc \in Obj => sweepgc \notin S
        /\ sweepgc = name => S = list
  BY <1>3, <1>5, <1>7 DEF SweepListOK, ToSweep
<1>9. C \subseteq S /\ S \subseteq Alloc /\ S \subseteq Obj /\ MainThread \notin S
  <2>1. C \subseteq S
    BY <1>1 DEF Batch
  <2>2. S \subseteq allgc \union finobj \union tobefnz
    BY <1>6, <1>8
  <2>. HIDE DEF S
  <2>. QED  BY <1>4, <2>1, <2>2, ColorFacts DEF ListsPartition
<1>10. /\ D \subseteq C /\ D \intersect NotDead = {} /\ C \ D \subseteq NotDead
       /\ \A x \in Obj : color'[x] = IF x \in D THEN "free"
                                     ELSE IF x \in C THEN currentwhite ELSE color[x]
       /\ NotDead' = NotDead /\ Alloc' = Alloc \ D
  BY <1>1, <1>3, <1>9, SweptFacts
<1>11. /\ allgc' = allgc \ D /\ finobj' = finobj \ D /\ tobefnz' = tobefnz \ D
       /\ unswept' = IF sweepgc' \in Obj THEN S \ C ELSE {}
  BY <1>1 DEF Collect
<1>12. gcstate # "swptobefnz" =>
         /\ p = "NULL" <=> C = S
         /\ p \in {name, "NULL"} \union ((list \ D) \intersect NotDead)
         /\ p = name => sweepgc = name
         /\ (IF p \in Obj THEN S \ C ELSE {}) \subseteq IF p \in Obj THEN (list \ D) \ {p} ELSE {}
  <2>. SUFFICES ASSUME gcstate # "swptobefnz"
                PROVE  /\ p = "NULL" <=> C = S
                       /\ p \in {name, "NULL"} \union ((list \ D) \intersect NotDead)
                       /\ p = name => sweepgc = name
                       /\ (IF p \in Obj THEN S \ C ELSE {})
                            \subseteq IF p \in Obj THEN (list \ D) \ {p} ELSE {}
    OBVIOUS
  <2>1. CASE sweepgc = "NULL"
    BY <1>2, <1>7, <1>8, <1>9, <2>1
  <2>2. CASE sweepgc # "NULL"
    <3>1. p \in AfterSweep(C, S, sweepgc)
      BY <1>2, <2>2
    <3>2. name \in {"allgc", "finobj"}
      OBVIOUS
    <3>3. /\ list \in SUBSET Obj /\ S \in SUBSET list /\ C \in SUBSET S
          /\ sweepgc \in {name} \union (list \intersect NotDead)
          /\ sweepgc \in Obj => sweepgc \notin S
      BY <1>8, <1>9, <2>2
    <3>4. C \ Dead(C) \subseteq NotDead
      BY <1>10
    <3>. HIDE DEF S, list, name
    <3>. QED  BY <3>1, <3>2, <3>3, <3>4, AdvanceFacts
  <2>. QED  BY <2>1, <2>2
<1>13. gcstate = "swptobefnz" => p = "NULL" /\ C = S
  <2>. SUFFICES ASSUME gcstate = "swptobefnz" PROVE p = "NULL" /\ C = S
    OBVIOUS
  <2>1. IsFiniteSet(tobefnz)
    BY <1>7, ObjFinite, FS_Subset
  <2>2. C = S
    BY <1>1, <1>6, <2>1, WholeBatch DEF FewPending
  <2>. QED  BY <1>2, <1>6, <2>2 DEF AfterSweep
<1>14. gcstate' = IF p # "NULL" THEN gcstate
                  ELSE IF gcstate = "swpallgc" THEN "swpfinobj"
                  ELSE IF gcstate = "swpfinobj" THEN "swptobefnz" ELSE "swpend"
  BY <1>2, <1>3 DEF NextSweep
<1>15. sweepgc' = IF p # "NULL" THEN p
                  ELSE IF gcstate = "swpallgc" THEN "finobj"
                  ELSE IF gcstate = "swpfinobj" THEN "tobefnz" ELSE "NULL"
  BY <1>2, <1>3 DEF NextSweep
<1>16. /\ issweepphase' /\ Idling' /\ PhasesOK' /\ (gcstate # "insideatomic" \/ atom.pc = "enter")
  <2>1. PhasesOK /\ atom.pc = "idle" /\ atom' = atom
    BY <1>3 DEF SafetyInv, Idling
  <2>2. gcstate' \in SweepStates /\ gcstate' # "insideatomic" /\ gcstate # "insideatomic"
    BY <1>3, <1>14 DEF SweepStates
  <2>. QED  BY <2>1, <2>2 DEF issweepphase, Idling, PhasesOK
<1>. HIDE DEF D
<1>17. CASE p # "NULL"
  <2>1. gcstate' = gcstate /\ sweepgc' = p /\ gcstate # "swptobefnz"
    BY <1>13, <1>14, <1>15, <1>17
  <2>2. p \in {name} \union ((list \ D) \intersect NotDead)
    BY <1>12, <1>17, <2>1
  <2>3. unswept' \subseteq IF p \in Obj THEN (list \ D) \ {p} ELSE {}
    BY <1>11, <1>12, <2>1
  <2>4. gcstate = "swpallgc" => SweepListOK("allgc", allgc)'
    BY <1>10, <1>11, <2>1, <2>2, <2>3 DEF SweepListOK
  <2>5. gcstate = "swpfinobj" => SweepListOK("finobj", finobj)'
    BY <1>10, <1>11, <2>1, <2>2, <2>3 DEF SweepListOK
  <2>6. S \ C \subseteq ToSweep'
    <3>1. p \in Obj => ToSweep' = S \ C
      BY <1>7, <1>11, <2>1 DEF ToSweep
    <3>2. p = name => ToSweep' = list \ D
      BY <1>3, <1>11, <2>1 DEF ToSweep
    <3>3. S \subseteq list
      BY <1>8, <2>1
    <3>4. p = name \/ p \in Obj
      BY <1>7, <2>2
    <3>. HIDE DEF S, list, name
    <3>5. CASE p = name
      BY <1>10, <3>2, <3>3, <3>5
    <3>6. CASE p \in Obj
      BY <3>1, <3>6
    <3>. QED  BY <3>4, <3>5, <3>6
  <2>7. ASSUME NEW x \in Obj
        PROVE  color'[x] \in {"free", currentwhite} \/ x \in Ahead' \union {MainThread}
    <3>1. color[x] \in {"free", currentwhite} \/ x \in Ahead \union {MainThread}
      BY <1>4 DEF SweepOK2
    <3>2. CASE x \in C
      BY <1>10, <3>2
    <3>3. CASE x \notin C
      <4>1. color'[x] = color[x] /\ x \notin D
        BY <1>10, <3>3
      <4>2. x \in Ahead => x \in Ahead'
        BY <1>3, <1>11, <2>1, <2>6, <3>3, <4>1 DEF Ahead
      <4>. QED  BY <3>1, <4>1, <4>2
    <3>. QED  BY <3>2, <3>3
  <2>8. SweepOK2'
    BY <1>3, <1>16, <2>1, <2>4, <2>5, <2>7 DEF SweepOK2
  <2>. QED  BY <1>1, <1>3, <1>9, <1>16, <2>8, BatchSafe
<1>18. CASE p = "NULL"
  <2>1. C = S
    BY <1>12, <1>13, <1>18
  <2>2. /\ gcstate' = IF gcstate = "swpallgc" THEN "swpfinobj"
                      ELSE IF gcstate = "swpfinobj" THEN "swptobefnz" ELSE "swpend"
        /\ sweepgc' = IF gcstate = "swpallgc" THEN "finobj"
                      ELSE IF gcstate = "swpfinobj" THEN "tobefnz" ELSE "NULL"
        /\ unswept' = {}
    BY <1>7, <1>11, <1>14, <1>15, <1>18
  <2>3. gcstate' = "swpfinobj" => SweepListOK("finobj", finobj)'
    BY <1>3, <2>2, <1>7 DEF SweepListOK
  <2>4. ASSUME NEW x \in Obj
        PROVE  color'[x] \in {"free", currentwhite} \/ x \in Ahead' \union {MainThread}
    <3>1. color[x] \in {"free", currentwhite} \/ x \in Ahead \union {MainThread}
      BY <1>4 DEF SweepOK2
    <3>2. CASE x \in C
      BY <1>10, <3>2
    <3>3. CASE x \notin C
      <4>1. color'[x] = color[x] /\ x \notin D
        BY <1>10, <3>3
      <4>2. x \in Ahead => x \in Ahead'
        <5>1. x \notin ToSweep
          BY <2>1, <3>3
        <5>2. CASE gcstate = "swpallgc"
          <6>1. Ahead = ToSweep \union finobj \union tobefnz
            BY <5>2 DEF Ahead
          <6>2. Ahead' = finobj' \union tobefnz'
            BY <2>2, <5>2 DEF Ahead, ToSweep
          <6>. QED  BY <1>11, <4>1, <5>1, <6>1, <6>2
        <5>3. CASE gcstate = "swpfinobj"
          <6>1. Ahead = ToSweep \union tobefnz
            BY <5>3 DEF Ahead
          <6>2. Ahead' = tobefnz'
            BY <2>2, <5>3 DEF Ahead, ToSweep
          <6>. QED  BY <1>11, <4>1, <5>1, <6>1, <6>2
        <5>4. CASE gcstate = "swptobefnz"
          <6>1. Ahead = ToSweep
            BY <5>4 DEF Ahead
          <6>. QED  BY <5>1, <6>1
        <5>. QED  BY <1>3, <5>2, <5>3, <5>4
      <4>. QED  BY <3>1, <4>1, <4>2
    <3>. QED  BY <3>2, <3>3
  <2>5. SweepOK2'
    BY <1>3, <1>16, <2>2, <2>3, <2>4 DEF SweepOK2
  <2>. QED  BY <1>1, <1>3, <1>9, <1>16, <2>5, BatchSafe
<1>. QED  BY <1>17, <1>18

(***************************************************************************)
(* Between the single steps.                                               *)
(***************************************************************************)
(* What happens there: an object returns from tobefnz to allgc, stacks     *)
(* grow, objects turn white outside the mark phase.                        *)
LEMMA ControlSafe ==
  ASSUME TypeOK, TypeOK', SafetyInv, Idling,
         UNCHANGED <<currentwhite, finobj, grayVars, refVars, funcVars, running, resumer, twups,
                     strcache>>,
         tobefnz' \subseteq tobefnz,
         \A x \in Obj : \/ color'[x] = color[x]
                        \/ x \in NotDead /\ color'[x] = currentwhite /\ ~keepinvariant,
         keepinvariant' => keepinvariant, gcstate' # "insideatomic", atom'.pc \in {"idle", "enter"},
         \A th \in Threads :
           \/ stk'[th] = stk[th] /\ stale'[th] = stale[th]
           \/ /\ th \in NotDead /\ stk[th] \subseteq stk'[th]
              /\ stk'[th] \subseteq NotDead /\ In(stale'[th], NotDead),
         PhasesOK', WhitesOK', FramesOK', SweepOK2', Alloc' = Alloc => ListsPartition'
  PROVE  SafetyInv'
<1>1. gcstate # "insideatomic" /\ ~Remarking /\ ~Remarking'
  BY DEF SafetyInv, PhasesOK, Idling, Remarking
<1>2. NotDead' = NotDead /\ Alloc' = Alloc /\ NotDead \subseteq Obj
      /\ \A x \in Obj : color'[x] = "free" <=> color[x] = "free"
  <2>1. otherwhite' = otherwhite
    BY DEF otherwhite
  <2>2. \A x \in NotDead : color[x] # "free" /\ color[x] # otherwhite
    BY ColorFacts
  <2>3. currentwhite # "free" /\ currentwhite # otherwhite
    BY ColorFacts
  <2>4. \A x \in Obj : /\ color'[x] = "free" <=> color[x] = "free"
                       /\ color'[x] = otherwhite <=> color[x] = otherwhite
    BY <2>2, <2>3
  <2>5. /\ NotDead = {x \in Obj : color[x] # "free" /\ color[x] # otherwhite}
        /\ Alloc = {x \in Obj : color[x] # "free"} /\ NotDead \subseteq Obj
    BY ColorFacts
  <2>6. /\ NotDead' = {x \in Obj : color'[x] # "free" /\ color'[x] # otherwhite}
        /\ Alloc' = {x \in Obj : color'[x] # "free"}
    BY <2>1, ColorFactsNext
  <2>7. \A x : (x \in NotDead' <=> x \in NotDead) /\ (x \in Alloc' <=> x \in Alloc)
    <3>. HIDE DEF NotDead, Alloc
    <3>. QED  BY <2>4, <2>5, <2>6
  <2>8. NotDead' = NotDead
    BY <2>7
  <2>9. Alloc' = Alloc
    BY <2>7
  <2>. QED  BY <2>4, <2>5, <2>8, <2>9
<1>3. keepinvariant' => color' = color /\ GrayOnes' = GrayOnes /\ Reached' = Reached
  <2>. SUFFICES ASSUME keepinvariant'
                PROVE  color' = color /\ GrayOnes' = GrayOnes /\ Reached' = Reached
    OBVIOUS
  <2>1. color' = color
    BY DEF TypeOK, ListsOK
  <2>. QED  BY <2>1 DEF GrayOnes, Reached
<1>4. ASSUME NEW o \in Obj, NEW S, BaseIn(o, S), o \in Threads => S = NotDead \/ o \notin NotDead
      PROVE  /\ o \in Tables => (In(mt[o], S) /\ KeysIn(o, S) /\ ValuesIn(o, S))'
             /\ BaseIn(o, S)'
  <2>1. /\ o \in Tables => (In(mt[o], S) /\ KeysIn(o, S) /\ ValuesIn(o, S))'
        /\ o \in Udatas => (In(mt[o], S) /\ In(val[o], S))'
        /\ o \in CClosures => In(val[o], S)'
        /\ o \in LClosures => In(clp[o], S)'
        /\ o \in Protos => In(cache[o], S)'
    BY <1>4 DEF BaseIn, In, KeysIn, ValuesIn, refVars, funcVars
  <2>2. o \in Threads => (StackIn(o, S) /\ In(stale[o], S))'
    <3>. SUFFICES ASSUME o \in Threads PROVE (StackIn(o, S) /\ In(stale[o], S))'
      OBVIOUS
    <3>1. StackIn(o, S) /\ In(stale[o], S)
      BY <1>4 DEF BaseIn
    <3>2. stk'[o] \subseteq S /\ In(stale'[o], S)
      BY <1>4, <3>1 DEF StackIn
    <3>. QED  BY <3>1, <3>2 DEF StackIn, In, funcVars
  <2>. QED  BY <2>1, <2>2 DEF BaseIn
<1>5. KeptOK'
  <2>1. ASSUME NEW o \in NotDead PROVE FieldsIn(o, NotDead)'
    <3>1. FieldsIn(o, NotDead) /\ o \in Obj
      BY <1>2 DEF SafetyInv, KeptOK
    <3>2. BaseIn(o, NotDead)'
      BY <1>2, <1>4, <3>1 DEF FieldsIn
    <3>. QED  BY <1>2, <3>1, <3>2 DEF FieldsIn, In, funcVars
  <2>. QED  BY <1>2, <2>1 DEF SafetyInv, KeptOK, In, refVars
<1>6. FreeOK'
  <2>. SUFFICES ASSUME NEW o \in Obj, color'[o] = "free"
                PROVE  /\ BaseIn(o, {})'
                       /\ o \in LClosures => upv'[o] = Nil
                       /\ \A u \in UpVals : uv'[u].th # o
    BY DEF FreeOK
  <2>1. color[o] = "free" /\ o \notin NotDead
    BY <1>2, ColorFacts
  <2>2. BaseIn(o, {}) /\ (o \in LClosures => upv[o] = Nil) /\ \A u \in UpVals : uv[u].th # o
    BY <2>1 DEF SafetyInv, FreeOK
  <2>3. BaseIn(o, {})'
    BY <1>4, <2>1, <2>2
  <2>. QED  BY <2>2, <2>3 DEF funcVars
<1>7. ClosuresOK' /\ MetasOK'
  <2>1. ClosuresOK'
    BY <1>2, Kinds DEF SafetyInv, ClosuresOK, funcVars
  <2>2. MetasOK'
    BY DEF SafetyInv, MetasOK, refVars
  <2>. QED  BY <2>1, <2>2
<1>8. KindsOK'
  BY ColorFacts DEF SafetyInv, KindsOK
<1>9. TwupsOK'
  BY <1>1, <1>2 DEF SafetyInv, TwupsOK, IsOpen, funcVars
<1>10. ThreadsOK'
  <2>1. \A th \in Threads : stk[th] \subseteq stk'[th]
    OBVIOUS
  <2>. QED  BY <1>2, <2>1, ThreadsKept DEF SafetyInv
<1>11. BlackOK'
  <2>. SUFFICES ASSUME Marking', NEW o \in Obj, color'[o] = "black"
                PROVE  BaseIn(o, Reached)' /\ (o \in LClosures => UpvalueOK(o)')
    BY DEF BlackOK
  <2>1. keepinvariant /\ keepinvariant' /\ Marking /\ color[o] = "black" /\ Reached' = Reached
    BY <1>1, <1>3 DEF Marking
  <2>2. BaseIn(o, Reached) /\ (o \in LClosures => UpvalueOK(o)) /\ o \notin Threads
    BY <2>1 DEF SafetyInv, BlackOK, KindsOK
  <2>3. BaseIn(o, Reached)'
    BY <1>4, <2>1, <2>2
  <2>4. o \in LClosures => UpvalueOK(o)'
    BY <2>1, <2>2 DEF UpvalueOK, IsOpen, In, funcVars
  <2>. QED  BY <2>3, <2>4
<1>12. GrayIdleOK'
  <2>. SUFFICES ASSUME keepinvariant', Idling' PROVE
         /\ GrayOnes' = gray' \union grayagain' \union allweak'
         /\ gray' \intersect grayagain' = {} /\ gray' \intersect allweak' = {}
         /\ grayagain' \intersect allweak' = {}
         /\ weak' = {} /\ ephemeron' = {}
         /\ \A t \in allweak' : AllWeakOK(t)'
    BY DEF GrayIdleOK
  <2>. QED  BY <1>3 DEF SafetyInv, GrayIdleOK, AllWeakOK, grayVars
<1>13. GrayAtomicOK' /\ ConvergenceOK'
  BY <1>1 DEF GrayAtomicOK, Atomically, ConvergenceOK
<1>14. RootsOK'
  BY <1>1, <1>3 DEF SafetyInv, RootsOK, Marking
<1>. QED
  BY <1>2, <1>5, <1>6, <1>7, <1>8, <1>9, <1>10, <1>11, <1>12, <1>13, <1>14 DEF SafetyInv

(* What only pushes or pops a call on the C stack, or makes the phase one  *)
(* of a pause.                                                             *)
LEMMA CallSafe ==
  ASSUME TypeOK, TypeOK', SafetyInv, Idling,
         UNCHANGED <<listVars, currentwhite, sweepVars, grayVars, refVars, funcVars, stackVars>>,
         \/ color' = color /\ gcstate' = gcstate
         \/ color' = color /\ Resting /\ Resting'
         \/ gcstate = "swpend" /\ gcstate' = "callfin"
            /\ color' = [color EXCEPT ![MainThread] = currentwhite],
         atom' = atom \/ (keepinvariant' /\ atom' = At("enter") /\ (TopIs("step") \/ TopIs("full"))'),
         \/ \E f \in {StepFrame, FullFrame(TRUE), FullFrame(FALSE)} : cstack' \in {cstack, Pushed(f)}
         \/ cstack # <<>> /\ cstack' = Dropped
  PROVE  SafetyInv'
<1>. USE DEF SafetyInv
<1>1. gcstate # "insideatomic" /\ gcstate' # "insideatomic"
  BY DEF PhasesOK, Idling, Resting
<1>2. atom'.pc \in {"idle", "enter"} /\ PhasesOK'
  <2>1. CASE atom' = atom
    BY <1>1, <2>1 DEF PhasesOK, Idling
  <2>2. CASE keepinvariant' /\ atom' = At("enter") /\ (TopIs("step") \/ TopIs("full"))'
    <3>1. atom'.pc = "enter" /\ atom'.again = atom.again /\ atom'.eph = atom.eph
      BY <2>2 DEF At, TypeOK, PhaseOK
    <3>. QED  BY <2>2, <3>1 DEF PhasesOK, keepinvariant, Idling
  <2>. QED  BY <2>1, <2>2
<1>3. /\ MainThread \in NotDead
      /\ \A x \in Obj : \/ color'[x] = color[x]
                        \/ x \in NotDead /\ color'[x] = currentwhite /\ ~keepinvariant
      /\ keepinvariant' => keepinvariant
  BY DEF KeptOK, keepinvariant, Resting, TypeOK, ListsOK
<1>4. FramesOK'
  <2>1. \A th \in Threads : Active(th) => Active(th)' /\ stk[th] \subseteq stk'[th]
    BY DEF Active, stackVars
  <2>2. CASE cstack # <<>> /\ cstack' = Dropped
    BY <2>1, <2>2, FramesFewer DEF StepFrame
  <2>3. ASSUME NEW f \in {StepFrame, FullFrame(TRUE), FullFrame(FALSE)}, cstack' \in {cstack, Pushed(f)}
        PROVE  FramesOK'
    BY <2>1, <2>3, FramesGrow DEF StepFrame, FullFrame, Pushed
  <2>. QED  BY <2>2, <2>3
<1>5. WhitesOK'
  <2>1. ASSUME Marking' PROVE \A o \in Obj : color'[o] # otherwhite'
    BY <1>1, <1>2, <1>3, <2>1 DEF WhitesOK, Marking, Remarking, keepinvariant, otherwhite
  <2>2. ASSUME Resting' PROVE \A o \in Obj : color'[o] \in {"free", currentwhite'}
    <3>1. CASE Resting /\ color' = color
      BY <3>1 DEF WhitesOK
    <3>2. CASE gcstate = "swpend" /\ color' = [color EXCEPT ![MainThread] = currentwhite]
      <4>1. \A o \in Obj : color[o] \in {"free", currentwhite} \/ o = MainThread
        BY <3>2 DEF SweepOK2, Ahead, issweepphase, SweepStates
      <4>. QED  BY <3>2, <4>1 DEF TypeOK, ListsOK
    <3>. QED  BY <2>2, <3>1, <3>2 DEF Resting
  <2>. QED  BY <2>1, <2>2 DEF WhitesOK
<1>6. SweepOK2'
  <2>1. NotDead' = NotDead
    <3>1. otherwhite' = otherwhite /\ \A x \in NotDead : color[x] # "free" /\ color[x] # otherwhite
      BY ColorFacts DEF otherwhite
    <3>2. \A x \in Obj : /\ color'[x] = "free" <=> color[x] = "free"
                         /\ color'[x] = otherwhite <=> color[x] = otherwhite
      BY <1>3, <3>1, ColorFacts
    <3>3. \A x \in Obj : x \in NotDead' <=> x \in NotDead
      BY <3>1, <3>2, ColorFacts, ColorFactsNext
    <3>. QED  BY <3>3, ColorFacts, ColorFactsNext
  <2>2. CASE gcstate' = gcstate /\ color' = color
    <3>1. Ahead' = Ahead /\ issweepphase' = issweepphase
      BY <2>2 DEF Ahead, ToSweep, listVars, sweepVars, issweepphase
    <3>. QED  BY <2>1, <2>2, <3>1 DEF SweepOK2, SweepListOK, listVars, sweepVars
  <2>3. CASE Resting'
    <3>1. sweepgc = "NULL" /\ unswept = {}
      BY <2>2, <2>3 DEF SweepOK2, Resting, issweepphase, SweepStates
    <3>. QED  BY <2>3, <3>1 DEF SweepOK2, Resting, issweepphase, SweepStates, sweepVars
  <2>. QED  BY <2>2, <2>3 DEF Resting
<1>7. Alloc' = Alloc => ListsPartition'
  BY DEF ListsPartition, listVars
<1>. QED
  BY <1>1, <1>2, <1>3, <1>4, <1>5, <1>6, <1>7, ControlSafe DEF listVars, stackVars

(* GCTM: the object is kept, and its finalizer is called above all that    *)
(* the running thread's stack holds.                                       *)
LEMMA GCTMSafe ==
  ASSUME TypeOK, TypeOK', SafetyInv, Idling, NEW cs \in Seq(Frame),
         \A i \in 1..Len(cs) : cs[i].kind = "fin" => i \in 1..Len(cstack) /\ cs[i] = cstack[i],
         NEW o, GCTM(o, cs)
  PROVE  SafetyInv'
<1>. DEFINE fin == [kind |-> "fin", th |-> L, base |-> stk[L], open |-> OpenUpvals(L)]
<1>1. /\ o \in tobefnz /\ tobefnz' = tobefnz \ {o} /\ allgc' = allgc \union {o}
      /\ finbit' = finbit \ {o} /\ finobj' = finobj
      /\ color' = IF issweepphase THEN [color EXCEPT ![o] = currentwhite] ELSE color
      /\ unswept' = IF sweepgc = o THEN allgc ELSE unswept \ {o}
      /\ UNCHANGED <<currentwhite, gcstate, atom, sweepgc, grayVars, refVars, funcVars,
                     running, resumer, twups, strcache>>
  BY DEF GCTM
<1>2. \/ cstack' = Append(cs, fin) /\ Push(o)
      \/ cstack' = cs /\ UNCHANGED <<stk, stale>>
  BY DEF GCTM
<1>3. /\ o \in NotDead /\ o \in Obj /\ L \in Threads /\ L \in NotDead /\ stk[L] \subseteq NotDead
      /\ NotDead \subseteq Obj /\ Active(L)
  BY <1>1, KeptOperands, ColorFacts DEF SafetyInv, KeptOK, L, TypeOK, StackOK, ThreadsOK
<1>4. ListsPartition /\ SweepOK2 /\ o \notin allgc /\ o \notin finobj /\ o # MainThread
  BY <1>1 DEF SafetyInv, ListsPartition
<1>5. /\ \A x \in Obj : \/ color'[x] = color[x]
                        \/ x \in NotDead /\ color'[x] = currentwhite /\ ~keepinvariant
      /\ issweepphase => color'[o] = currentwhite
      /\ ~issweepphase => color' = color
      /\ \A x \in Obj : x # o => color'[x] = color[x]
  BY <1>1, <1>3 DEF keepinvariant, issweepphase, SweepStates, TypeOK, ListsOK
<1>6. gcstate # "insideatomic" /\ ~Remarking /\ ~Remarking' /\ atom'.pc = "idle" /\ PhasesOK'
  BY <1>1 DEF SafetyInv, PhasesOK, Idling, Remarking
<1>7. WhitesOK'
  <2>1. Resting \/ Marking => color' = color
    BY <1>5, <1>6 DEF Resting, Marking, issweepphase, SweepStates, keepinvariant
  <2>2. (Resting' <=> Resting) /\ (Marking' <=> Marking) /\ otherwhite' = otherwhite
    BY <1>1, <1>6 DEF Resting, Marking, keepinvariant, otherwhite
  <2>. QED  BY <1>1, <2>1, <2>2 DEF SafetyInv, WhitesOK
<1>8. Alloc' = Alloc => ListsPartition'
  BY <1>1, <1>3, <1>4 DEF ListsPartition
<1>9. /\ \A th \in Threads : stk'[th] = stk[th] \/ (th = L /\ stk'[th] = stk[L] \union {o})
      /\ \A th \in Threads : (stk'[th] = stk[th] /\ stale'[th] = stale[th])
                             \/ (th = L /\ stale'[th] = Nil)
  BY <1>2 DEF Push, TypeOK, StackOK
<1>10. \A th \in Threads :
         \/ stk'[th] = stk[th] /\ stale'[th] = stale[th]
         \/ /\ th \in NotDead /\ stk[th] \subseteq stk'[th]
            /\ stk'[th] \subseteq NotDead /\ In(stale'[th], NotDead)
  BY <1>3, <1>9, Kinds DEF In
<1>11. FramesOK'
  <2>1. \A th \in Threads : (Active(th) => Active(th)') /\ stk[th] \subseteq stk'[th]
    BY <1>1, <1>10 DEF Active
  <2>2. ASSUME NEW i \in 1..Len(cs), cs[i].kind = "fin"
        PROVE  /\ i \in 1..Len(cstack) /\ cs[i] = cstack[i] /\ cs[i].th \in Threads
               /\ Active(cs[i].th) /\ cs[i].base \subseteq stk[cs[i].th]
    BY <2>2, FinFrame DEF SafetyInv, FramesOK
  <2>3. ASSUME NEW i \in 1..Len(cs), NEW j \in 1..Len(cs), i < j, cs[i].kind = "fin",
               cs[j].kind = "fin", cs[i].th = cs[j].th
        PROVE  cs[i].base \subseteq cs[j].base
    BY <2>2, <2>3 DEF SafetyInv, FramesOK
  <2>4. ASSUME NEW i \in 1..Len(cs), cs[i].kind = "fin"
        PROVE  Active(cs[i].th)' /\ cs[i].base \subseteq stk'[cs[i].th]
    <3>1. cs[i].th \in Threads /\ Active(cs[i].th) /\ cs[i].base \subseteq stk[cs[i].th]
      BY <2>2, <2>4
    <3>. QED  BY <1>1, <2>1, <3>1 DEF Active
  <2>5. CASE cstack' = cs
    <3>1. \A i \in 1..Len(cstack') : cstack'[i].kind = "fin" =>
            Active(cs[i].th)' /\ cstack'[i] = cs[i] /\ cs[i].base \subseteq stk'[cs[i].th]
      BY <2>4, <2>5
    <3>2. \A i \in 1..Len(cs) : cs[i].kind = "fin" =>
            Active(cstack[i].th)' /\ cs[i] = cstack[i]
      BY <2>2, <2>4, <2>5
    <3>. QED  BY <2>3, <2>5, <3>1, <3>2 DEF FramesOK
  <2>6. CASE cstack' = Append(cs, fin)
    <3>1. /\ fin.th = L /\ fin.base = stk[L] /\ fin.kind = "fin"
      OBVIOUS
    <3>. HIDE DEF fin
    <3>2. /\ Len(cstack') = Len(cs) + 1 /\ Len(cs) \in Nat /\ cstack'[Len(cs) + 1] = fin
          /\ \A i \in 1..Len(cs) : cstack'[i] = cs[i]
      BY <2>6
    <3>3. ASSUME NEW i \in 1..Len(cstack'), cstack'[i].kind = "fin"
          PROVE  Active(cstack[i].th)' /\ cstack'[i].base \subseteq stk'[cstack'[i].th]
      <4>1. CASE i \in 1..Len(cs)
        <5>1. cstack'[i] = cs[i] /\ cs[i] = cstack[i]
          BY <2>2, <3>2, <3>3, <4>1
        <5>. QED  BY <2>4, <3>3, <4>1, <5>1
      <4>2. CASE i = Len(cs) + 1
        <5>1. cstack'[i] = fin /\ (L = MainThread \/ resumer'[L] # Nil)
          BY <1>1, <1>3, <3>2, <4>2 DEF Active
        <5>2. Active(cstack[i].th)'
          BY <3>1, <5>1 DEF Active
        <5>. QED  BY <1>3, <2>1, <3>1, <5>1, <5>2
      <4>. QED  BY <3>2, <4>1, <4>2
    <3>4. ASSUME NEW i \in 1..Len(cstack'), NEW j \in 1..Len(cstack'), i < j,
                 cstack'[i].kind = "fin", cstack'[j].kind = "fin", cstack'[i].th = cstack'[j].th
          PROVE  cstack'[i].base \subseteq cstack'[j].base
      <4>1. i \in 1..Len(cs) /\ cstack'[i] = cs[i]
        BY <3>2, <3>4
      <4>2. CASE j \in 1..Len(cs)
        BY <2>3, <3>2, <3>4, <4>1, <4>2
      <4>3. CASE j = Len(cs) + 1
        <5>1. cstack'[j] = fin
          BY <3>2, <4>3
        <5>. QED  BY <2>2, <3>1, <3>4, <4>1, <5>1
      <4>. QED  BY <3>2, <4>2, <4>3
    <3>. QED  BY <3>3, <3>4 DEF FramesOK
  <2>. QED  BY <1>2, <2>5, <2>6
<1>12. SweepOK2'
  <2>1. NotDead \subseteq NotDead'
    <3>1. /\ NotDead = {x \in Obj : color[x] # "free" /\ color[x] # otherwhite}
          /\ NotDead' = {x \in Obj : color'[x] # "free" /\ color'[x] # otherwhite}
          /\ currentwhite # "free" /\ currentwhite # otherwhite
      BY <1>1, ColorFacts, ColorFactsNext DEF otherwhite
    <3>. QED  BY <1>5, <3>1
  <2>2. gcstate' = gcstate /\ sweepgc' = sweepgc /\ issweepphase' = issweepphase
    BY <1>1 DEF issweepphase
  <2>3. "NULL" \notin Obj /\ "allgc" \notin Obj /\ "finobj" \notin Obj /\ "tobefnz" \notin Obj
    BY Kinds
  <2>4. sweepgc # o /\ unswept' = unswept \ {o}
    BY <1>1, <1>3, <1>4, <2>3
       DEF SweepOK2, SweepListOK, issweepphase, SweepStates, TypeOK, PhaseOK
  <2>5. CASE ~issweepphase
    BY <1>4, <2>2, <2>4, <2>5 DEF SweepOK2, issweepphase, SweepStates
  <2>6. CASE issweepphase
    <3>1. gcstate = "swpallgc" => SweepListOK("allgc", allgc)'
      BY <1>1, <1>4, <2>1, <2>2, <2>4 DEF SweepOK2, SweepListOK
    <3>2. gcstate = "swpfinobj" => SweepListOK("finobj", finobj)'
      BY <1>1, <1>4, <2>1, <2>2, <2>4 DEF SweepOK2, SweepListOK
    <3>3. ToSweep \ {o} \subseteq ToSweep'
      BY <1>1, <2>2, <2>4 DEF ToSweep
    <3>4. Ahead \ {o} \subseteq Ahead'
      BY <1>1, <2>2, <3>3 DEF Ahead
    <3>5. \A x \in Obj : color'[x] \in {"free", currentwhite} \/ x \in Ahead' \union {MainThread}
      BY <1>4, <1>5, <2>6, <3>4 DEF SweepOK2
    <3>. QED  BY <1>1, <1>4, <2>2, <2>4, <2>6, <3>1, <3>2, <3>5 DEF SweepOK2
  <2>. QED  BY <2>5, <2>6
<1>13. (keepinvariant' => keepinvariant) /\ gcstate' # "insideatomic" /\ tobefnz' \subseteq tobefnz
  BY <1>1, <1>6 DEF keepinvariant
<1>. QED
  BY <1>1, <1>5, <1>6, <1>7, <1>8, <1>10, <1>11, <1>12, <1>13, ControlSafe

(* The ends of the C functions, the pause, and the start of luaC_fullgc.   *)
LEMMA CallsSafe ==
  ASSUME TypeOK, TypeOK', SafetyInv,
         SweepEnd \/ Pause \/ FewEnd \/ StepEnd \/ FullEnd \/ \E em \in FullKinds : FullGC(em)
  PROVE  SafetyInv'
<1>1. CASE SweepEnd \/ Pause
  <2>1. /\ Idling /\ atom' = atom
        /\ UNCHANGED <<listVars, currentwhite, sweepVars, grayVars, refVars, funcVars, stackVars>>
        /\ \/ color' = color /\ Resting /\ Resting'
           \/ gcstate = "swpend" /\ gcstate' = "callfin"
              /\ color' = [color EXCEPT ![MainThread] = currentwhite]
    BY <1>1 DEF SweepEnd, Pause, SingleStep, Resting
  <2>2. cstack' \in {cstack, Pushed(StepFrame)}
    BY <1>1 DEF SweepEnd, Pause, SingleStep
  <2>. QED  BY <2>1, <2>2, CallSafe
<1>2. CASE FewEnd \/ StepEnd \/ FullEnd
  <2>1. cstack # <<>> /\ cstack' = Dropped
    BY <1>2 DEF FewEnd, StepEnd, FullEnd, TopIs
  <2>2. Idling
    BY <1>2 DEF FewEnd, StepEnd, FullEnd, TopIs, SafetyInv, PhasesOK, Idling
  <2>3. /\ color' = color /\ gcstate' = gcstate /\ atom' = atom
        /\ UNCHANGED <<listVars, currentwhite, sweepVars, grayVars, refVars, funcVars, stackVars>>
    BY <1>2 DEF FewEnd, StepEnd, FullEnd, phaseVars
  <2>. QED  BY <2>1, <2>2, <2>3, CallSafe
<1>3. ASSUME NEW em \in FullKinds, FullGC(em) PROVE SafetyInv'
  <2>1. Idling
    BY <1>3, MutatorIdle DEF FullGC, CanCall, SafetyInv
  <2>2. /\ color' = color /\ gcstate' = gcstate /\ cstack' = Pushed(FullFrame(em))
        /\ atom' = IF keepinvariant THEN At("enter") ELSE atom
        /\ UNCHANGED <<listVars, currentwhite, sweepVars, grayVars, refVars, funcVars, stackVars>>
    BY <1>3 DEF FullGC
  <2>3. TopIs("full")' /\ em \in BOOLEAN
    BY <2>2, PushedTop, CollectorAssumption DEF FullFrame
  <2>4. keepinvariant' <=> keepinvariant
    BY <2>2 DEF keepinvariant
  <2>. QED  BY <2>1, <2>2, <2>3, <2>4, CallSafe
<1>. QED  BY <1>1, <1>2, <1>3

(* The calls of finalizers.                                                *)
LEMMA FinalizersSafe ==
  ASSUME TypeOK, TypeOK', SafetyInv, NEW o, CallFin(o) \/ FewMore(o) \/ StepFinalizers(o)
  PROVE  SafetyInv'
<1>. DEFINE Same(cs) == \A i \in 1..Len(cs) : cs[i].kind = "fin" => i \in 1..Len(cstack) /\ cs[i] = cstack[i]
<1>1. cstack \in Seq(Frame) /\ FewFrame \in Frame /\ FewFrame.kind # "fin" /\ StepFrame.kind # "fin"
  BY FrameType DEF TypeOK, StackOK, FewFrame, StepFrame
<1>2. ASSUME NEW cs \in Seq(Frame), Same(cs), NEW f \in Frame, f.kind # "fin"
      PROVE  Append(cs, f) \in Seq(Frame) /\ Same(Append(cs, f))
  <2>1. /\ Append(cs, f) \in Seq(Frame) /\ Len(Append(cs, f)) = Len(cs) + 1 /\ Len(cs) \in Nat
        /\ \A i \in 1..Len(cs) : Append(cs, f)[i] = cs[i]
        /\ Append(cs, f)[Len(cs) + 1] = f
    OBVIOUS
  <2>. QED  BY <1>2, <2>1
<1>3. CASE CallFin(o)
  <2>1. PICK cs \in {cstack, Pushed(StepFrame)} : SingleStep(cs) /\ GCTM(o, Append(cs, FewFrame))
    BY <1>3 DEF CallFin
  <2>2. Same(cstack)
    OBVIOUS
  <2>3. cs \in Seq(Frame) /\ Same(cs)
    <3>. HIDE DEF Same
    <3>. QED  BY <1>1, <1>2, <2>1, <2>2, FrameType DEF Pushed
  <2>4. Idling
    BY <2>1 DEF SingleStep
  <2>5. Append(cs, FewFrame) \in Seq(Frame) /\ Same(Append(cs, FewFrame))
    <3>. HIDE DEF Same
    <3>. QED  BY <1>1, <1>2, <2>3
  <2>. QED  BY <2>1, <2>4, <2>5, GCTMSafe
<1>4. CASE FewMore(o)
  <2>1. Idling /\ GCTM(o, cstack)
    BY <1>4 DEF FewMore, TopIs, SafetyInv, PhasesOK, Idling
  <2>2. Same(cstack)
    OBVIOUS
  <2>. QED  BY <1>1, <2>1, <2>2, GCTMSafe
<1>5. CASE StepFinalizers(o)
  <2>1. /\ Idling /\ GCTM(o, Replaced(FewFrame)) /\ TopIs("step")
    BY <1>5 DEF StepFinalizers
  <2>2. Replaced(FewFrame) \in Seq(Frame)
    BY <1>1, <2>1, TopType
  <2>3. Same(Replaced(FewFrame))
    <3>1. Len(cstack) \in Nat \ {0}
      BY <1>1, <2>1, TopType
    <3>2. /\ Len(Replaced(FewFrame)) = Len(cstack)
          /\ \A i \in 1..Len(cstack) :
               Replaced(FewFrame)[i] = IF i = Len(cstack) THEN FewFrame ELSE cstack[i]
      BY <1>1, <3>1 DEF Replaced
    <3>. QED  BY <1>1, <3>1, <3>2
  <2>. QED  BY <2>1, <2>2, <2>3, GCTMSafe
<1>. QED  BY <1>3, <1>4, <1>5

(* A step of the collector, wherever the program is.                       *)
LEMMA CollectorSafe ==
  ASSUME TypeOK, TypeOK', SafetyInv, OneAllWeakMeta, FewPending, CollectorStep
  PROVE  SafetyInv'
<1>1. CASE Restart
  BY <1>1, RestartSafe
<1>2. CASE PropagateStep
  BY <1>2, PropagateStepSafe
<1>3. CASE Atomic
  <2>1. CASE AtomicEnter
    BY <2>1, AtomicEnterSafe
  <2>2. CASE PropagateAll
    BY <2>2, PropagateAllSafe
  <2>3. CASE AtomicStart
    BY <2>3, AtomicStartSafe
  <2>4. CASE \E th \in twups : RemarkUpvals(th)
    BY <2>4, RemarkUpvalsSafe
  <2>5. CASE RemarkDone \/ GrayAgain \/ ConvergeRound
    BY <2>5, QuietSteps
  <2>6. CASE \E w \in Tables : ConvergeVisit(w)
    BY <2>6, ConvergeVisitSafe
  <2>7. CASE Separate
    BY <2>7, SeparateSafe
  <2>8. CASE AtomicFinish
    BY <2>8, AtomicFinishSafe
  <2>. QED  BY <1>3, <2>1, <2>2, <2>3, <2>4, <2>5, <2>6, <2>7, <2>8 DEF Atomic
<1>4. CASE Sweeping
  BY <1>4, EnterSweepSafe, SweepStepSafe, CallsSafe DEF Sweeping
<1>5. CASE Finalizing
  BY <1>5, FinalizersSafe, CallsSafe DEF Finalizing
<1>6. CASE StepEnd \/ FullEnd
  BY <1>6, CallsSafe
<1>. QED  BY <1>1, <1>2, <1>3, <1>4, <1>5, <1>6 DEF CollectorStep

(* Nothing happens.                                                        *)
LEMMA StutterSafe ==
  ASSUME TypeOK, TypeOK', SafetyInv, UNCHANGED vars PROVE SafetyInv'
<1>. USE DEF vars, SafetyInv, listVars, phaseVars, sweepVars, grayVars, refVars, funcVars, stackVars
<1>1. /\ KindsOK' /\ WhitesOK' /\ ListsPartition' /\ GrayIdleOK' /\ SweepOK2'
      /\ NotDead' = NotDead /\ Reached' = Reached
  BY SameLists
<1>2. ASSUME NEW o, NEW S, BaseIn(o, S) PROVE BaseIn(o, S)'
  BY <1>2 DEF BaseIn, StackIn, KeysIn, ValuesIn, In
<1>3. KeptOK'
  BY <1>1, <1>2 DEF KeptOK, FieldsIn, In
<1>4. FreeOK' /\ ClosuresOK' /\ MetasOK' /\ ThreadsOK' /\ FramesOK' /\ PhasesOK'
  BY <1>1, <1>2 DEF FreeOK, ClosuresOK, MetasOK, ThreadsOK, Active, FramesOK, PhasesOK, TopIs, Top
<1>5. Remarking' = Remarking /\ Marking' = Marking /\ keepinvariant' = keepinvariant
  BY DEF Remarking, Marking, keepinvariant
<1>6. TwupsOK' /\ RootsOK' /\ ConvergenceOK'
  BY <1>1, <1>5 DEF TwupsOK, IsOpen, RootsOK, ConvergenceOK, Settled, KeyMarked, ValueWhite, ValuesIn, In
<1>7. BlackOK'
  <2>1. \A c : UpvalueOK(c) => UpvalueOK(c)'
    BY <1>1, <1>5 DEF UpvalueOK, IsOpen, In
  <2>. QED  BY <1>1, <1>2, <1>5, <2>1 DEF BlackOK
<1>8. GrayAtomicOK'
  <2>1. Work' = Work /\ Again' = Again /\ Atomically' = Atomically /\ GrayOnes' = GrayOnes
    BY <1>5 DEF Work, Again, Atomically, GrayOnes
  <2>2. \A o : Visited(o) => Visited(o)'
    BY <1>1, <1>5 DEF Visited, StackIn, KeysIn, ValuesIn, In
  <2>. QED  BY <2>1, <2>2 DEF GrayAtomicOK
<1>. QED  BY <1>1, <1>3, <1>4, <1>6, <1>7, <1>8

(***************************************************************************)
(* The theorems.                                                           *)
(***************************************************************************)
(* A new state: the main thread and the registry, both white.              *)
LEMMA SafetyInit == HeapInit => SafetyInv
<1>. SUFFICES ASSUME HeapInit PROVE SafetyInv
  OBVIOUS
<1>. USE Kinds DEF HeapInit
<1>1. /\ \A x \in Obj : color[x] = IF x \in {MainThread, Registry} THEN "white0" ELSE "free"
      /\ otherwhite = "white1" /\ Alloc = {MainThread, Registry}
      /\ NotDead = {MainThread, Registry} /\ GrayOnes = {} /\ atom.pc = "idle"
      /\ atom.again = {} /\ atom.eph = {}
  BY DEF otherwhite, Alloc, NotDead, IsDead, GrayOnes, Idle
<1>2. \A o \in Obj : BaseIn(o, {})
  <2>. SUFFICES ASSUME NEW o \in Obj PROVE BaseIn(o, {})
    OBVIOUS
  <2>1. \A u \in UpVals : uv[u].th \notin Obj
    BY DEF FreeCell
  <2>. QED  BY <2>1 DEF BaseIn, KeysIn, ValuesIn, StackIn, In
<1>3. \A o \in Obj : \A S : FieldsIn(o, S)
  <2>. SUFFICES ASSUME NEW o \in Obj, NEW S PROVE FieldsIn(o, S)
    OBVIOUS
  <2>1. BaseIn(o, {})
    BY <1>2
  <2>2. BaseIn(o, S)
    BY <2>1 DEF BaseIn, KeysIn, ValuesIn, StackIn, In
  <2>. QED  BY <2>2 DEF FieldsIn
<1>4. ~Marking /\ ~Remarking /\ ~keepinvariant /\ ~issweepphase /\ ~Atomically
  BY <1>1 DEF Marking, Remarking, keepinvariant, issweepphase, SweepStates, Atomically
<1>5. KeptOK
  BY <1>1, <1>3 DEF KeptOK, In
<1>6. FreeOK
  BY <1>2 DEF FreeOK, FreeCell
<1>7. ClosuresOK /\ KindsOK
  BY <1>1, OneKind DEF ClosuresOK, KindsOK
<1>8. MetasOK /\ ListsPartition
  BY <1>1, OneKind DEF MetasOK, ListsPartition
<1>9. WhitesOK
  BY <1>1, <1>4 DEF WhitesOK
<1>10. TwupsOK
  BY DEF TwupsOK, IsOpen, FreeCell
<1>11. ThreadsOK
  BY <1>1 DEF ThreadsOK, Active
<1>12. FramesOK /\ PhasesOK
  BY <1>1 DEF FramesOK, PhasesOK
<1>13. BlackOK /\ GrayIdleOK /\ GrayAtomicOK /\ RootsOK /\ ConvergenceOK /\ SweepOK2
  BY <1>1, <1>4 DEF BlackOK, GrayIdleOK, GrayAtomicOK, RootsOK, ConvergenceOK, SweepOK2
<1>. QED
  BY <1>5, <1>6, <1>7, <1>8, <1>9, <1>10, <1>11, <1>12, <1>13 DEF SafetyInv

(* SafetyInv is inductive with TypeOK.                                     *)
LEMMA SafetyNext ==
  ASSUME OneAllWeakMeta
  PROVE  TypeOK /\ SafetyInv /\ FewPending /\ [Next]_vars => SafetyInv'
<1>. SUFFICES ASSUME TypeOK, SafetyInv, FewPending, [Next]_vars PROVE SafetyInv'
  OBVIOUS
<1>0. TypeOK'
  BY TypeNext
<1>1. CASE Mutate
  BY <1>0, <1>1, MutateSafe
<1>2. CASE CollectorStep
  BY <1>0, <1>2, CollectorSafe
<1>3. CASE FinalizerEnd
  BY <1>0, <1>3, FinalizerEndSafe
<1>4. CASE \E emergency \in FullKinds : FullGC(emergency)
  BY <1>0, <1>4, CallsSafe
<1>5. CASE UNCHANGED vars
  BY <1>0, <1>5, StutterSafe
<1>. QED  BY <1>1, <1>2, <1>3, <1>4, <1>5 DEF Next

(* What SafetyInv says of the run's invariants.                            *)
LEMMA SafetyMeans ==
  ASSUME TypeOK, SafetyInv
  PROVE  NoDanglingRef /\ HeapSound
<1>1. NoDanglingRef
  BY KeptRefs DEF SafetyInv
<1>2. NoBlackToWhite
  <2>. SUFFICES ASSUME keepinvariant, NEW o \in Obj, color[o] = "black", NEW x \in BlackRefs(o)
                PROVE  ~IsWhite(x)
    BY DEF NoBlackToWhite
  <2>1. BaseIn(o, Reached) /\ (o \in LClosures => UpvalueOK(o))
    BY DEF SafetyInv, BlackOK, Marking
  <2>2. x \in Reached
    <3>1. CASE o \in LClosures /\ IsOpen(upv[o])
      BY <2>1, <3>1 DEF BlackRefs, BaseIn, Objs, In
    <3>2. CASE ~(o \in LClosures /\ IsOpen(upv[o]))
      <4>1. FieldsIn(o, Reached)
        BY <2>1, <3>2 DEF FieldsIn, UpvalueOK
      <4>. QED  BY <3>2, <4>1, RefsIn DEF BlackRefs
    <3>. QED  BY <3>1, <3>2
  <2>. QED  BY <2>2, ColorFacts DEF Reached, IsWhite
<1>3. GrayListed
  <2>. SUFFICES ASSUME keepinvariant, Idling
                PROVE  /\ \A o \in Obj : color[o] = "gray" <=> \E i \in 1..5 : o \in GrayLists[i]
                       /\ \A i, j \in 1..5 : i # j => GrayLists[i] \intersect GrayLists[j] = {}
    BY DEF GrayListed
  <2>1. /\ GrayOnes = gray \union grayagain \union allweak
        /\ gray \intersect grayagain = {} /\ gray \intersect allweak = {}
        /\ grayagain \intersect allweak = {} /\ weak = {} /\ ephemeron = {}
    BY DEF SafetyInv, GrayIdleOK
  <2>2. /\ GrayLists[1] = gray /\ GrayLists[2] = grayagain /\ GrayLists[3] = {}
        /\ GrayLists[4] = {} /\ GrayLists[5] = allweak
    BY <2>1 DEF GrayLists
  <2>3. \A i \in 1..5 : i = 1 \/ i = 2 \/ i = 3 \/ i = 4 \/ i = 5
    OBVIOUS
  <2>4. \A o \in Obj : color[o] = "gray" <=> \E i \in 1..5 : o \in GrayLists[i]
    <3>1. \A o \in Obj : color[o] = "gray" <=> o \in gray \union grayagain \union allweak
      BY <2>1 DEF GrayOnes
    <3>2. 1 \in 1..5 /\ 2 \in 1..5 /\ 5 \in 1..5
      OBVIOUS
    <3>. QED  BY <2>2, <2>3, <3>1, <3>2
  <2>5. \A i, j \in 1..5 : i # j => GrayLists[i] \intersect GrayLists[j] = {}
    BY <2>1, <2>2, <2>3
  <2>. QED  BY <2>4, <2>5
<1>4. SweepPointer
  <2>1. sweepgc \in Obj => gcstate \in {"swpallgc", "swpfinobj"}
    BY Kinds DEF SafetyInv, SweepOK2, issweepphase, SweepStates
  <2>2. sweepgc \in Obj /\ gcstate = "swpallgc" =>
          sweepgc \in Alloc /\ {sweepgc} \union unswept \subseteq allgc
    BY ColorFacts, Kinds DEF SafetyInv, SweepOK2, SweepListOK
  <2>3. sweepgc \in Obj /\ gcstate = "swpfinobj" =>
          sweepgc \in Alloc /\ {sweepgc} \union unswept \subseteq finobj
    BY ColorFacts, Kinds DEF SafetyInv, SweepOK2, SweepListOK
  <2>4. ~issweepphase => sweepgc = "NULL"
    BY DEF SafetyInv, SweepOK2
  <2>. QED  BY <2>1, <2>2, <2>3, <2>4 DEF SweepPointer
<1>5. SweepRestoresWhite
  BY DEF SafetyInv, WhitesOK, Resting, SweepRestoresWhite, Alloc
<1>6. OpenInTwups
  BY DEF SafetyInv, TwupsOK, OpenInTwups
<1>. QED  BY <1>1, <1>2, <1>3, <1>4, <1>5, <1>6 DEF SafetyInv, HeapSound

(* Whatever the program does and whenever the collector runs, what a kept  *)
(* object refers to is kept: no reference that the program can follow, not *)
(* even a weak one, leads to freed memory, or to what the sweep will free. *)
THEOREM MemorySafe ==
  ASSUME OneAllWeakMeta PROVE Spec /\ []FewPending => []NoDanglingRef
<1>1. TypeOK /\ SafetyInv => NoDanglingRef
  BY SafetyMeans
<1>. QED  BY <1>1, TypeInit, TypeNext, SafetyInit, SafetyNext, PTL DEF Spec

(* The barriers, the gray lists, the lists of objects, the sweep pointer,  *)
(* the whites and twups are at all times what lgc.h says they are.         *)
THEOREM HeapAlwaysSound ==
  ASSUME OneAllWeakMeta PROVE Spec /\ []FewPending => []HeapSound
<1>1. TypeOK /\ SafetyInv => HeapSound
  BY SafetyMeans
<1>. QED  BY <1>1, TypeInit, TypeNext, SafetyInit, SafetyNext, PTL DEF Spec


(***************************************************************************)
(* ModesOK is inductive with SafetyInv.                                    *)
(***************************************************************************)
(* What an operation of the program leaves alone.                          *)
LEMMA MutateModes ==
  ASSUME TypeOK, Mutate
  PROVE  /\ MutatorOn /\ UNCHANGED <<gcstate, atom, allweak, cstack>> /\ tobefnz' \subseteq tobefnz
         /\ ~issweepphase => \A t \in Tables : mt'[t] = mt[t] \/ <<t, mt'[t]>> \in Metas
<1>. USE DEF Mutate, phaseVars, grayVars, refVars, listVars
<1>1. CASE (\E o \in Obj : Pop(o)) \/ Expose \/ (\E o, x \in Obj : Get(o, x))
  BY <1>1 DEF Pop, Expose, Get
<1>2. CASE \/ \E o \in Tables \union Udatas \union Coroutines : NewObject(o)
           \/ \E w \in Vals : w[1] \in CClosures /\ NewCClosure(w[1], w[2])
  BY <1>2 DEF NewObject, NewCClosure, Create
<1>3. CASE (\E s \in Strings : NewString(s)) \/ (\E s \in Strings : NewLString(s))
  BY <1>3 DEF NewString, NewLString, Intern
<1>4. CASE \/ \E w \in Writes : SetTable(w[1], w[2], w[3])
           \/ \E t \in Tables : \E e \in entries[t] : ClearEntry(t, e)
  BY <1>4 DEF SetTable, ClearEntry
<1>5. CASE (\E w \in Vals : SetVal(w[1], w[2])) \/ (\E m \in BaseMetas : SetBaseMt(m))
  BY <1>5 DEF SetVal, SetBaseMt
<1>6. CASE \E w \in Metas : \/ SetMetatable(w[1], w[2])
                            \/ SetFinalizer(w[1], w[2])
                            \/ SetFinalizerInSweep(w[1], w[2])
  <2>. PICK w \in Metas : \/ SetMetatable(w[1], w[2])
                          \/ SetFinalizer(w[1], w[2])
                          \/ SetFinalizerInSweep(w[1], w[2])
    BY <1>6
  <2>1. w = <<w[1], w[2]>>
    BY MutatorAssumption
  <2>2. MutatorOn /\ UNCHANGED <<gcstate, atom, allweak, cstack>> /\ tobefnz' \subseteq tobefnz
    BY DEF SetMetatable, SetFinalizer, SetFinalizerInSweep
  <2>3. ~issweepphase => mt' = [mt EXCEPT ![w[1]] = w[2]]
    BY DEF SetMetatable, SetFinalizer, SetFinalizerInSweep
  <2>4. mt \in [Tables \union Udatas -> Tables \union {Nil}]
    BY DEF TypeOK, RefsOK
  <2>. QED  BY <2>1, <2>2, <2>3, <2>4
<1>7. CASE \E c \in LClosures, p \in Protos, u \in UpVals :
              \E v \in Values(Registry) \union {Nil} : Load(c, p, u, v)
  BY <1>7 DEF Load
<1>8. CASE \/ \E f, n \in LClosures, u \in UpVals : ReuseClosure(f, n, u) \/ NewClosure(f, n, u)
           \/ \E f, n \in LClosures, u \in UpVals : \E v \in Locals : CaptureLocal(f, n, u, v)
  BY <1>8, SMTT(40) DEF ReuseClosure, NewClosure, CaptureLocal, Closure, Create
<1>9. CASE \/ \E c \in LClosures : \E v \in Assigned : SetUpval(c, v)
           \/ \E u \in UpVals : \E v \in Assigned : SetLocal(u, v)
           \/ \E U \in SUBSET UpVals : CloseUpvals(U)
           \/ \E j \in Joins : UpvalueJoin(j[1], j[2])
  BY <1>9 DEF SetUpval, SetLocal, CloseUpvals, UpvalueJoin
<1>10. CASE \/ \E from, to \in Threads, o \in Obj : Xmove(from, to, o)
            \/ \E co \in Coroutines : Resume(co)
            \/ Yield
  BY <1>10 DEF Xmove, Resume, Yield
<1>. QED  BY <1>1, <1>2, <1>3, <1>4, <1>5, <1>6, <1>7, <1>8, <1>9, <1>10

LEMMA MutateModesOK ==
  ASSUME TypeOK, SafetyInv, ModesOK, AllWeakStays, Mutate PROVE ModesOK'
<1>1. /\ MutatorOn /\ UNCHANGED <<gcstate, atom, allweak>>
      /\ ~issweepphase => \A t \in Tables : mt'[t] = mt[t] \/ <<t, mt'[t]>> \in Metas
  BY MutateModes
<1>2. Idling /\ ~Remarking
  BY <1>1, MutatorIdle DEF SafetyInv
<1>3. ~Atomically'
  BY <1>1, <1>2 DEF Atomically, Remarking, Idling
<1>4. ASSUME keepinvariant', NEW t \in allweak
      PROVE  Mode(t)' = "kv"
  <2>1. keepinvariant /\ ~issweepphase
    BY <1>1, <1>4 DEF keepinvariant, issweepphase, SweepStates
  <2>2. t \in Tables /\ Mode(t) = "kv"
    BY <1>2, <2>1 DEF ModesOK, TypeOK, GrayOK
  <2>3. mt[t] # Nil /\ WeakMode[mt[t]] = "kv"
    BY <2>2 DEF Mode
  <2>4. <<t, mt[t]>> \in Metas
    BY <2>2, <2>3 DEF SafetyInv, MetasOK
  <2>5. mt'[t] = mt[t]
    <3>1. CASE <<t, mt'[t]>> \in Metas
      <4>. DEFINE a == <<t, mt[t]>>
                  b == <<t, mt'[t]>>
      <4>1. a \in Metas /\ b \in Metas /\ a[1] = b[1] /\ a[2] = mt[t] /\ b[2] = mt'[t]
        BY <2>4, <3>1
      <4>. HIDE DEF a, b
      <4>. QED  BY <2>3, <4>1 DEF AllWeakStays
    <3>. QED  BY <1>1, <2>1, <2>2, <3>1
  <2>. QED  BY <2>3, <2>5 DEF Mode
<1>. QED  BY <1>1, <1>3, <1>4 DEF ModesOK

(* Steps that touch no list of the mark phase.                             *)
LEMMA QuietModes ==
  ASSUME SafetyInv, ModesOK, Idling,
         keepinvariant' => keepinvariant /\ UNCHANGED <<allweak, mt>>,
         atom'.pc \in {"idle", "enter"}, gcstate' # "insideatomic" \/ atom'.pc = "enter"
  PROVE  ModesOK'
<1>1. ~Atomically'
  BY DEF Atomically, Remarking
<1>2. ASSUME keepinvariant', NEW t \in allweak'
      PROVE  Mode(t)' = "kv"
  BY <1>2 DEF ModesOK, Mode
<1>. QED  BY <1>1, <1>2 DEF ModesOK

(***************************************************************************)
(* The traversals put a table into the list that fits its mode.            *)
(***************************************************************************)
(* A table that a visit finds in no need of another one, though some key   *)
(* is white, has only marked values.                                       *)
LEMMA VisitDemotes ==
  ASSUME RefsOK, NEW h \in Tables, NEW c \in [Obj -> Colors], NEW g, NEW eph,
         NEW early \in SUBSET entries[h], VisitEphemeron(h, c, g, eph, early)
  PROVE  \/ allweak' = allweak
         \/ /\ allweak' = allweak \union {h}
            /\ \A e \in entries[h] : ~ValueWhite(e, color')
<1>. DEFINE late == entries[h] \ early
            W1   == VisitMarks(early, c)
            c1   == Marked(W1, c)
            W2   == VisitMarks(late, c1)
            W    == W1 \union W2
            hasww == \/ \E e \in WhiteKeyed(early, c) : ValueWhite(e, c)
                     \/ \E e \in WhiteKeyed(late, c1) : ValueWhite(e, c1)
            hasclears == WhiteKeyed(early, c) # {} \/ WhiteKeyed(late, c1) # {}
<1>1. /\ Mark(W, c, g)
      /\ allweak' = IF gcstate # "propagate" /\ ~hasww /\ hasclears
                    THEN allweak \union {h} ELSE allweak
  BY DEF VisitEphemeron
<1>2. /\ \A x \in W : NonWhite(x, color')
      /\ \A x \in Obj : c[x] \notin Whites => color'[x] \notin Whites
  <2>. HIDE DEF W
  <2>. QED  BY <1>1, MarkedMarks DEF Mark, Marks, NonWhite
<1>3. ASSUME ~hasww, NEW e \in entries[h] PROVE NonWhite(e[2], color')
  <2>1. CASE e \in early
    <3>1. CASE KeyMarked(e, c)
      <4>1. e[2] \in W
        BY <2>1, <3>1 DEF VisitMarks
      <4>. HIDE DEF W
      <4>. QED  BY <1>2, <4>1
    <3>2. CASE ~KeyMarked(e, c)
      <4>1. ~ValueWhite(e, c)
        BY <1>3, <2>1, <3>2 DEF WhiteKeyed
      <4>. HIDE DEF W
      <4>. QED  BY <1>2, <4>1 DEF ValueWhite, NonWhite
    <3>. QED  BY <3>1, <3>2
  <2>2. CASE e \in late
    <3>1. CASE KeyMarked(e, c1)
      <4>1. e[2] \in W
        <5>. HIDE DEF c1, W1
        <5>. QED  BY <2>2, <3>1 DEF VisitMarks
      <4>. HIDE DEF W
      <4>. QED  BY <1>2, <4>1
    <3>2. CASE ~KeyMarked(e, c1)
      <4>1. ~ValueWhite(e, c1)
        BY <1>3, <2>2, <3>2 DEF WhiteKeyed
      <4>2. CASE e[2] \notin Obj
        BY <4>2 DEF NonWhite
      <4>3. CASE e[2] \in Obj /\ c1[e[2]] \notin Whites
        <5>1. c[e[2]] \notin Whites \/ e[2] \in MarkSet(W1, c)
          BY <4>3 DEF Marked
        <5>2. MarkSet(W1, c) \subseteq MarkSet(W, c)
          <6>1. MarkedUdatas(W1, c) \subseteq MarkedUdatas(W, c)
            <7>. HIDE DEF W1, W2
            <7>. QED  BY DEF MarkedUdatas
          <6>. HIDE DEF W1, W2
          <6>. QED  BY <6>1 DEF MarkSet, White, Objs
        <5>3. e[2] \in MarkSet(W, c) => color'[e[2]] \notin Whites
          <6>. HIDE DEF W
          <6>. QED  BY <1>1, <4>3 DEF Mark, Marked, Whites
        <5>. HIDE DEF W, W1, c1
        <5>. QED  BY <1>2, <4>3, <5>1, <5>2, <5>3 DEF NonWhite
      <4>4. e[2] \notin Obj \/ c1[e[2]] \notin Whites
        <5>. HIDE DEF c1
        <5>. QED  BY <4>1 DEF ValueWhite
      <4>. HIDE DEF c1
      <4>. QED  BY <4>2, <4>3, <4>4
    <3>. HIDE DEF c1
    <3>. QED  BY <3>1, <3>2
  <2>. QED  BY <2>1, <2>2
<1>4. \A e \in entries[h] : NonWhite(e[2], color') => ~ValueWhite(e, color')
  BY DEF NonWhite, ValueWhite
<1>. QED
  <2>. HIDE DEF hasww, hasclears
  <2>. QED  BY <1>1, <1>3, <1>4

(* A traversal.                                                            *)
MarksStay == \A x \in Obj : color[x] \notin Whites => color'[x] \notin Whites

LEMMA PropagateLists ==
  ASSUME TypeOK, TypeOK', SafetyInv, \A x \in Obj : color[x] # otherwhite,
         NEW o, color[o] = "gray", Propagate(o)
  PROVE  /\ UNCHANGED <<mt, entries, atom>> /\ MarksStay
         /\ \A t \in weak' \ weak : Mode(t) = "v"
         /\ \A t \in ephemeron' \ ephemeron : Mode(t) = "k"
         /\ \A t \in allweak' \ allweak :
              \/ Mode(t) = "kv"
              \/ Mode(t) = "k" /\ gcstate # "propagate" /\ \A e \in entries[t] : ~ValueWhite(e, color')
<1>1. o \in Obj /\ Traversed(o)
  BY PropagateFacts
<1>2. UNCHANGED <<mt, entries, atom>>
  BY DEF Propagate, refVars
<1>3. MarksStay
  BY <1>1 DEF MarksStay, Traversed, Paints, Whites
<1>4. CASE o \in Tables /\ TraverseEphemeron(o)
  <2>1. Mode(o) = "k" /\ UNCHANGED weak
    BY <1>4 DEF TraverseEphemeron
  <2>. DEFINE c == Marked({mt[o]}, color)
              g == (gray \ {o}) \union MarkSet({mt[o]}, color)
  <2>2. PICK early \in SUBSET entries[o] : VisitEphemeron(o, c, g, ephemeron, early)
    BY <1>4 DEF TraverseEphemeron
  <2>3. RefsOK /\ c \in [Obj -> Colors]
    BY MarkedMarks DEF TypeOK, ListsOK
  <2>. HIDE DEF c, g
  <2>4. /\ gcstate = "propagate" => ephemeron' = ephemeron /\ allweak' = allweak
        /\ gcstate # "propagate" =>
             ephemeron \subseteq ephemeron' /\ ephemeron' \subseteq ephemeron \union {o}
    BY <1>4, <2>2, <2>3, VisitFacts
  <2>5. \/ allweak' = allweak
        \/ allweak' = allweak \union {o} /\ \A e \in entries[o] : ~ValueWhite(e, color')
    BY <1>4, <2>2, <2>3, VisitDemotes
  <2>. QED  BY <1>2, <1>3, <2>1, <2>4, <2>5
<1>5. CASE o \in Tables /\ TraverseWeakValue(o)
  BY <1>2, <1>3, <1>5 DEF TraverseWeakValue
<1>6. CASE o \in Tables /\ TraverseAllWeak(o)
  BY <1>2, <1>3, <1>6 DEF TraverseAllWeak
<1>7. CASE UNCHANGED <<weak, ephemeron, allweak>>
  BY <1>2, <1>3, <1>7
<1>. QED
  BY <1>4, <1>5, <1>6, <1>7
     DEF Propagate, TraverseStrong, TraverseProto, TraverseCClosure, TraverseLClosure, TraverseThread

(* The steps of the atomic phase before it enters the sweep.               *)
LEMMA AtomicModes ==
  ASSUME TypeOK, TypeOK', ModesOK, Atomically, atom'.pc # "idle", UNCHANGED mt, MarksStay,
         \A t \in Tables : entries'[t] \subseteq entries[t],
         \A t \in weak' \ weak : Mode(t) = "v",
         \A t \in (ephemeron' \union atom'.eph) \ (ephemeron \union atom.eph) : Mode(t) = "k",
         \A t \in allweak' \ allweak :
           Mode(t) = "kv" \/ (Mode(t) = "k" /\ \A e \in entries[t] : ~ValueWhite(e, color'))
  PROVE  ModesOK'
<1>1. \A t : Mode(t)' = Mode(t)
  BY DEF Mode
<1>2. \A t \in Tables : ValuesMarked(t) \/ (\A e \in entries[t] : ~ValueWhite(e, color'))
                          => ValuesMarked(t)'
  BY DEF ValuesMarked, ValueWhite, MarksStay
<1>3. weak' \subseteq Tables /\ allweak' \subseteq Tables
  BY DEF TypeOK, GrayOK
<1>4. ~Idling'
  BY DEF Idling
<1>. QED  BY <1>1, <1>2, <1>3, <1>4 DEF ModesOK

LEMMA CollectorModes ==
  ASSUME TypeOK, TypeOK', SafetyInv, ModesOK, CollectorStep PROVE ModesOK'
<1>1. CASE Restart
  <2>1. Idling /\ gcstate' = "propagate" /\ allweak' = {} /\ atom' = atom
    BY <1>1 DEF Restart, phaseVars
  <2>. QED  BY <2>1 DEF ModesOK, Atomically, Remarking, Idling
<1>2. CASE PropagateStep
  <2>1. PICK o \in gray : Propagate(o)
    BY <1>2 DEF PropagateStep
  <2>2. Idling /\ gcstate = "propagate" /\ gcstate' \in {"propagate", "atomic"}
    BY <1>2 DEF PropagateStep, SingleStep
  <2>3. color[o] = "gray" /\ \A x \in Obj : color[x] # otherwhite
    <3>1. o \in GrayOnes
      BY <2>2 DEF SafetyInv, GrayIdleOK, keepinvariant
    <3>. QED  BY <2>2, <3>1 DEF GrayOnes, SafetyInv, WhitesOK, Marking, keepinvariant
  <2>4. /\ UNCHANGED <<mt, atom>>
        /\ \A t \in allweak' \ allweak : Mode(t) = "kv"
    BY <2>1, <2>2, <2>3, PropagateLists
  <2>5. ~Atomically'
    BY <2>2, <2>4 DEF Atomically, Remarking, Idling
  <2>. QED  BY <2>2, <2>4, <2>5 DEF ModesOK, Mode, keepinvariant
<1>3. CASE AtomicEnter
  <2>1. /\ Idling /\ keepinvariant /\ atom' = At("pre")
        /\ UNCHANGED <<color, mt, entries, weak, ephemeron, allweak>>
    BY <1>3 DEF AtomicEnter, SingleStep, keepinvariant, grayVars, refVars
  <2>2. weak = {} /\ ephemeron = {} /\ atom.eph = {} /\ \A t \in allweak : Mode(t) = "kv"
    BY <2>1 DEF SafetyInv, GrayIdleOK, PhasesOK, ModesOK, Idling
  <2>3. atom'.pc = "pre" /\ atom'.eph = {}
    BY <2>1, <2>2 DEF At, TypeOK, PhaseOK
  <2>. QED  BY <2>1, <2>2, <2>3 DEF ModesOK, Mode, Idling
<1>4. CASE PropagateAll
  <2>1. PICK o \in gray : Propagate(o)
    BY <1>4 DEF PropagateAll
  <2>2. Atomically /\ gcstate # "propagate"
    BY <1>4 DEF PropagateAll, SafetyInv, PhasesOK, Atomically, Remarking
  <2>3. color[o] = "gray" /\ \A x \in Obj : color[x] # otherwhite
    <3>1. o \in GrayOnes
      BY <2>2 DEF SafetyInv, GrayAtomicOK, Work
    <3>2. Marking
      BY <2>2 DEF SafetyInv, PhasesOK, Atomically, Marking, keepinvariant
    <3>. QED  BY <3>1, <3>2 DEF GrayOnes, SafetyInv, WhitesOK
  <2>4. /\ UNCHANGED <<mt, entries, atom>> /\ MarksStay
        /\ \A t \in weak' \ weak : Mode(t) = "v"
        /\ \A t \in ephemeron' \ ephemeron : Mode(t) = "k"
        /\ \A t \in allweak' \ allweak :
             Mode(t) = "kv" \/ (Mode(t) = "k" /\ \A e \in entries[t] : ~ValueWhite(e, color'))
    BY <2>1, <2>3, PropagateLists
  <2>5. atom'.pc # "idle"
    BY <1>4, <2>4 DEF PropagateAll
  <2>. QED  BY <2>2, <2>4, <2>5, AtomicModes
<1>5. CASE AtomicStart \/ \E th \in twups : RemarkUpvals(th)
  <2>1. /\ Atomically /\ atom'.pc # "idle" /\ atom'.eph = atom.eph
        /\ UNCHANGED <<mt, entries, weak, ephemeron, allweak>>
        /\ \E W : Mark(W, color, gray)
    <3>1. CASE AtomicStart
      BY <3>1 DEF AtomicStart, Atomically, At, quietVars, TypeOK, PhaseOK
    <3>2. CASE \E th \in twups : RemarkUpvals(th)
      BY <3>2 DEF RemarkUpvals, SafetyInv, PhasesOK, Atomically, Remarking, quietVars, phaseVars
    <3>. QED  BY <1>5, <3>1, <3>2
  <2>2. MarksStay
    <3>1. PICK W : Mark(W, color, gray)
      BY <2>1
    <3>2. Marks(color, color')
      BY <3>1, ColorFacts, MarkedMarks DEF Mark, TypeOK
    <3>. QED  BY <3>2 DEF Marks, MarksStay, Whites
  <2>. QED  BY <2>1, <2>2, AtomicModes
<1>6. CASE RemarkDone \/ GrayAgain \/ ConvergeRound
  <2>1. /\ Atomically /\ UNCHANGED <<color, mt, entries, weak, allweak>>
        /\ ephemeron' \union atom'.eph \subseteq ephemeron \union atom.eph
    BY <1>6, ZenonT(60) DEF RemarkDone, GrayAgain, ConvergeRound, At, SafetyInv, PhasesOK, Atomically,
                Remarking, TypeOK, PhaseOK, grayVars, refVars
  <2>2. atom'.pc # "idle"
    BY <1>6 DEF RemarkDone, GrayAgain, ConvergeRound, At, TypeOK, PhaseOK
  <2>3. MarksStay
    BY <2>1 DEF MarksStay
  <2>. QED  BY <2>1, <2>2, <2>3, AtomicModes
<1>7. CASE \E w \in Tables : ConvergeVisit(w)
  <2>1. PICK w \in Tables : ConvergeVisit(w)
    BY <1>7
  <2>2. PICK early \in SUBSET entries[w] : VisitEphemeron(w, color, gray, ephemeron, early)
    BY <2>1 DEF ConvergeVisit
  <2>3. /\ Atomically /\ atom'.pc # "idle" /\ atom'.eph \subseteq atom.eph /\ w \in atom.eph
        /\ UNCHANGED <<mt, entries, weak>> /\ gcstate # "propagate"
    BY <2>1 DEF ConvergeVisit, SafetyInv, PhasesOK, Atomically, Remarking, TypeOK, PhaseOK, refVars
  <2>4. Mode(w) = "k"
    BY <2>3 DEF ModesOK
  <2>5. /\ Marks(color, color') /\ ephemeron' \subseteq ephemeron \union {w}
    <3>1. RefsOK /\ color \in [Obj -> Colors]
      BY ColorFacts DEF TypeOK
    <3>2. /\ Marks(color, color')
          /\ gcstate # "propagate" =>
               ephemeron \subseteq ephemeron' /\ ephemeron' \subseteq ephemeron \union {w}
      BY <2>2, <3>1, VisitFacts
    <3>. QED  BY <2>3, <3>2
  <2>6. \/ allweak' = allweak
        \/ /\ allweak' = allweak \union {w}
           /\ \A e \in entries[w] : ~ValueWhite(e, color')
    BY <2>2, ColorFacts, VisitDemotes DEF TypeOK
  <2>7. MarksStay
    BY <2>5 DEF Marks, MarksStay, Whites
  <2>. QED  BY <2>3, <2>4, <2>5, <2>6, <2>7, AtomicModes
<1>8. CASE Separate
  <2>1. /\ Atomically /\ atom'.pc # "idle" /\ atom'.eph = atom.eph
        /\ UNCHANGED <<mt, weak, ephemeron, allweak>>
        /\ \A t \in Tables : entries'[t] \subseteq entries[t]
    BY <1>8 DEF Separate, Converged, SafetyInv, PhasesOK, Atomically, Remarking, At, quietVars,
                TypeOK, PhaseOK
  <2>2. MarksStay
    <3>1. PICK V, W : Mark(W, Marked(V, color), gray)
      BY <1>8 DEF Separate
    <3>2. /\ Marks(color, Marked(V, color))
          /\ Marked(V, color) \in [Obj -> Colors]
      BY ColorFacts, MarkedMarks DEF TypeOK
    <3>3. Marks(Marked(V, color), color')
      BY <3>1, <3>2, MarkedMarks DEF Mark, TypeOK
    <3>4. Marks(color, color')
      BY <3>2, <3>3, MarksTwice
    <3>. QED  BY <3>4 DEF Marks, MarksStay, Whites
  <2>. QED  BY <2>1, <2>2, AtomicModes
<1>9. CASE AtomicFinish
  <2>1. atom'.pc = "enter"
    BY <1>9 DEF AtomicFinish, Idle
  <2>. QED  BY <2>1 DEF ModesOK, Atomically, Remarking, Idling
<1>10. CASE EnterSweep
  <2>1. gcstate' = "swpallgc" /\ atom'.pc = "idle"
    BY <1>10 DEF EnterSweep, Idle
  <2>. QED  BY <2>1 DEF ModesOK, Atomically, Remarking, keepinvariant
<1>11. CASE \/ SweepStep \/ SweepEnd \/ StepEnd \/ FullEnd \/ FewEnd \/ Pause
            \/ \E o \in tobefnz : CallFin(o) \/ FewMore(o) \/ StepFinalizers(o)
  <2>1. Idling /\ atom' = atom
    <3>1. TopIs("few") => Idling
      BY DEF SafetyInv, PhasesOK, TopIs, Idling
    <3>. QED
      BY <1>11, <3>1 DEF SweepStep, SweepEnd, StepEnd, FullEnd, FewEnd, Pause, CallFin, FewMore,
         StepFinalizers, GCTM, SingleStep, phaseVars
  <2>2. \/ UNCHANGED <<gcstate, allweak, mt>>
        \/ gcstate' \in {"swpallgc", "swpfinobj", "swptobefnz", "swpend", "callfin", "pause"}
    BY <1>11, ZenonT(60) DEF SweepStep, SweepEnd, StepEnd, FullEnd, FewEnd, Pause, CallFin, FewMore,
       StepFinalizers, GCTM, NextSweep, phaseVars, grayVars, refVars
  <2>3. gcstate # "insideatomic" /\ atom'.pc = "idle"
    BY <2>1 DEF SafetyInv, PhasesOK, Idling
  <2>. QED  BY <2>1, <2>2, <2>3, QuietModes DEF keepinvariant
<1>. QED
  BY <1>1, <1>2, <1>3, <1>4, <1>5, <1>6, <1>7, <1>8, <1>9, <1>10, <1>11
     DEF CollectorStep, Atomic, Sweeping, Finalizing

LEMMA ModesNext ==
  ASSUME TypeOK, TypeOK', SafetyInv, ModesOK, AllWeakStays, [Next]_vars PROVE ModesOK'
<1>1. CASE Mutate
  BY <1>1, MutateModesOK
<1>2. CASE CollectorStep
  BY <1>2, CollectorModes
<1>3. CASE FinalizerEnd
  <2>1. Idling /\ atom.pc = "idle" /\ gcstate # "insideatomic"
    BY <1>3 DEF FinalizerEnd, TopIs, SafetyInv, PhasesOK, Idling
  <2>2. UNCHANGED <<atom, gcstate, allweak, mt>>
    BY <1>3 DEF FinalizerEnd, phaseVars, refVars
  <2>. QED  BY <2>1, <2>2, QuietModes DEF keepinvariant
<1>4. CASE \E emergency \in FullKinds : FullGC(emergency)
  <2>1. MutatorOn
    BY <1>4 DEF FullGC, CanCall
  <2>2. Idling /\ ~Remarking
    BY <2>1, MutatorIdle DEF SafetyInv
  <2>3. /\ UNCHANGED <<gcstate, allweak, mt>> /\ (atom' = At("enter") \/ atom' = atom)
    BY <1>4 DEF FullGC, grayVars, refVars
  <2>4. atom'.pc \in {"idle", "enter"} /\ gcstate # "insideatomic"
    BY <2>2, <2>3 DEF At, Idling, Remarking, TypeOK, PhaseOK
  <2>. QED  BY <2>2, <2>3, <2>4, QuietModes DEF keepinvariant
<1>5. CASE UNCHANGED vars
  BY <1>5 DEF vars, phaseVars, grayVars, refVars, ModesOK, Atomically, Remarking, Idling,
              keepinvariant, Mode, ValuesMarked
<1>. QED  BY <1>1, <1>2, <1>3, <1>4, <1>5 DEF Next

(***************************************************************************)
(* What is reachable is marked when the collector clears and separates.    *)
(***************************************************************************)
LEMMA StrongRefsIn ==
  ASSUME TypeOK, NEW o \in Obj, NEW S
  PROVE  /\ StrongRefs(o, S) \subseteq Refs(o)
         /\ \A T : FieldsIn(o, T) => StrongRefs(o, S) \subseteq T
<1>1. StrongRefs(o, S) \subseteq Refs(o)
  BY DEF StrongRefs, Refs, Objs, Keys, Values
<1>. QED  BY <1>1, RefsIn

(* What the program can reach is not going to be freed.                    *)
LEMMA ReachableNotDead ==
  ASSUME TypeOK, SafetyInv PROVE Reachable \subseteq NotDead
<1>1. /\ Roots \subseteq NotDead /\ NotDead \in SUBSET Alloc
      /\ \A o \in NotDead : Refs(o) \subseteq NotDead
  BY KeptRefs DEF SafetyInv, NoDanglingRef, NotDead
<1>2. \A o \in NotDead : StrongRefs(o, NotDead) \subseteq NotDead
  BY <1>1, StrongRefsIn, ColorFacts
<1>. QED  BY <1>1, <1>2 DEF Reachable, KeptAlive

(* A gray table that has been visited.                                     *)
LEMMA VisitedTable ==
  ASSUME TypeOK, SafetyInv, ModesOK, atom.pc \in {"eph1", "eph2"}, atom.eph = {}, ~atom.changed,
         NEW o \in Tables, color[o] = "gray", Visited(o)
  PROVE  StrongRefs(o, Reached \union (Strings \intersect Alloc))
           \subseteq Reached \union (Strings \intersect Alloc)
<1>. DEFINE R == Reached \union (Strings \intersect Alloc)
<1>1. Atomically
  BY DEF SafetyInv, PhasesOK, Atomically, Remarking
<1>2. o \in Obj /\ o \notin Threads /\ o \in NotDead
  BY Kinds, OneKind, ColorFacts
<1>3. In(mt[o], Reached)
  BY <1>2 DEF Visited
<1>4. KeysIn(o, NotDead) /\ ValuesIn(o, NotDead)
  BY <1>2 DEF SafetyInv, KeptOK, FieldsIn, BaseIn
<1>5. \A e \in entries[o] : (e[1] \in Strings => e[1] \in R) /\ (e[2] \in Strings => e[2] \in R)
  BY <1>4, Kinds, ColorFacts DEF KeysIn, ValuesIn, In
<1>6. Marking
  BY <1>1 DEF SafetyInv, PhasesOK, Atomically, Marking, keepinvariant
<1>7. \A x \in NotDead : ~IsWhite(x) => x \in Reached
  BY ColorFacts DEF Reached, IsWhite, Colors
<1>8. \A x \in R : x \notin Strings => ~IsWhite(x)
  BY ColorFacts DEF Reached, IsWhite
<1>9. StrongRefs(o, R) =
        Objs({mt[o]} \union
             (CASE Mode(o) = ""   -> Keys(o) \union Values(o)
                [] Mode(o) = "v"  -> Keys(o) \union {x \in Values(o) : ~Weakable(x)}
                [] Mode(o) = "k"  -> {e[2] : e \in {d \in entries[o] : Weakable(d[1]) => d[1] \in R}}
                                       \union {x \in Keys(o) : ~Weakable(x)}
                [] OTHER          -> {x \in Keys(o) \union Values(o) : ~Weakable(x)}))
  BY OneKind DEF StrongRefs
<1>10. {x \in Keys(o) : ~Weakable(x)} \intersect Obj \subseteq R
       /\ {x \in Values(o) : ~Weakable(x)} \intersect Obj \subseteq R
  BY <1>5 DEF Keys, Values, Weakable
<1>11. CASE KeysIn(o, Reached) /\ ValuesIn(o, Reached)
  <2>1. FieldsIn(o, Reached)
    BY <1>2, <1>3, <1>11, OneKind DEF FieldsIn, BaseIn
  <2>. QED  BY <1>2, <2>1, StrongRefsIn
<1>12. CASE o \in weak /\ KeysIn(o, Reached)
  <2>1. Mode(o) = "v"
    BY <1>1, <1>12 DEF ModesOK
  <2>2. StrongRefs(o, R) = Objs({mt[o]} \union (Keys(o) \union {x \in Values(o) : ~Weakable(x)}))
    BY <1>9, <2>1
  <2>. QED  BY <1>3, <1>10, <1>12, <2>2 DEF Objs, Keys, KeysIn, In
<1>13. CASE o \in ephemeron \/ (o \in allweak /\ Mode(o) = "k")
  <2>1. Mode(o) = "k"
    BY <1>1, <1>13 DEF ModesOK
  <2>2. ASSUME NEW e \in entries[o], Weakable(e[1]) => e[1] \in R, e[2] \in Obj
        PROVE  e[2] \in R
    <3>1. KeyMarked(e, color)
      BY <1>8, <2>2 DEF KeyMarked, Weakable, IsWhite
    <3>2. ~ValueWhite(e, color)
      <4>1. CASE o \in ephemeron
        BY <3>1, <4>1 DEF SafetyInv, ConvergenceOK, Settled
      <4>2. CASE o \in allweak /\ Mode(o) = "k"
        <5>1. ValuesMarked(o)
          BY <1>1, <4>2 DEF ModesOK
        <5>. QED  BY <5>1 DEF ValuesMarked
      <4>. QED  BY <1>13, <4>1, <4>2
    <3>3. ~IsWhite(e[2]) /\ e[2] \in NotDead
      BY <1>4, <2>2, <3>2 DEF ValueWhite, IsWhite, ValuesIn, In
    <3>. QED  BY <1>7, <3>3
  <2>3. StrongRefs(o, R) =
          Objs({mt[o]} \union ({e[2] : e \in {d \in entries[o] : Weakable(d[1]) => d[1] \in R}}
                                 \union {x \in Keys(o) : ~Weakable(x)}))
    BY <1>9, <2>1
  <2>. HIDE DEF R
  <2>4. Objs({e[2] : e \in {d \in entries[o] : Weakable(d[1]) => d[1] \in R}}) \subseteq R
    BY <2>2 DEF Objs
  <2>5. Objs({mt[o]}) \subseteq R
    BY <1>3 DEF Objs, In, R
  <2>6. StrongRefs(o, R) \subseteq R
    BY <1>10, <2>3, <2>4, <2>5 DEF Objs
  <2>. QED  BY <2>6 DEF R
<1>14. CASE o \in allweak /\ Mode(o) = "kv"
  <2>1. StrongRefs(o, R) = Objs({mt[o]} \union {x \in Keys(o) \union Values(o) : ~Weakable(x)})
    BY <1>9, <1>14
  <2>. QED  BY <1>3, <1>10, <2>1 DEF Objs, In
<1>15. o \in allweak => Mode(o) \in {"k", "kv"}
  BY <1>1 DEF ModesOK
<1>. QED  BY <1>2, <1>11, <1>12, <1>13, <1>14, <1>15, OneKind DEF Visited

(* When the marks have converged, they cover all that is reachable.        *)
LEMMA ReachableMarked ==
  ASSUME TypeOK, SafetyInv, ModesOK, Converged("eph1") \/ Converged("eph2")
  PROVE  /\ Reachable \subseteq Reached \union Strings
         /\ \A x \in Reachable : Weakable(x) => ~IsWhite(x)
         /\ \A t \in Tables : t \in Reachable => t \in Reached
<1>. DEFINE R == Reached \union (Strings \intersect Alloc)
<1>1. /\ atom.pc \in {"eph1", "eph2"} /\ gray = {} /\ atom.eph = {} /\ ~atom.changed
      /\ Atomically /\ Remarking /\ Marking /\ ~keepinvariant /\ Work = {} /\ atom.pc # "remark"
  BY DEF Converged, SafetyInv, PhasesOK, Atomically, Remarking, Marking, keepinvariant, Work, Again
<1>2. R \in SUBSET Alloc
  BY ColorFacts
<1>3. Roots \subseteq R
  BY <1>1 DEF SafetyInv, RootsOK, Roots, Objs, In
<1>4. ASSUME NEW o \in R PROVE StrongRefs(o, R) \subseteq R
  <2>0. o \in Obj
    BY <1>2 DEF Alloc
  <2>1. CASE o \in Tables /\ color[o] = "gray"
    <3>1. Visited(o)
      BY <1>1, <2>0, <2>1 DEF SafetyInv, GrayAtomicOK, GrayOnes
    <3>. QED  BY <1>1, <2>1, <3>1, VisitedTable
  <2>2. CASE o \in Threads /\ color[o] = "gray"
    <3>1. StackIn(o, Reached)
      BY <1>1, <2>0, <2>2, OneKind DEF SafetyInv, GrayAtomicOK, GrayOnes, Visited
    <3>2. StrongRefs(o, R) = Objs(StackRefs(o))
      BY <2>2, OneKind DEF StrongRefs
    <3>. QED  BY <3>1, <3>2 DEF Objs, StackRefs, OpenUpvals, StackIn, In
  <2>3. CASE o \notin Tables \union Threads /\ color[o] = "gray"
    BY <1>1, <2>0, <2>3 DEF SafetyInv, GrayAtomicOK, GrayOnes, Visited
  <2>4. CASE color[o] = "black"
    <3>1. BaseIn(o, Reached) /\ (o \in LClosures => UpvalueOK(o))
      BY <1>1, <2>0, <2>4 DEF SafetyInv, BlackOK
    <3>2. ASSUME o \in LClosures PROVE upv[o] \in UpVals /\ In(uv[upv[o]].v, Reached)
      <4>1. upv[o] \in UpVals
        BY <2>4, <3>2 DEF SafetyInv, ClosuresOK
      <4>2. CASE IsOpen(upv[o]) /\ uv[upv[o]].th \in Reached
        <5>1. uv[upv[o]].th \in Threads /\ color[uv[upv[o]].th] = "gray"
          BY <4>2 DEF IsOpen, Reached, SafetyInv, KindsOK
        <5>2. StackIn(uv[upv[o]].th, Reached)
          BY <1>1, <5>1, OneKind, Kinds DEF SafetyInv, GrayAtomicOK, GrayOnes, Visited
        <5>. QED  BY <4>1, <5>2 DEF StackIn
      <4>. QED  BY <1>1, <3>1, <3>2, <4>1, <4>2 DEF UpvalueOK
    <3>3. FieldsIn(o, Reached)
      BY <3>1, <3>2 DEF FieldsIn
    <3>. QED  BY <2>0, <3>3, StrongRefsIn
  <2>5. CASE o \in Strings
    BY <2>5, OneKind DEF StrongRefs, Refs, Objs
  <2>. QED  BY <2>1, <2>2, <2>3, <2>4, <2>5 DEF Reached
<1>5. Reachable \subseteq R
  <2>1. KeptAlive(R)
    BY <1>3, <1>4 DEF KeptAlive
  <2>. HIDE DEF R
  <2>. QED  BY <1>2, <2>1 DEF Reachable
<1>6. \A x \in Reached : ~IsWhite(x)
  BY ColorFacts DEF Reached, IsWhite
<1>. QED  BY <1>5, <1>6, OneKind DEF Weakable

(***************************************************************************)
(* The theorems.                                                           *)
(***************************************************************************)
(* Only separatetobefnz makes finalizers pending.                          *)
LEMMA OnlySeparates ==
  ASSUME TypeOK, [Next]_vars, ~Separate PROVE tobefnz' \subseteq tobefnz
<1>. USE DEF listVars
<1>1. CASE Mutate
  BY <1>1, MutateModes
<1>2. CASE CollectorStep
  <2>1. CASE Restart \/ PropagateStep
    BY <2>1 DEF Restart, PropagateStep, Propagate
  <2>2. CASE Atomic
    <3>1. CASE AtomicEnter \/ PropagateAll \/ AtomicStart
      BY <3>1 DEF AtomicEnter, PropagateAll, Propagate, AtomicStart
    <3>2. CASE RemarkDone \/ GrayAgain \/ ConvergeRound \/ AtomicFinish
      BY <3>2 DEF RemarkDone, GrayAgain, ConvergeRound, AtomicFinish
    <3>3. CASE (\E th \in twups : RemarkUpvals(th)) \/ \E w \in Tables : ConvergeVisit(w)
      BY <3>3 DEF RemarkUpvals, ConvergeVisit
    <3>. QED  BY <2>2, <3>1, <3>2, <3>3 DEF Atomic
  <2>3. CASE Sweeping
    BY <2>3 DEF Sweeping, EnterSweep, SweepStep, SweepEnd, Collect
  <2>4. CASE Finalizing
    BY <2>4 DEF Finalizing, CallFin, FewMore, StepFinalizers, GCTM, FewEnd, Pause
  <2>5. CASE StepEnd \/ FullEnd
    BY <2>5 DEF StepEnd, FullEnd
  <2>. QED  BY <1>2, <2>1, <2>2, <2>3, <2>4, <2>5 DEF CollectorStep
<1>3. CASE FinalizerEnd \/ (\E emergency \in FullKinds : FullGC(emergency)) \/ UNCHANGED vars
  BY <1>3 DEF FinalizerEnd, FullGC, vars
<1>. QED  BY <1>1, <1>2, <1>3 DEF Next

(* Nothing but the clearing of weak tables and the sweep takes an entry    *)
(* from a table while the program does not run.                            *)
LEMMA OnlyClears ==
  ASSUME TypeOK, [Next]_vars, ~MutatorOn \/ cstack' # cstack,
         NEW t \in Tables, NEW e \in entries[t], e \notin entries'[t]
  PROVE  Separate \/ AtomicFinish \/ IsDead(t)
<1>. USE DEF refVars
<1>1. CASE Mutate
  BY <1>1, MutateModes
<1>2. CASE CollectorStep
  <2>1. CASE Restart \/ PropagateStep
    BY <2>1 DEF Restart, PropagateStep, Propagate
  <2>2. CASE Atomic
    <3>1. CASE AtomicEnter \/ PropagateAll \/ AtomicStart
      BY <3>1 DEF AtomicEnter, PropagateAll, Propagate, AtomicStart
    <3>2. CASE RemarkDone \/ GrayAgain \/ ConvergeRound
      BY <3>2 DEF RemarkDone, GrayAgain, ConvergeRound
    <3>3. CASE (\E th \in twups : RemarkUpvals(th)) \/ \E w \in Tables : ConvergeVisit(w)
      BY <3>3 DEF RemarkUpvals, ConvergeVisit
    <3>. QED  BY <2>2, <3>1, <3>2, <3>3 DEF Atomic
  <2>3. CASE EnterSweep \/ SweepStep
    <3>1. PICK C : Collect(C)
      BY <2>3 DEF EnterSweep, SweepStep
    <3>2. entries' = Erase(Dead(C), entries, {})
      BY <3>1 DEF Collect, Free
    <3>3. t \in Dead(C)
      BY <3>2 DEF Erase, TypeOK, RefsOK
    <3>. QED  BY <3>3 DEF Dead
  <2>4. CASE SweepEnd \/ Finalizing
    BY <2>4 DEF SweepEnd, Finalizing, CallFin, FewMore, StepFinalizers, GCTM, FewEnd, Pause
  <2>5. CASE StepEnd \/ FullEnd
    BY <2>5 DEF StepEnd, FullEnd
  <2>. QED  BY <1>2, <2>1, <2>2, <2>3, <2>4, <2>5 DEF CollectorStep, Sweeping
<1>3. CASE FinalizerEnd \/ (\E emergency \in FullKinds : FullGC(emergency)) \/ UNCHANGED vars
  BY <1>3 DEF FinalizerEnd, FullGC, vars
<1>. QED  BY <1>1, <1>2, <1>3 DEF Next

(* What a step does, for the three theorems.                               *)
LEMMA SeparateStep ==
  ASSUME TypeOK, SafetyInv, ModesOK, Separate
  PROVE  /\ tobefnz' \subseteq tobefnz \union (Alloc \ Reachable)
         /\ \A t \in Tables : t \in Reachable /\ Mode(t) \in {"v", "kv"} =>
              \A e \in entries'[t] : e[2] \notin tobefnz' \ tobefnz
         /\ \A t \in Tables : \A e \in entries[t] \ entries'[t] :
              Weakable(e[2]) /\ e[2] \notin Reachable
<1>1. /\ Converged("eph1")
      /\ tobefnz' = tobefnz \union {o \in finobj : IsWhite(o)}
      /\ entries' = [t \in Tables |-> IF t \in weak \union allweak
                                      THEN {e \in entries[t] : ~Cleared(e[2])} ELSE entries[t]]
  BY DEF Separate
<1>2. /\ \A x \in Reachable : Weakable(x) => ~IsWhite(x)
      /\ \A t \in Tables : t \in Reachable => t \in Reached
  BY <1>1, ReachableMarked
<1>3. \A o \in finobj : Weakable(o) /\ o \in Alloc
  BY OneKind, Kinds DEF SafetyInv, MetasOK, ListsPartition, Weakable
<1>4. tobefnz' \subseteq tobefnz \union (Alloc \ Reachable)
  BY <1>1, <1>2, <1>3
<1>5. ASSUME NEW t \in Tables, t \in Reachable, Mode(t) \in {"v", "kv"}, NEW e \in entries'[t],
             e[2] \in tobefnz' \ tobefnz
      PROVE  FALSE
  <2>1. Cleared(e[2]) /\ IsWhite(e[2])
    BY <1>1, <1>3, <1>5 DEF Cleared
  <2>2. t \notin weak \union allweak /\ e \in entries[t]
    BY <1>1, <1>5, <2>1
  <2>3. Atomically /\ Marking /\ Work = {} /\ atom.eph = {}
    BY <1>1 DEF Converged, SafetyInv, PhasesOK, Atomically, Remarking, Marking, keepinvariant, Work, Again
  <2>4. t \in Reached /\ t \in Obj
    BY <1>2, <1>5, Kinds
  <2>5. t \notin ephemeron
    BY <1>5, <2>3 DEF ModesOK
  <2>6. ValuesIn(t, Reached)
    <3>1. CASE color[t] = "black"
      BY <2>3, <2>4, <3>1 DEF SafetyInv, BlackOK, BaseIn
    <3>2. CASE color[t] = "gray"
      <4>1. Visited(t)
        BY <2>3, <2>4, <3>2 DEF SafetyInv, GrayAtomicOK, GrayOnes
      <4>. QED  BY <2>2, <2>3, <2>5, <4>1, OneKind DEF Visited
    <3>. QED  BY <2>4, <3>1, <3>2 DEF Reached
  <2>7. e[2] \in Reached
    BY <2>1, <2>2, <2>6 DEF ValuesIn, In, Cleared, Weakable
  <2>. QED  BY <2>1, <2>7, ColorFacts DEF Reached, IsWhite
<1>6. ASSUME NEW t \in Tables, NEW e \in entries[t] \ entries'[t]
      PROVE  Weakable(e[2]) /\ e[2] \notin Reachable
  BY <1>1, <1>2, <1>6 DEF Cleared
<1>. QED  BY <1>4, <1>5, <1>6

LEMMA FinishStep ==
  ASSUME TypeOK, SafetyInv, ModesOK, AtomicFinish
  PROVE  \A t \in Tables : \A e \in entries[t] \ entries'[t] :
           \/ Weakable(e[1]) /\ e[1] \notin Reachable
           \/ Weakable(e[2]) /\ e[2] \notin Reachable
<1>1. Converged("eph2")
  BY DEF AtomicFinish
<1>2. \A x : Cleared(x) => Weakable(x) /\ x \notin Reachable
  BY <1>1, ReachableMarked DEF Cleared
<1>3. ASSUME NEW t \in Tables, NEW e \in entries[t] \ entries'[t]
      PROVE  Cleared(e[1]) \/ Cleared(e[2])
  BY <1>3 DEF AtomicFinish
<1>. QED  BY <1>2, <1>3

(* The invariants hold together.                                           *)
LEMMA WeakInv ==
  ASSUME AllWeakStays
  PROVE  /\ HeapInit => TypeOK /\ SafetyInv /\ ModesOK
         /\ TypeOK /\ SafetyInv /\ ModesOK /\ FewPending /\ [Next]_vars
              => (TypeOK /\ SafetyInv /\ ModesOK)'
<1>1. OneAllWeakMeta
  BY DEF AllWeakStays, OneAllWeakMeta
<1>2. HeapInit => ModesOK
  BY DEF HeapInit, ModesOK, Atomically, Remarking, Idle
<1>. QED  BY <1>1, <1>2, TypeInit, TypeNext, SafetyInit, SafetyNext, ModesNext

(* The collector never takes for garbage, to call its finalizer, an object *)
(* that the program can still reach.                                       *)
THEOREM GarbageFinalized ==
  ASSUME AllWeakStays PROVE Spec /\ []FewPending => OnlyGarbageFinalized
<1>1. TypeOK /\ SafetyInv /\ ModesOK /\ [Next]_vars
        => [tobefnz' \subseteq tobefnz \union (Alloc \ Reachable)]_vars
  BY OnlySeparates, SeparateStep
<1>. QED  BY <1>1, WeakInv, PTL DEF Spec, OnlyGarbageFinalized

(* When atomic() makes finalizers pending, their objects are gone from the *)
(* weak values that the program can reach.                                 *)
THEOREM ValuesCleared ==
  ASSUME AllWeakStays PROVE Spec /\ []FewPending => WeakValuesCleared
<1>1. TypeOK /\ SafetyInv /\ ModesOK /\ [Next]_vars
        => [\A t \in Tables \intersect (IF tobefnz' = tobefnz THEN {} ELSE Reachable) :
              Mode(t) \in {"v", "kv"} =>
                \A e \in entries'[t] : e[2] \notin tobefnz' \ tobefnz]_vars
  BY OnlySeparates, SeparateStep
<1>. QED  BY <1>1, WeakInv, PTL DEF Spec, WeakValuesCleared

(* clearkeys and clearvalues take only entries with a half that is garbage *)
(* from a weak table that the program can reach, and the sweep frees only  *)
(* tables that it cannot.                                                  *)
THEOREM EntriesKept ==
  ASSUME AllWeakStays PROVE Spec /\ []FewPending => WeakEntriesKept
<1>1. ASSUME TypeOK, SafetyInv, ModesOK, [Next]_vars, ~MutatorOn \/ cstack' # cstack,
             NEW t \in Tables, NEW e \in entries[t] \ entries'[t], t \in Reachable
      PROVE  \/ Weakable(e[1]) /\ e[1] \notin Reachable
             \/ Weakable(e[2]) /\ e[2] \notin Reachable
  <2>1. ~IsDead(t)
    BY <1>1, ReachableNotDead DEF NotDead
  <2>2. Separate \/ AtomicFinish
    BY <1>1, <2>1, OnlyClears
  <2>. QED  BY <1>1, <2>2, SeparateStep, FinishStep
<1>2. TypeOK /\ SafetyInv /\ ModesOK /\ [Next]_vars
        => [~MutatorOn \/ cstack' # cstack =>
              \A t \in Tables : \A e \in entries[t] \ entries'[t] :
                t \in Reachable => \/ Weakable(e[1]) /\ e[1] \notin Reachable
                                   \/ Weakable(e[2]) /\ e[2] \notin Reachable]_vars
  BY <1>1
<1>. QED  BY <1>2, WeakInv, PTL DEF Spec, WeakEntriesKept

(* When the mark phase is over, what a gray object keeps alive is marked:  *)
(* the finding all_weak needs a table with two metatables.                 *)
THEOREM GrayAlwaysRevisited ==
  ASSUME OneAllWeakMeta PROVE Spec /\ []FewPending => []GrayRevisited
<1>1. TypeOK /\ SafetyInv => GrayRevisited
  <2>. SUFFICES ASSUME TypeOK, SafetyInv, NEW o \in Obj, color[o] = "gray",
                       NEW x \in StrongRefs(o, NotDead)
                PROVE  ~IsDead(x)
    BY DEF GrayRevisited
  <2>1. o \in NotDead
    BY ColorFacts
  <2>2. x \in NotDead
    BY <2>1, KeptRefs, StrongRefsIn DEF SafetyInv
  <2>. QED  BY <2>2 DEF NotDead
<1>. QED  BY <1>1, TypeInit, TypeNext, SafetyInit, SafetyNext, PTL DEF Spec
=============================================================================
