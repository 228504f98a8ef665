--------------------------- MODULE LuaCallProofs ---------------------------
(***************************************************************************)
(* Proofs about LuaCall.  The invariants of LuaStacks are inductive, for   *)
(* every program, every limit and any number of coroutines: first the C    *)
(* stack and the counters, then the frames with their help, one lemma per  *)
(* action each.  That the counters are exact follows.                      *)
(***************************************************************************)
EXTENDS LuaStacks, FiniteSetTheorems, NaturalsInduction, WellFoundedInduction, TLAPS

-----------------------------------------------------------------------------
(* Counting activations.                                                   *)

(* Two C stacks with the same activations up to the i-th one count the     *)
(* same up to there.                                                       *)
LEMMA SamePrefix ==
  ASSUME NEW cs, NEW ds, NEW i \in Nat \ {0}, \A j \in 1 .. i : cs[j] = ds[j]
  PROVE  NC(cs, i) = NC(ds, i) /\ NY(cs, i) = NY(ds, i) /\ HooksOn(cs, i) = HooksOn(ds, i)
<1>1. CCalls(cs, i) = CCalls(ds, i)
  BY DEF CCalls
<1>2. i \in 1 .. i /\ cs[i] = ds[i]
  OBVIOUS
<1>3. NoYields(cs, i) = NoYields(ds, i)
  BY <1>2 DEF NoYields
<1>. QED  BY <1>1, <1>2, <1>3 DEF NC, NY, HooksOn

LEMMA CountsFinite ==
  ASSUME NEW cs, NEW i \in Nat
  PROVE  /\ IsFiniteSet(CCalls(cs, i)) /\ IsFiniteSet(NoYields(cs, i))
         /\ NC(cs, i) \in Nat /\ NY(cs, i) \in Nat /\ Cardinality(NoYields(cs, i)) \in Nat
<1>1. IsFiniteSet(1 .. i)
  BY FS_Interval
<1>2. CCalls(cs, i) \subseteq 1 .. i /\ NoYields(cs, i) \subseteq 1 .. i
  BY DEF CCalls, NoYields
<1>3. IsFiniteSet(CCalls(cs, i)) /\ IsFiniteSet(NoYields(cs, i))
  BY <1>1, <1>2, FS_Subset
<1>4. Cardinality(CCalls(cs, i)) \in Nat /\ Cardinality(NoYields(cs, i)) \in Nat
  BY <1>3, FS_CardinalityType
<1>. QED  BY <1>3, <1>4 DEF NC, NY

Counts(a)  == IF a.kind \in {"call", "resume", "level"} THEN 1 ELSE 0
NoYield(a) == IF a.kind = "load" \/ (a.kind = "call" /\ a.noyield) THEN 1 ELSE 0

(* One more activation.                                                    *)
LEMMA OneMore ==
  ASSUME NEW cs, NEW i \in Nat
  PROVE  NC(cs, i + 1) = NC(cs, i) + Counts(cs[i + 1])
<1>1. i + 1 \notin CCalls(cs, i)
  BY DEF CCalls
<1>2. CASE cs[i + 1].kind \in {"call", "resume", "level"}
  <2>1. CCalls(cs, i + 1) = CCalls(cs, i) \union {i + 1}
    BY <1>2 DEF CCalls
  <2>. QED  BY <1>1, <1>2, <2>1, CountsFinite, FS_AddElement DEF NC, Counts
<1>3. CASE cs[i + 1].kind \notin {"call", "resume", "level"}
  <2>1. CCalls(cs, i + 1) = CCalls(cs, i)
    BY <1>3 DEF CCalls
  <2>. QED  BY <1>3, <2>1, CountsFinite DEF NC, Counts
<1>. QED  BY <1>2, <1>3

LEMMA OneMoreOfThread ==
  ASSUME NEW cs, NEW i \in Nat \ {0}, cs[i + 1].th = cs[i].th
  PROVE  /\ NY(cs, i + 1) = NY(cs, i) + NoYield(cs[i + 1])
         /\ HooksOn(cs, i + 1) = (HooksOn(cs, i) /\ cs[i + 1].kind \notin {"hook", "gctm"})
<1>1. i + 1 \notin NoYields(cs, i)
  BY DEF NoYields
<1>2. HooksOn(cs, i + 1) = (HooksOn(cs, i) /\ cs[i + 1].kind \notin {"hook", "gctm"})
  <2>1. 1 .. i + 1 = (1 .. i) \union {i + 1}
    OBVIOUS
  <2>. QED  BY <2>1 DEF HooksOn
<1>3. CASE NoYield(cs[i + 1]) = 1
  <2>1. NoYields(cs, i + 1) = NoYields(cs, i) \union {i + 1}
    BY <1>3 DEF NoYields, NoYield
  <2>. QED  BY <1>1, <1>2, <1>3, <2>1, CountsFinite, FS_AddElement DEF NY
<1>4. CASE NoYield(cs[i + 1]) = 0
  <2>1. NoYields(cs, i + 1) = NoYields(cs, i)
    BY <1>4 DEF NoYields, NoYield
  <2>. QED  BY <1>2, <1>4, <2>1, CountsFinite DEF NY
<1>. QED  BY <1>3, <1>4 DEF NoYield

(* The first activation of a coroutine.                                    *)
LEMMA FirstOfThread ==
  ASSUME NEW cs, NEW i \in Nat \ {0}, \A j \in 1 .. i - 1 : cs[j].th /= cs[i].th,
         cs[i].kind = "resume", cs[i].th /= Main
  PROVE  NY(cs, i) = 0 /\ HooksOn(cs, i)
<1>1. NoYields(cs, i) = {}
  BY DEF NoYields
<1>2. HooksOn(cs, i)
  BY DEF HooksOn
<1>. QED  BY <1>1, <1>2, FS_EmptySet DEF NY

-----------------------------------------------------------------------------
(* The C stack when an activation is pushed, and when it is cut.           *)

LEMMA ActivationKind ==
  ASSUME NEW a \in Activation
  PROVE  a.kind \in Kinds /\ a.th \in Threads /\ a.ci \in Nat
BY DEF Activation, Kinds, Bodies

LEMMA SameStack ==
  ASSUME NEW cs, NEW ds, NEW i \in Nat \ {0}, \A j \in 1 .. i : cs[j] = ds[j]
  PROVE  /\ Saved(cs, i) => Saved(ds, i)
         /\ Together(cs, i) => Together(ds, i)
         /\ Yieldable(cs, i) => Yieldable(ds, i)
<1>1. i \in 1 .. i /\ cs[i] = ds[i]
  OBVIOUS
<1>2. NC(cs, i) = NC(ds, i) /\ NY(cs, i) = NY(ds, i) /\ HooksOn(cs, i) = HooksOn(ds, i)
  BY SamePrefix
<1>3. HooksOn(cs, i - 1) = HooksOn(ds, i - 1)
  <2>1. CASE i = 1
    BY <2>1 DEF HooksOn
  <2>2. CASE i > 1
    <3>1. i - 1 \in Nat \ {0} /\ \A j \in 1 .. i - 1 : cs[j] = ds[j]
      BY <2>2
    <3>. QED  BY <3>1, SamePrefix
  <2>. QED  BY <2>1, <2>2
<1>4. Saved(cs, i) => Saved(ds, i)
  BY <1>1, <1>2, <1>3 DEF Saved
<1>5. Together(cs, i) => Together(ds, i)
  <2>. SUFFICES ASSUME Together(cs, i) PROVE Together(ds, i)
    OBVIOUS
  <2>1. PICK r \in 1 .. i : /\ \A j \in r .. i : cs[j].th = cs[i].th
                            /\ \A j \in 1 .. r - 1 : cs[j].th /= cs[i].th
                            /\ \A j \in r + 1 .. i : cs[j].kind \notin {"host", "resume"}
                            /\ cs[r].kind = (IF cs[i].th = Main THEN "host" ELSE "resume")
    BY DEF Together
  <2>2. /\ \A j \in r .. i : ds[j].th = ds[i].th
        /\ \A j \in 1 .. r - 1 : ds[j].th /= ds[i].th
        /\ \A j \in r + 1 .. i : ds[j].kind \notin {"host", "resume"}
        /\ ds[r].kind = (IF ds[i].th = Main THEN "host" ELSE "resume")
    BY <1>1, <2>1
  <2>. QED  BY <2>2 DEF Together
<1>6. Yieldable(cs, i) => Yieldable(ds, i)
  BY <1>1, <1>2 DEF Yieldable
<1>. QED  BY <1>4, <1>5, <1>6

(* The counters at the last activation.                                    *)
CN(cs) == NC(cs, Len(cs))
CY(cs) == NY(cs, Len(cs))
CH(cs) == HooksOn(cs, Len(cs))

LEMMA Pushed ==
  ASSUME NEW cs \in Seq(Activation), NEW b \in Activation
  PROVE  /\ Append(cs, b) \in Seq(Activation) /\ Len(Append(cs, b)) = Len(cs) + 1
         /\ Append(cs, b)[Len(cs) + 1] = b /\ \A j \in 1 .. Len(cs) : Append(cs, b)[j] = cs[j]
OBVIOUS

LEMMA Cut ==
  ASSUME NEW cs \in Seq(Activation), NEW n \in 0 .. Len(cs)
  PROVE  /\ SubSeq(cs, 1, n) \in Seq(Activation) /\ Len(SubSeq(cs, 1, n)) = n
         /\ \A j \in 1 .. n : SubSeq(cs, 1, n)[j] = cs[j]
OBVIOUS

(* The activations of a thread that are before its last one.               *)
LEMMA Segment ==
  ASSUME NEW cs, StackOK(cs), NEW i \in 1 .. Len(cs), NEW n \in 1 .. i, cs[n].th = cs[i].th
  PROVE  /\ \A j \in n .. i : cs[j].th = cs[i].th
         /\ \A j \in n + 1 .. i : cs[j].kind \notin {"host", "resume"}
<1>1. PICK r \in 1 .. i : /\ \A j \in r .. i : cs[j].th = cs[i].th
                          /\ \A j \in 1 .. r - 1 : cs[j].th /= cs[i].th
                          /\ \A j \in r + 1 .. i : cs[j].kind \notin {"host", "resume"}
  BY DEF StackOK, Together
<1>2. r <= n
  BY <1>1
<1>. QED  BY <1>1, <1>2

LEMMA StackCut ==
  ASSUME NEW cs, StackOK(cs), NEW n \in 1 .. Len(cs)
  PROVE  StackOK(SubSeq(cs, 1, n))
<1>. DEFINE ds == SubSeq(cs, 1, n)
<1>1. cs \in Seq(Activation) /\ n \in 0 .. Len(cs)
  BY DEF StackOK
<1>2. ds \in Seq(Activation) /\ Len(ds) = n /\ \A j \in 1 .. n : ds[j] = cs[j]
  BY <1>1, Cut
<1>. HIDE DEF ds
<1>3. ASSUME NEW i \in 1 .. n PROVE Saved(ds, i) /\ Together(ds, i) /\ Yieldable(ds, i)
  <2>1. Saved(cs, i) /\ Together(cs, i) /\ Yieldable(cs, i)
    BY DEF StackOK
  <2>2. i \in Nat \ {0} /\ \A j \in 1 .. i : cs[j] = ds[j]
    BY <1>2
  <2>. QED  BY <2>1, <2>2, SameStack
<1>4. ASSUME NEW i \in 2 .. n PROVE Made(ds[i - 1], ds[i])
  BY <1>2 DEF StackOK
<1>5. StackOK(ds)
  BY <1>2, <1>3, <1>4 DEF StackOK
<1>. QED  BY <1>5 DEF ds

LEMMA StackPush ==
  ASSUME NEW cs, StackOK(cs), NEW b \in Activation, b.kind /= "resume", Made(Last(cs), b),
         b.kind = "pcall" => b.ncc = CN(cs) /\ b.nny = CY(cs) /\ b.oah = CH(cs),
         b.kind = "gctm" => b.oah = CH(cs),
         b.kind = "hook" => CH(cs)
  PROVE  LET ds == Append(cs, b)
         IN /\ StackOK(ds) /\ Len(ds) = Len(cs) + 1 /\ Last(ds) = b
            /\ CN(ds) = CN(cs) + Counts(b) /\ CY(ds) = CY(cs) + NoYield(b)
            /\ CH(ds) = (CH(cs) /\ b.kind \notin {"hook", "gctm"})
<1>. DEFINE ds == Append(cs, b)  n == Len(cs)
<1>1. cs \in Seq(Activation) /\ n \in Nat \ {0} /\ Last(cs) = cs[n]
  BY DEF StackOK, Last
<1>2. ds \in Seq(Activation) /\ Len(ds) = n + 1 /\ ds[n + 1] = b /\ \A j \in 1 .. n : ds[j] = cs[j]
  BY <1>1, Pushed
<1>. HIDE DEF ds
<1>3. NC(ds, n) = CN(cs) /\ NY(ds, n) = CY(cs) /\ HooksOn(ds, n) = CH(cs)
  BY <1>1, <1>2, SamePrefix DEF CN, CY, CH
<1>4. ds[n + 1].th = ds[n].th /\ ds[n] = cs[n]
  BY <1>1, <1>2 DEF Made
<1>5. /\ NC(ds, n + 1) = CN(cs) + Counts(b) /\ NY(ds, n + 1) = CY(cs) + NoYield(b)
      /\ HooksOn(ds, n + 1) = (CH(cs) /\ b.kind \notin {"hook", "gctm"})
  BY <1>1, <1>2, <1>3, <1>4, OneMore, OneMoreOfThread, ZenonT(60)
<1>6. ASSUME NEW i \in 1 .. n PROVE Saved(ds, i) /\ Together(ds, i) /\ Yieldable(ds, i)
  <2>1. Saved(cs, i) /\ Together(cs, i) /\ Yieldable(cs, i)
    BY DEF StackOK
  <2>2. i \in Nat \ {0} /\ \A j \in 1 .. i : cs[j] = ds[j]
    BY <1>2
  <2>. QED  BY <2>1, <2>2, SameStack
<1>7. Saved(ds, n + 1)
  <2>1. n + 1 - 1 = n
    BY <1>1
  <2>2. b.kind = "pcall" => Counts(b) = 0 /\ NoYield(b) = 0
    BY DEF Counts, NoYield
  <2>3. CN(cs) \in Nat /\ CY(cs) \in Nat
    BY <1>1, CountsFinite DEF CN, CY
  <2>4. b.kind = "pcall" => /\ b.ncc = NC(ds, n + 1) /\ b.nny = NY(ds, n + 1)
                            /\ b.oah = HooksOn(ds, n + 1)
    <3>1. CH(cs) \in BOOLEAN
      BY DEF CH, HooksOn
    <3>2. b.kind = "pcall" => HooksOn(ds, n + 1) = CH(cs)
      BY <1>5, <3>1
    <3>. QED  BY <1>5, <2>2, <2>3, <3>2
  <2>. QED  BY <1>2, <1>3, <1>5, <2>1, <2>4 DEF Saved
<1>8. Together(ds, n + 1)
  <2>1. PICK r \in 1 .. n : /\ \A j \in r .. n : ds[j].th = ds[n].th
                            /\ \A j \in 1 .. r - 1 : ds[j].th /= ds[n].th
                            /\ \A j \in r + 1 .. n : ds[j].kind \notin {"host", "resume"}
                            /\ ds[r].kind = (IF ds[n].th = Main THEN "host" ELSE "resume")
    BY <1>1, <1>6 DEF Together
  <2>2. b.kind \notin {"host", "resume"}
    BY DEF Made, Callers, Bodies
  <2>3. /\ \A j \in r .. n + 1 : ds[j].th = ds[n + 1].th
        /\ \A j \in r + 1 .. n + 1 : ds[j].kind \notin {"host", "resume"}
    BY <1>1, <1>2, <1>4, <2>1, <2>2
  <2>. QED  BY <1>4, <2>1, <2>3 DEF Together
<1>9. Yieldable(ds, n + 1)
  <2>. SUFFICES ASSUME NY(ds, n + 1) = 0, b.kind \in Bodies \union {"call", "resume"},
                       NEW j \in 1 .. n + 1, ds[j].th = ds[n + 1].th
                PROVE  ds[j].kind \in Bodies \union {"call", "resume"}
    BY <1>2 DEF Yieldable
  <2>1. CY(cs) = 0 /\ NoYield(b) = 0
    BY <1>1, <1>3, <1>5, CountsFinite DEF NoYield
  <2>2. ds[n].th /= Main
    BY <1>1, <1>3, <2>1, CountsFinite, SMTT(40) DEF NY
  <2>3. ds[n].kind \in Bodies \union {"call", "resume"}
    BY <1>1, <1>2, <1>4, <2>1, <2>2 DEF Made, Callers, Bodies, NoYield
  <2>4. Yieldable(ds, n)
    BY <1>1, <1>6
  <2>. QED  BY <1>1, <1>2, <1>3, <1>4, <2>1, <2>3, <2>4 DEF Yieldable
<1>10. ASSUME NEW i \in 2 .. n + 1 PROVE Made(ds[i - 1], ds[i])
  <2>1. CASE i = n + 1
    BY <1>1, <1>2, <2>1
  <2>2. CASE i \in 2 .. n
    BY <1>2, <2>2 DEF StackOK
  <2>. QED  BY <1>1, <2>1, <2>2
<1>11. ASSUME NEW i \in 1 .. n + 1 PROVE Saved(ds, i) /\ Together(ds, i) /\ Yieldable(ds, i)
  BY <1>1, <1>6, <1>7, <1>8, <1>9
<1>12. StackOK(ds)
  BY <1>1, <1>2, <1>10, <1>11 DEF StackOK
<1>13. Last(ds) = b /\ CN(ds) = NC(ds, n + 1) /\ CY(ds) = NY(ds, n + 1) /\ CH(ds) = HooksOn(ds, n + 1)
  BY <1>2 DEF Last, CN, CY, CH
<1>14. /\ StackOK(ds) /\ Len(ds) = n + 1 /\ Last(ds) = b
       /\ CN(ds) = CN(cs) + Counts(b) /\ CY(ds) = CY(cs) + NoYield(b)
       /\ CH(ds) = (CH(cs) /\ b.kind \notin {"hook", "gctm"})
  BY <1>2, <1>5, <1>12, <1>13
<1>. QED  BY <1>14 DEF ds

LEMMA StackResume ==
  ASSUME NEW cs, StackOK(cs), NEW b \in Activation, b.kind = "resume", ~Runs(cs, b.th),
         b.th \in Coroutines, Last(cs).kind = "cfun", b.ncc = CN(cs) + 1, b.oldnny = 1
  PROVE  LET ds == Append(cs, b)
         IN /\ StackOK(ds) /\ Len(ds) = Len(cs) + 1 /\ Last(ds) = b
            /\ CN(ds) = CN(cs) + 1 /\ CY(ds) = 0 /\ CH(ds) = TRUE
<1>. DEFINE ds == Append(cs, b)  n == Len(cs)
<1>1. cs \in Seq(Activation) /\ n \in Nat \ {0} /\ Last(cs) = cs[n]
  BY DEF StackOK, Last
<1>2. ds \in Seq(Activation) /\ Len(ds) = n + 1 /\ ds[n + 1] = b /\ \A j \in 1 .. n : ds[j] = cs[j]
  BY <1>1, Pushed
<1>. HIDE DEF ds
<1>3. NC(ds, n + 1) = CN(cs) + 1
  BY <1>1, <1>2, SamePrefix, OneMore, ZenonT(60) DEF CN, Counts
<1>4. b.th /= Main /\ \A j \in 1 .. n : ds[j].th /= b.th
  BY <1>2, ThreadsAssumption DEF Runs
<1>5. NY(ds, n + 1) = 0 /\ HooksOn(ds, n + 1)
  BY <1>1, <1>2, <1>4, FirstOfThread
<1>6. ASSUME NEW i \in 1 .. n PROVE Saved(ds, i) /\ Together(ds, i) /\ Yieldable(ds, i)
  <2>1. Saved(cs, i) /\ Together(cs, i) /\ Yieldable(cs, i)
    BY DEF StackOK
  <2>2. i \in Nat \ {0} /\ \A j \in 1 .. i : cs[j] = ds[j]
    BY <1>2
  <2>. QED  BY <2>1, <2>2, SameStack
<1>7. Saved(ds, n + 1)
  BY <1>2, <1>3, <1>4 DEF Saved
<1>8. Together(ds, n + 1)
  <2>1. n + 1 \in 1 .. n + 1
    BY <1>1
  <2>. QED  BY <1>1, <1>2, <1>4, <2>1 DEF Together
<1>9. Yieldable(ds, n + 1)
  BY <1>1, <1>2, <1>4 DEF Yieldable
<1>10. ASSUME NEW i \in 2 .. n + 1 PROVE Made(ds[i - 1], ds[i])
  <2>1. CASE i = n + 1
    <3>1. Made(cs[n], b)
      BY <1>1 DEF Made, Callers, Bodies
    <3>. QED  BY <1>1, <1>2, <2>1, <3>1
  <2>2. CASE i \in 2 .. n
    BY <1>2, <2>2 DEF StackOK
  <2>. QED  BY <1>1, <2>1, <2>2
<1>11. ASSUME NEW i \in 1 .. n + 1 PROVE Saved(ds, i) /\ Together(ds, i) /\ Yieldable(ds, i)
  BY <1>1, <1>6, <1>7, <1>8, <1>9
<1>12. StackOK(ds)
  BY <1>1, <1>2, <1>10, <1>11 DEF StackOK
<1>13. /\ StackOK(ds) /\ Len(ds) = n + 1 /\ Last(ds) = b
       /\ CN(ds) = CN(cs) + 1 /\ CY(ds) = 0 /\ CH(ds) = TRUE
  BY <1>2, <1>3, <1>5, <1>12 DEF Last, CN, CY, CH
<1>. QED  BY <1>13 DEF ds

-----------------------------------------------------------------------------
(* The threads that do not run.                                            *)

LEMMA OthersStay ==
  ASSUME NEW st, NEW st2, NEW cs, NEW ds, StackOK(cs), StackOK(ds), OthersOK(st, cs),
         NEW n \in 1 .. Len(cs), n <= Len(ds), \A j \in 1 .. n : ds[j] = cs[j],
         cs[n].th = Last(cs).th, Last(ds).th = Last(cs).th,
         \A L \in Threads : L /= Last(cs).th => st2[L] = st[L]
  PROVE  OthersOK(st2, ds)
<1>. DEFINE T == Last(cs).th
<1>1. Len(cs) \in Nat /\ Len(ds) \in Nat /\ n \in 1 .. n /\ n \in 1 .. Len(ds)
  BY DEF StackOK
<1>2. /\ \A j \in n .. Len(cs) : cs[j].th = T
      /\ \A j \in n .. Len(ds) : ds[j].th = T /\ (j > n => ds[j].kind /= "resume")
  <2>1. Len(cs) \in 1 .. Len(cs) /\ Len(ds) \in 1 .. Len(ds)
    BY <1>1
  <2>2. ds[n].th = T /\ Last(ds) = ds[Len(ds)] /\ Last(cs) = cs[Len(cs)]
    BY <1>1 DEF Last
  <2>3. \A j \in n .. Len(cs) : cs[j].th = cs[Len(cs)].th
    BY <1>1, <2>1, <2>2, Segment
  <2>4. \A j \in n .. Len(ds) : ds[j].th = ds[Len(ds)].th
    BY <1>1, <2>1, <2>2, Segment
  <2>5. \A j \in n + 1 .. Len(ds) : ds[j].kind \notin {"host", "resume"}
    BY <1>1, <2>1, <2>2, Segment
  <2>. QED  BY <1>1, <2>2, <2>3, <2>4, <2>5
<1>3. ASSUME NEW i \in 1 .. Len(ds) - 1, ds[i + 1].kind = "resume"
      PROVE  Counted(st2[ds[i].th], ds, i) /\ st2[ds[i].th].status = "OK"
  <2>1. i + 1 <= n /\ i \in 1 .. Len(cs) - 1 /\ i \in 1 .. n
    BY <1>1, <1>2, <1>3
  <2>2. cs[i] = ds[i] /\ cs[i + 1] = ds[i + 1]
    BY <1>1, <2>1
  <2>3. Counted(st[cs[i].th], cs, i) /\ st[cs[i].th].status = "OK"
    BY <1>3, <2>1, <2>2 DEF OthersOK
  <2>4. cs[i].th /= T
    <3>. SUFFICES ASSUME cs[i].th = T PROVE FALSE
      OBVIOUS
    <3>1. \A j \in i + 1 .. n : cs[j].kind \notin {"host", "resume"}
      BY <2>1, Segment
    <3>. QED  BY <1>1, <1>3, <2>1, <2>2, <3>1
  <2>5. cs[i] \in Activation
    BY <2>1 DEF StackOK
  <2>6. st2[cs[i].th] = st[cs[i].th]
    BY <2>4, <2>5, ActivationKind
  <2>7. NC(cs, i) = NC(ds, i) /\ NY(cs, i) = NY(ds, i) /\ HooksOn(cs, i) = HooksOn(ds, i)
    <3>1. i \in Nat \ {0} /\ \A j \in 1 .. i : cs[j] = ds[j]
      BY <1>1, <2>1
    <3>. QED  BY <3>1, SamePrefix
  <2>. QED  BY <2>2, <2>3, <2>6, <2>7 DEF Counted
<1>4. ASSUME NEW L \in Coroutines, ~Runs(ds, L) PROVE Idle(st2[L])
  <2>1. L /= T
    BY <1>1, <1>2, <1>4 DEF Runs
  <2>2. ~Runs(cs, L)
    <3>. SUFFICES ASSUME NEW i \in 1 .. Len(cs), cs[i].th = L PROVE FALSE
      BY DEF Runs
    <3>1. CASE i <= n
      BY <1>1, <1>4, <3>1 DEF Runs
    <3>2. CASE i > n
      BY <1>1, <1>2, <2>1, <3>2
    <3>. QED  BY <1>1, <3>1, <3>2
  <2>. QED  BY <2>1, <2>2 DEF OthersOK, Threads
<1>. QED  BY <1>3, <1>4 DEF OthersOK

(* The thread that runs stops, and the one that resumed it goes on.        *)
LEMMA OthersReturn ==
  ASSUME NEW st, NEW st2, NEW cs, StackOK(cs), OthersOK(st, cs),
         NEW r \in 1 .. Len(cs), cs[r].kind = "resume", cs[r].th = Last(cs).th,
         \A L \in Threads : L /= Last(cs).th => st2[L] = st[L], Idle(st2[Last(cs).th])
  PROVE  LET ds == SubSeq(cs, 1, r - 1)
         IN /\ r > 1 /\ StackOK(ds) /\ OthersOK(st2, ds) /\ Len(ds) = r - 1 /\ Last(ds).kind = "cfun"
            /\ Last(ds).th /= Last(cs).th /\ Counted(st2[Last(ds).th], ds, Len(ds))
            /\ st2[Last(ds).th].status = "OK"
<1>. DEFINE T == Last(cs).th  ds == SubSeq(cs, 1, r - 1)
<1>1. cs \in Seq(Activation) /\ Len(cs) \in Nat \ {0} /\ cs[1].kind = "host" /\ Last(cs) = cs[Len(cs)]
  BY DEF StackOK, Last, Host
<1>2. r > 1 /\ r - 1 \in 1 .. Len(cs)
  BY <1>1
<1>3. StackOK(ds)
  BY <1>2, StackCut
<1>4. Len(ds) = r - 1 /\ \A j \in 1 .. r - 1 : ds[j] = cs[j]
  BY <1>1, <1>2, Cut
<1>. HIDE DEF ds
<1>5. Last(ds) = cs[r - 1]
  BY <1>2, <1>4 DEF Last
<1>6. Made(cs[r - 1], cs[r])
  BY <1>1, <1>2 DEF StackOK
<1>7. cs[r - 1].kind = "cfun"
  BY <1>6 DEF Made, Callers, Bodies
<1>8. \A j \in r .. Len(cs) : cs[j].th = T
  <2>1. Len(cs) \in 1 .. Len(cs) /\ r \in 1 .. Len(cs)
    BY <1>1
  <2>. QED  BY <1>1, <2>1, Segment
<1>9. \A j \in 1 .. r - 1 : cs[j].th /= T
  <2>. SUFFICES ASSUME NEW j \in 1 .. r - 1, cs[j].th = T PROVE FALSE
    OBVIOUS
  <2>1. \A k \in j + 1 .. r : cs[k].kind \notin {"host", "resume"}
    BY Segment
  <2>. QED  BY <1>1, <2>1
<1>10. \A i \in 1 .. r - 1 : cs[i] \in Activation /\ ds[i] = cs[i] /\ st2[ds[i].th] = st[cs[i].th]
  BY <1>1, <1>4, <1>9, ActivationKind
<1>11. ASSUME NEW i \in 1 .. r - 1, Counted(st[cs[i].th], cs, i) PROVE Counted(st2[ds[i].th], ds, i)
  <2>1. i \in Nat \ {0} /\ \A j \in 1 .. i : cs[j] = ds[j]
    BY <1>4
  <2>2. NC(cs, i) = NC(ds, i) /\ NY(cs, i) = NY(ds, i) /\ HooksOn(cs, i) = HooksOn(ds, i)
    BY <2>1, SamePrefix
  <2>3. st2[ds[i].th] = st[cs[i].th] /\ cs[i].th = ds[i].th
    BY <1>10
  <2>. QED  BY <1>11, <2>2, <2>3 DEF Counted
<1>12. /\ Counted(st2[Last(ds).th], ds, Len(ds)) /\ st2[Last(ds).th].status = "OK"
  <2>1. Counted(st[cs[r - 1].th], cs, r - 1) /\ st[cs[r - 1].th].status = "OK"
    BY <1>1, <1>2 DEF OthersOK
  <2>. QED  BY <1>2, <1>4, <1>5, <1>10, <1>11, <2>1
<1>13. ASSUME NEW i \in 1 .. Len(ds) - 1, ds[i + 1].kind = "resume"
       PROVE  Counted(st2[ds[i].th], ds, i) /\ st2[ds[i].th].status = "OK"
  <2>1. i \in 1 .. Len(cs) - 1 /\ i \in 1 .. r - 1 /\ cs[i + 1] = ds[i + 1]
    BY <1>1, <1>2, <1>4
  <2>2. Counted(st[cs[i].th], cs, i) /\ st[cs[i].th].status = "OK"
    BY <1>13, <2>1 DEF OthersOK
  <2>. QED  BY <1>10, <1>11, <2>1, <2>2
<1>14. ASSUME NEW L \in Coroutines, ~Runs(ds, L) PROVE Idle(st2[L])
  <2>1. CASE L = T
    BY <2>1
  <2>2. CASE L /= T
    <3>1. ~Runs(cs, L)
      <4>. SUFFICES ASSUME NEW i \in 1 .. Len(cs), cs[i].th = L PROVE FALSE
        BY DEF Runs
      <4>1. i \in 1 .. r - 1
        BY <1>1, <1>2, <1>8, <2>2
      <4>2. ds[i].th = L /\ i \in 1 .. Len(ds)
        BY <1>4, <4>1
      <4>. QED  BY <1>14, <4>2 DEF Runs
    <3>. QED  BY <2>2, <3>1 DEF OthersOK, Threads
  <2>. QED  BY <2>1, <2>2
<1>15. OthersOK(st2, ds)
  BY <1>13, <1>14 DEF OthersOK
<1>16. Last(ds).kind = "cfun" /\ Last(ds).th /= T
  BY <1>2, <1>5, <1>7, <1>9
<1>17. /\ r > 1 /\ StackOK(ds) /\ OthersOK(st2, ds) /\ Len(ds) = r - 1 /\ Last(ds).kind = "cfun"
       /\ Last(ds).th /= Last(cs).th /\ Counted(st2[Last(ds).th], ds, Len(ds))
       /\ st2[Last(ds).th].status = "OK"
  BY <1>2, <1>3, <1>4, <1>12, <1>15, <1>16
<1>. QED  BY <1>17 DEF ds

LEMMA OthersResume ==
  ASSUME NEW st, NEW st2, NEW cs, NEW ds, StackOK(cs), StackOK(ds), OthersOK(st, cs),
         Len(ds) = Len(cs) + 1, \A j \in 1 .. Len(cs) : ds[j] = cs[j],
         Counted(st[Last(cs).th], cs, Len(cs)), st[Last(cs).th].status = "OK",
         ~Runs(cs, Last(ds).th), \A L \in Threads : L /= Last(ds).th => st2[L] = st[L]
  PROVE  OthersOK(st2, ds)
<1>. DEFINE T == Last(ds).th  n == Len(cs)
<1>1. n \in Nat \ {0} /\ Last(ds) = ds[n + 1] /\ Last(cs) = cs[n] /\ cs \in Seq(Activation)
  BY DEF StackOK, Last
<1>2. \A i \in 1 .. n : cs[i] \in Activation /\ ds[i] = cs[i] /\ st2[ds[i].th] = st[cs[i].th]
  BY <1>1, ActivationKind DEF Runs
<1>3. ASSUME NEW i \in 1 .. Len(ds) - 1, ds[i + 1].kind = "resume"
      PROVE  Counted(st2[ds[i].th], ds, i) /\ st2[ds[i].th].status = "OK"
  <2>1. Counted(st[cs[i].th], cs, i) /\ st[cs[i].th].status = "OK"
    <3>1. CASE i = n
      BY <1>1, <3>1
    <3>2. CASE i \in 1 .. n - 1
      BY <1>1, <1>2, <1>3, <3>2 DEF OthersOK
    <3>. QED  BY <1>1, <3>1, <3>2
  <2>2. i \in Nat \ {0} /\ i \in 1 .. n /\ \A j \in 1 .. i : cs[j] = ds[j]
    BY <1>1
  <2>. QED  BY <1>2, <2>1, <2>2, SamePrefix DEF Counted
<1>4. ASSUME NEW L \in Coroutines, ~Runs(ds, L) PROVE Idle(st2[L])
  <2>1. L /= T /\ ~Runs(cs, L)
    BY <1>1, <1>4 DEF Runs
  <2>. QED  BY <2>1 DEF OthersOK, Threads
<1>. QED  BY <1>3, <1>4 DEF OthersOK

(* A step of the thread that runs.                                         *)
LEMMA OwnStep ==
  ASSUME NEW st, NEW cs, NEW m, CountOK(st, cs, m), NEW ds, StackOK(ds),
         NEW n \in 1 .. Len(cs), n <= Len(ds), \A j \in 1 .. n : ds[j] = cs[j],
         cs[n].th = Last(cs).th, Last(ds).th = Last(cs).th,
         NEW s, ThreadOK(s), s.ops = st[Last(cs).th].ops, ~s.body,
         s.nCcalls = CN(ds), s.nny = CY(ds), s.allowhook = CH(ds),
         NEW m2 \in Modes, InMode(s, Last(ds), Len(ds), m2)
  PROVE  CountOK([st EXCEPT ![Last(cs).th] = s], ds, m2)
<1>. DEFINE T == Last(cs).th  st2 == [st EXCEPT ![T] = s]
<1>1. Last(cs) \in Activation /\ Len(cs) \in Nat \ {0}
  BY DEF CountOK, StackOK, Last
<1>2. T \in Threads /\ st \in [Threads -> ThreadState] /\ s \in ThreadState
  BY <1>1, ActivationKind DEF CountOK, ThreadOK
<1>3. st2 \in [Threads -> ThreadState] /\ st2[T] = s /\ \A L \in Threads : L /= T => st2[L] = st[L]
  BY <1>2
<1>. HIDE DEF st2
<1>4. \A L \in Threads : ThreadOK(st2[L])
  BY <1>3 DEF CountOK
<1>5. \A L \in Coroutines : "hookmetamethod" \notin st2[L].ops
  BY <1>3 DEF CountOK, Threads
<1>6. OthersOK(st2, ds)
  BY <1>3, OthersStay DEF CountOK
<1>7. Counted(st2[Last(ds).th], ds, Len(ds))
  BY <1>3 DEF Counted, CN, CY, CH
<1>8. CountOK(st2, ds, m2)
  BY <1>3, <1>4, <1>5, <1>6, <1>7 DEF CountOK
<1>. QED  BY <1>8 DEF st2

-----------------------------------------------------------------------------
(* The counters, action by action.                                         *)

Extends(ds, cs) == Len(cs) <= Len(ds) /\ \A j \in 1 .. Len(cs) : ds[j] = cs[j]

LEMMA RunningFacts ==
  ASSUME CountInv
  PROVE  /\ cstack \in Seq(Activation) /\ Len(cstack) \in Nat \ {0} /\ StackOK(cstack)
         /\ Top = Last(cstack) /\ Top \in Activation /\ Top.kind \in Kinds /\ Top = cstack[Len(cstack)]
         /\ Running \in Threads /\ Running = Last(cstack).th
         /\ ThreadOK(S) /\ S \in ThreadState /\ ~S.body
         /\ S.ci \in Seq(Frame) /\ Depth \in Nat
         /\ S.nCcalls = CN(cstack) /\ S.nny = CY(cstack) /\ S.allowhook = CH(cstack)
         /\ CN(cstack) \in Nat /\ CY(cstack) \in Nat /\ CH(cstack) \in BOOLEAN
         /\ InMode(S, Top, Len(cstack), mode) /\ mode \in Modes
         /\ state \in [Threads -> ThreadState]
         /\ Extends(cstack, cstack)
<1>1. cstack \in Seq(Activation) /\ Len(cstack) \in Nat \ {0} /\ StackOK(cstack)
  BY DEF CountInv, CountOK, StackOK
<1>2. Top = Last(cstack) /\ Top \in Activation /\ Top = cstack[Len(cstack)] /\ Running = Last(cstack).th
  BY <1>1 DEF Top, Running, Last
<1>3. Top.kind \in Kinds /\ Running \in Threads
  BY <1>2, ActivationKind DEF Running
<1>4. ThreadOK(S) /\ S \in ThreadState
  BY <1>3 DEF CountInv, CountOK, S
<1>5. Counted(S, cstack, Len(cstack)) /\ InMode(S, Top, Len(cstack), mode) /\ mode \in Modes
      /\ state \in [Threads -> ThreadState]
  BY <1>2 DEF CountInv, CountOK, S
<1>6. CN(cstack) \in Nat /\ CY(cstack) \in Nat /\ CH(cstack) \in BOOLEAN
  BY <1>1, CountsFinite DEF CN, CY, CH, HooksOn
<1>7. S.ci \in Seq(Frame) /\ Depth \in Nat
  BY <1>4 DEF ThreadState, Depth
<1>8. Extends(cstack, cstack)
  BY <1>1 DEF Extends
<1>. QED  BY <1>1, <1>2, <1>3, <1>4, <1>5, <1>6, <1>7, <1>8 DEF Counted, CN, CY, CH

(* The thread that runs goes on with more activations, ...                 *)
LEMMA PushStep ==
  ASSUME CountInv, NEW ds, StackOK(ds), Extends(ds, cstack), Last(ds).th = Running,
         NEW s, ThreadOK(s), s.ops = S.ops, ~s.body,
         s.nCcalls = CN(ds), s.nny = CY(ds), s.allowhook = CH(ds),
         cstack' = ds, mode' \in Modes, InMode(s, Last(ds), Len(ds), mode'), Update(s)
  PROVE  CountInv'
<1>. DEFINE n == Len(cstack)
<1>1. n \in 1 .. n /\ cstack[n].th = Last(cstack).th
  BY RunningFacts
<1>2. CountOK([state EXCEPT ![Last(cstack).th] = s], ds, mode')
  <2>1. n <= Len(ds) /\ \A j \in 1 .. n : ds[j] = cstack[j]
    BY DEF Extends
  <2>. QED  BY <1>1, <2>1, OwnStep, RunningFacts DEF CountInv, S
<1>3. state' = [state EXCEPT ![Last(cstack).th] = s]
  BY RunningFacts DEF Update
<1>. QED  BY <1>2, <1>3 DEF CountInv

(* ... or fewer.                                                           *)
LEMMA CutStep ==
  ASSUME CountInv, NEW n \in 1 .. Len(cstack), cstack[n].th = Running,
         NEW s, ThreadOK(s), s.ops = S.ops, ~s.body,
         s.nCcalls = NC(cstack, n), s.nny = NY(cstack, n), s.allowhook = HooksOn(cstack, n),
         cstack' = SubSeq(cstack, 1, n), mode' \in Modes, InMode(s, cstack[n], n, mode'), Update(s)
  PROVE  CountInv'
<1>. DEFINE ds == SubSeq(cstack, 1, n)
<1>1. StackOK(ds)
  BY RunningFacts, StackCut
<1>2. Len(ds) = n /\ \A j \in 1 .. n : ds[j] = cstack[j]
  <2>1. n \in 0 .. Len(cstack)
    OBVIOUS
  <2>. QED  BY <2>1, RunningFacts, Cut
<1>. HIDE DEF ds
<1>3. Last(ds) = cstack[n] /\ n <= Len(ds)
  BY <1>2 DEF Last
<1>4. n \in Nat \ {0}
  OBVIOUS
<1>5. CN(ds) = NC(cstack, n) /\ CY(ds) = NY(cstack, n) /\ CH(ds) = HooksOn(cstack, n)
  BY <1>2, <1>4, SamePrefix DEF CN, CY, CH
<1>6. CountOK([state EXCEPT ![Last(cstack).th] = s], ds, mode')
  BY <1>1, <1>2, <1>3, <1>5, OwnStep, RunningFacts DEF CountInv, S
<1>7. state' = [state EXCEPT ![Last(cstack).th] = s] /\ cstack' = ds
  BY RunningFacts DEF Update, ds
<1>. QED  BY <1>6, <1>7 DEF CountInv

LEMMA ThreadUpdate ==
  ASSUME NEW s, ThreadOK(s), NEW t \in ThreadState, t.ci = s.ci
  PROVE  ThreadOK(t)
BY DEF ThreadOK

LEMMA DCallStep ==
  ASSUME CountInv, NEW stack, StackOK(stack), Extends(stack, cstack), Last(stack).th = Running,
         NEW s, ThreadOK(s), s.ops = S.ops, ~s.body, s.status = "OK",
         s.nCcalls = CN(stack), s.nny = CY(stack), s.allowhook = CH(stack),
         NEW noyield \in BOOLEAN, NEW yp \in BOOLEAN,
         Last(stack).kind \in Callers("call"),
         ~noyield => \/ Last(stack).kind \in Bodies
                     \/ Last(stack).kind = "hook" /\ Running = Main,
         DCall(s, stack, noyield, yp)
  PROVE  CountInv'
<1>. DEFINE b == [kind |-> "call", th |-> Running, ci |-> Len(s.ci), noyield |-> noyield, yp |-> yp]
            ds == Append(stack, b)
            t == [s EXCEPT !.nCcalls = s.nCcalls + 1, !.nny = IF noyield THEN @ + 1 ELSE @]
<1>1. s \in ThreadState /\ s.ci \in Seq(Frame) /\ s.nny \in Int /\ s.nCcalls \in Int
  BY DEF ThreadOK, ThreadState
<1>2. b \in Activation
  BY <1>1, RunningFacts DEF Activation
<1>3. Made(Last(stack), b)
  BY DEF Made, Callers, Bodies
<1>4. /\ StackOK(ds) /\ Len(ds) = Len(stack) + 1 /\ Last(ds) = b
      /\ CN(ds) = CN(stack) + Counts(b) /\ CY(ds) = CY(stack) + NoYield(b)
      /\ CH(ds) = (CH(stack) /\ b.kind \notin {"hook", "gctm"})
  BY <1>2, <1>3, StackPush
<1>5. t \in ThreadState /\ t.ci = s.ci /\ t.ops = s.ops /\ ~t.body /\ t.status = "OK"
      /\ t.nCcalls = s.nCcalls + 1 /\ t.nny = (IF noyield THEN s.nny + 1 ELSE s.nny)
      /\ t.allowhook = s.allowhook
  <2>1. (IF noyield THEN s.nny + 1 ELSE s.nny) \in Int /\ s.nCcalls + 1 \in Int
    BY <1>1
  <2>2. t \in ThreadState
    BY <1>1, <2>1 DEF ThreadState
  <2>3. t.nny = (IF noyield THEN s.nny + 1 ELSE s.nny)
    BY <1>1 DEF ThreadState
  <2>4. t.ci = s.ci /\ t.ops = s.ops /\ ~t.body /\ t.status = "OK"
    BY <1>1 DEF ThreadState
  <2>5. t.nCcalls = s.nCcalls + 1 /\ t.allowhook = s.allowhook
    BY <1>1 DEF ThreadState
  <2>. QED  BY <2>2, <2>3, <2>4, <2>5
<1>6. Counts(b) = 1 /\ NoYield(b) = (IF noyield THEN 1 ELSE 0)
  BY DEF Counts, NoYield
<1>7. t.nCcalls = CN(ds) /\ t.nny = CY(ds) /\ t.allowhook = CH(ds)
  <2>1. CH(stack) \in BOOLEAN
    BY DEF CH, HooksOn
  <2>. QED  BY <1>1, <1>4, <1>5, <1>6, <2>1
<1>8. stack \in Seq(Activation) /\ cstack \in Seq(Activation) /\ Len(stack) \in Nat \ {0}
  BY RunningFacts DEF StackOK
<1>9. Extends(ds, cstack)
  BY <1>2, <1>8, Pushed DEF Extends
<1>10. cstack' = ds /\ Update(t) /\ mode' \in Modes /\ mode' \in {"precall", "errormsg", "ERRERR"}
  BY DEF DCall, Modes, Phases, ErrorStatus
<1>11. ThreadOK(t)
  BY <1>5, ThreadUpdate
<1>. HIDE DEF ds, t
<1>12. InMode(t, Last(ds), Len(ds), mode')
  BY <1>4, <1>5, <1>8, <1>10 DEF InMode
<1>. QED  BY <1>4, <1>5, <1>7, <1>9, <1>10, <1>11, <1>12, PushStep

Counters(t, s) ==
  /\ t.status = s.status /\ t.nny = s.nny /\ t.nCcalls = s.nCcalls /\ t.allowhook = s.allowhook
  /\ t.ops = s.ops /\ t.body = s.body

LEMMA SetFrameOK ==
  ASSUME NEW s, ThreadOK(s), Len(s.ci) > 0, NEW f \in Frame, f.yp => f.oah
  PROVE  /\ ThreadOK(SetFrame(s, f)) /\ Counters(SetFrame(s, f), s)
         /\ Len(SetFrame(s, f).ci) = Len(s.ci)
<1>. DEFINE t == SetFrame(s, f)
<1>1. s \in ThreadState /\ s.ci \in Seq(Frame) /\ Len(s.ci) \in Nat \ {0}
  BY DEF ThreadOK, ThreadState
<1>2. /\ [s.ci EXCEPT ![Len(s.ci)] = f] \in Seq(Frame)
      /\ DOMAIN [s.ci EXCEPT ![Len(s.ci)] = f] = DOMAIN s.ci
      /\ Len([s.ci EXCEPT ![Len(s.ci)] = f]) = Len(s.ci)
  BY <1>1
<1>3. t \in ThreadState /\ t.ci = [s.ci EXCEPT ![Len(s.ci)] = f]
  BY <1>1, <1>2 DEF SetFrame, ThreadState
<1>4. Counters(t, s)
  BY <1>1 DEF SetFrame, ThreadState, Counters
<1>5. ThreadOK(t)
  BY <1>1, <1>2, <1>3 DEF ThreadOK
<1>. QED  BY <1>2, <1>3, <1>4, <1>5 DEF t

LEMMA CutFramesOK ==
  ASSUME NEW s, ThreadOK(s), NEW n \in 0 .. Len(s.ci)
  PROVE  /\ ThreadOK(CutFrames(s, n)) /\ Counters(CutFrames(s, n), s)
         /\ CutFrames(s, n).ci = SubSeq(s.ci, 1, n)
<1>. DEFINE t == CutFrames(s, n)
<1>1. s \in ThreadState /\ s.ci \in Seq(Frame) /\ Len(s.ci) \in Nat
  BY DEF ThreadOK, ThreadState
<1>2. /\ SubSeq(s.ci, 1, n) \in Seq(Frame) /\ DOMAIN SubSeq(s.ci, 1, n) \subseteq DOMAIN s.ci
      /\ \A d \in DOMAIN SubSeq(s.ci, 1, n) : SubSeq(s.ci, 1, n)[d] = s.ci[d]
  BY <1>1
<1>3. t \in ThreadState /\ t.ci = SubSeq(s.ci, 1, n)
  BY <1>1, <1>2 DEF CutFrames, ThreadState
<1>4. Counters(t, s)
  BY <1>1 DEF CutFrames, ThreadState, Counters
<1>5. ThreadOK(t)
  BY <1>2, <1>3 DEF ThreadOK
<1>. QED  BY <1>3, <1>4, <1>5 DEF t

LEMMA NewFrameOK ==
  ASSUME NEW s, ThreadOK(s), NEW lua \in BOOLEAN, NEW fresh \in BOOLEAN
  PROVE  LET t == [s EXCEPT !.ci = Append(@, NewFrame(lua, fresh))]
         IN ThreadOK(t) /\ Counters(t, s) /\ t.ci = Append(s.ci, NewFrame(lua, fresh))
<1>. DEFINE t == [s EXCEPT !.ci = Append(@, NewFrame(lua, fresh))]
<1>1. s \in ThreadState /\ s.ci \in Seq(Frame) /\ Len(s.ci) \in Nat
  BY DEF ThreadOK, ThreadState
<1>2. NewFrame(lua, fresh) \in Frame /\ ~NewFrame(lua, fresh).yp
  BY DEF NewFrame, Frame
<1>3. Append(s.ci, NewFrame(lua, fresh)) \in Seq(Frame)
  BY <1>1, <1>2
<1>4. t \in ThreadState /\ t.ci = Append(s.ci, NewFrame(lua, fresh))
  BY <1>1, <1>3 DEF ThreadState
<1>5. Counters(t, s)
  BY <1>1 DEF ThreadState, Counters
<1>6. ThreadOK(t)
  BY <1>1, <1>2, <1>4 DEF ThreadOK
<1>. QED  BY <1>4, <1>5, <1>6

LEMMA RunningFrames ==
  ASSUME CountInv, FramesExist(state, cstack)
  PROVE  Depth \in Nat \ {0} /\ CurrentCI \in Frame /\ (CurrentCI.yp => CurrentCI.oah)
         /\ Top.ci \in 1 .. Depth
<1>1. Top.ci \in 1 .. Depth
  <2>1. Len(cstack) \in 1 .. Len(cstack)
    BY RunningFacts
  <2>. QED  BY <2>1, RunningFacts DEF FramesExist, Depth, S, Running
<1>2. Depth \in Nat \ {0} /\ Depth \in DOMAIN S.ci
  BY <1>1, RunningFacts DEF Depth
<1>. QED  BY <1>1, <1>2, RunningFacts DEF CurrentCI, ThreadOK, Depth

LEMMA RunMode ==
  ASSUME CountInv, mode = "run"
  PROVE  S.status = "OK"
BY RunningFacts DEF InMode

LEMMA CallKCounts ==
  ASSUME CountInv, FramesExist(state, cstack), NEW k \in BOOLEAN, CallK(k)
  PROVE  CountInv'
<1>1. Top.kind \in {"cfun", "hook"} /\ (k => Top.kind = "cfun") /\ mode = "run"
  BY DEF CallK, InC, UserHook, Body
<1>2. S.status = "OK"
  BY <1>1, RunMode
<1>3. CASE k /\ S.nny = 0
  <2>. DEFINE f == [CurrentCI EXCEPT !.k = TRUE]
  <2>1. f \in Frame /\ (f.yp => f.oah)
    BY RunningFrames DEF Frame
  <2>2. DCall(SetFrame(S, f), cstack, FALSE, FALSE)
    BY <1>3 DEF CallK
  <2>. HIDE DEF f
  <2>3. ThreadOK(SetFrame(S, f)) /\ Counters(SetFrame(S, f), S)
    BY <2>1, SetFrameOK, RunningFacts, RunningFrames DEF Depth
  <2>. QED  BY <1>1, <1>2, <1>3, <2>2, <2>3, DCallStep, RunningFacts DEF Counters, Callers, Bodies
<1>4. CASE ~(k /\ S.nny = 0)
  <2>1. DCall(S, cstack, TRUE, FALSE)
    BY <1>4 DEF CallK
  <2>. QED  BY <1>1, <1>2, <2>1, DCallStep, RunningFacts DEF Callers, Bodies
<1>. QED  BY <1>3, <1>4

LEMMA MetamethodCounts ==
  ASSUME CountInv, Metamethod
  PROVE  CountInv'
<1>1. Top.kind = "exec" /\ mode = "run" /\ DCall(S, cstack, FALSE, FALSE)
  BY DEF Metamethod, InLua, Body
<1>2. S.status = "OK"
  BY <1>1, RunMode
<1>. QED  BY <1>1, <1>2, DCallStep, RunningFacts DEF Callers, Bodies

(* The only call of a hook that may yield is in the main thread.           *)
LEMMA ApiMetamethodCounts ==
  ASSUME CountInv, ApiMetamethod
  PROVE  CountInv'
<1>1. Top.kind = "hook" /\ mode = "run" /\ DCall(S, cstack, ~IsLua, FALSE) /\ "hookmetamethod" \in S.ops
  BY DEF ApiMetamethod, UserHook, Body, May
<1>2. S.status = "OK"
  BY <1>1, RunMode
<1>3. Running = Main
  BY <1>1, RunningFacts DEF CountInv, CountOK, S, Threads
<1>4. (~IsLua) \in BOOLEAN
  OBVIOUS
<1>. QED  BY <1>1, <1>2, <1>3, <1>4, DCallStep, RunningFacts DEF Callers, Bodies

LEMMA ReaderCounts ==
  ASSUME CountInv, Reader
  PROVE  CountInv'
<1>1. Top.kind \in {"parser", "level"} /\ mode = "run" /\ DCall(S, cstack, TRUE, FALSE)
  BY DEF Reader, InParser, Body
<1>2. S.status = "OK"
  BY <1>1, RunMode
<1>. QED  BY <1>1, <1>2, DCallStep, RunningFacts DEF Callers, Bodies

(* Another activation of the thread that runs, as StackPush has it.        *)
LEMMA PushOne ==
  ASSUME CountInv, NEW stack, StackOK(stack), Extends(stack, cstack), Last(stack).th = Running,
         NEW b \in Activation, b.kind /= "resume", Made(Last(stack), b),
         b.kind = "pcall" => b.ncc = CN(stack) /\ b.nny = CY(stack) /\ b.oah = CH(stack),
         b.kind = "gctm" => b.oah = CH(stack),
         b.kind = "hook" => CH(stack)
  PROVE  LET ds == Append(stack, b)
         IN /\ StackOK(ds) /\ Extends(ds, cstack) /\ Last(ds).th = Running /\ Last(ds) = b
            /\ Len(ds) = Len(stack) + 1
            /\ CN(ds) = CN(stack) + Counts(b) /\ CY(ds) = CY(stack) + NoYield(b)
            /\ CH(ds) = (CH(stack) /\ b.kind \notin {"hook", "gctm"})
<1>1. LET ds == Append(stack, b)
      IN /\ StackOK(ds) /\ Len(ds) = Len(stack) + 1 /\ Last(ds) = b
         /\ CN(ds) = CN(stack) + Counts(b) /\ CY(ds) = CY(stack) + NoYield(b)
         /\ CH(ds) = (CH(stack) /\ b.kind \notin {"hook", "gctm"})
  BY StackPush
<1>2. Extends(Append(stack, b), cstack)
  BY Pushed, RunningFacts DEF StackOK, Extends
<1>3. b.th = Running
  BY DEF Made
<1>. QED  BY <1>1, <1>2, <1>3

LEMMA ErrorMsgCounts ==
  ASSUME CountInv, FramesExist(state, cstack), ErrorMsg
  PROVE  CountInv'
<1>1. mode = "errormsg" /\ Top.kind \in Bodies \union {"call", "hook", "resume"} /\ S.status = "OK"
      /\ Len(cstack) /= 1
  BY RunningFacts DEF ErrorMsg, InMode
<1>2. CASE S.errfunc = 0
  <2>1. mode' = "ERRRUN" /\ Update(S) /\ cstack' = cstack
    BY <1>2, RunningFacts DEF ErrorMsg, Update, S
  <2>2. mode' \in Modes /\ InMode(S, Last(cstack), Len(cstack), mode')
    BY <1>1, <2>1 DEF InMode, Modes, ErrorStatus
  <2>. QED  BY <2>1, <2>2, PushStep, RunningFacts
<1>3. CASE S.errfunc /= 0
  <2>. DEFINE b == Kind("errormsg", Depth)  ds == Append(cstack, b)
  <2>1. b \in Activation /\ b.kind = "errormsg" /\ b.th = Running
    BY RunningFacts DEF Kind, Activation
  <2>2. Made(Last(cstack), b)
    BY <1>1, <2>1, RunningFacts DEF Made, Callers, Bodies
  <2>3. DCall(S, ds, TRUE, FALSE)
    BY <1>3 DEF ErrorMsg
  <2>. HIDE DEF b
  <2>4. /\ StackOK(ds) /\ Extends(ds, cstack) /\ Last(ds).th = Running /\ Last(ds) = b
        /\ CN(ds) = CN(cstack) + Counts(b) /\ CY(ds) = CY(cstack) + NoYield(b)
        /\ CH(ds) = (CH(cstack) /\ b.kind \notin {"hook", "gctm"})
    BY <2>1, <2>2, PushOne, RunningFacts
  <2>. HIDE DEF ds
  <2>5. S.nCcalls = CN(ds) /\ S.nny = CY(ds) /\ S.allowhook = CH(ds)
    BY <2>1, <2>4, RunningFacts DEF Counts, NoYield
  <2>6. Last(ds).kind \in Callers("call")
    BY <2>1, <2>4 DEF Callers, Bodies
  <2>. QED  BY <1>1, <2>3, <2>4, <2>5, <2>6, DCallStep, RunningFacts
<1>. QED  BY <1>2, <1>3

(* Where a yield is allowed hooks are on, whatever 'allowhook' was before. *)
LEMMA YieldableHooks ==
  ASSUME CountInv, S.nny = 0, Top.kind \in Bodies \union {"call", "resume"}
  PROVE  /\ S.allowhook = TRUE /\ Running \in Coroutines
         /\ \A j \in 1 .. Len(cstack) : cstack[j].th = Running =>
              cstack[j].kind \in Bodies \union {"call", "resume"}
<1>. DEFINE n == Len(cstack)
<1>1. n \in 1 .. n /\ Yieldable(cstack, n) /\ NY(cstack, n) = 0 /\ cstack[n] = Top
  BY RunningFacts DEF StackOK, CY
<1>2. \A j \in 1 .. n : cstack[j].th = Running => cstack[j].kind \in Bodies \union {"call", "resume"}
  BY <1>1 DEF Yieldable, Running
<1>3. HooksOn(cstack, n)
  BY <1>1, <1>2 DEF HooksOn, Running, Bodies
<1>4. Running /= Main
  BY <1>1, CountsFinite, RunningFacts DEF NY, Running
<1>. QED  BY <1>2, <1>3, <1>4, RunningFacts DEF CH, Threads

LEMMA PcallActOK ==
  ASSUME CountInv, NEW s, ThreadOK(s)
  PROVE  /\ PcallAct(s) \in Activation /\ PcallAct(s).kind = "pcall" /\ PcallAct(s).th = Running
         /\ PcallAct(s).ncc = s.nCcalls /\ PcallAct(s).nny = s.nny /\ PcallAct(s).oah = s.allowhook
         /\ PcallAct(s).ci = Len(s.ci) /\ PcallAct(s).oerr = s.errfunc
<1>1. s.allowhook \in BOOLEAN /\ s.nny \in Int /\ s.nCcalls \in Int /\ s.errfunc \in Nat /\ s.ci \in Seq(Frame)
  BY DEF ThreadOK, ThreadState
<1>2. Len(s.ci) \in Nat
  BY <1>1
<1>. QED  BY <1>1, <1>2, RunningFacts DEF PcallAct, Activation

LEMMA PcallKCounts ==
  ASSUME CountInv, FramesExist(state, cstack), NEW k \in BOOLEAN, NEW ef \in Nat, PcallK(k, ef)
  PROVE  CountInv'
<1>1. Top.kind \in {"host", "cfun", "hook"} /\ (k => Top.kind = "cfun") /\ mode = "run"
  BY DEF PcallK, InC, UserHook, Body
<1>2. S.status = "OK"
  BY <1>1, RunMode
<1>3. CASE k /\ S.nny = 0
  <2>. DEFINE f == [CurrentCI EXCEPT !.k = TRUE, !.yp = TRUE, !.oerr = S.errfunc, !.oah = S.allowhook]
              t == [SetFrame(S, f) EXCEPT !.errfunc = ef]
  <2>1. S.allowhook = TRUE
    BY <1>1, <1>3, YieldableHooks DEF Bodies
  <2>2. f \in Frame /\ (f.yp => f.oah)
    BY <2>1, RunningFrames, RunningFacts DEF Frame, ThreadState
  <2>3. DCall(t, cstack, FALSE, TRUE)
    BY <1>3 DEF PcallK
  <2>. HIDE DEF f
  <2>4. ThreadOK(SetFrame(S, f)) /\ Counters(SetFrame(S, f), S)
    BY <2>2, SetFrameOK, RunningFacts, RunningFrames DEF Depth
  <2>5. t \in ThreadState /\ t.ci = SetFrame(S, f).ci /\ Counters(t, S)
    BY <2>4 DEF ThreadOK, ThreadState, Counters
  <2>. HIDE DEF t
  <2>6. ThreadOK(t)
    BY <2>4, <2>5, ThreadUpdate
  <2>. QED  BY <1>1, <1>2, <1>3, <2>3, <2>5, <2>6, DCallStep, RunningFacts DEF Counters, Callers, Bodies
<1>4. CASE ~(k /\ S.nny = 0)
  <2>. DEFINE b == PcallAct(S)  ds == Append(cstack, b)
              t == [S EXCEPT !.errfunc = ef, !.armed = @ \/ Top.kind = "host"]
  <2>1. b \in Activation /\ b.kind = "pcall" /\ b.th = Running /\ b.ncc = CN(cstack)
        /\ b.nny = CY(cstack) /\ b.oah = CH(cstack)
    BY PcallActOK, RunningFacts
  <2>2. DCall(t, ds, TRUE, FALSE)
    BY <1>4 DEF PcallK
  <2>. HIDE DEF b
  <2>3. Made(Last(cstack), b)
    BY <1>1, <2>1, RunningFacts DEF Made, Callers, Bodies
  <2>4. /\ StackOK(ds) /\ Extends(ds, cstack) /\ Last(ds).th = Running /\ Last(ds) = b
        /\ CN(ds) = CN(cstack) + Counts(b) /\ CY(ds) = CY(cstack) + NoYield(b)
        /\ CH(ds) = (CH(cstack) /\ b.kind \notin {"hook", "gctm"})
    BY <2>1, <2>3, PushOne, RunningFacts
  <2>. HIDE DEF ds
  <2>5. t \in ThreadState /\ t.ci = S.ci /\ Counters(t, S)
    BY RunningFacts DEF ThreadState, Counters
  <2>. HIDE DEF t
  <2>6. ThreadOK(t)
    BY <2>5, ThreadUpdate, RunningFacts
  <2>7. t.nCcalls = CN(ds) /\ t.nny = CY(ds) /\ t.allowhook = CH(ds)
    BY <2>1, <2>4, <2>5, RunningFacts DEF Counts, NoYield, Counters
  <2>8. Last(ds).kind \in Callers("call")
    BY <2>1, <2>4 DEF Callers, Bodies
  <2>9. t.status = "OK" /\ ~t.body /\ t.ops = S.ops
    BY <1>2, <2>5, RunningFacts DEF Counters
  <2>. QED  BY <2>2, <2>4, <2>6, <2>7, <2>8, <2>9, DCallStep, RunningFacts
<1>. QED  BY <1>3, <1>4

LEMMA Push2 ==
  ASSUME NEW cs \in Seq(Activation), NEW a \in Activation, NEW b \in Activation
  PROVE  cs \o <<a, b>> = Append(Append(cs, a), b)
OBVIOUS

LEMMA Push3 ==
  ASSUME NEW cs \in Seq(Activation), NEW a \in Activation, NEW b \in Activation, NEW c \in Activation
  PROVE  cs \o <<a, b, c>> = Append(Append(Append(cs, a), b), c)
OBVIOUS

LEMMA CallFinalizerCounts ==
  ASSUME CountInv, FramesExist(state, cstack), CallFinalizer
  PROVE  CountInv'
<1>. DEFINE s == [S EXCEPT !.allowhook = FALSE]
            t == [s EXCEPT !.errfunc = 0]
            a == GCTM(S.allowhook)
            b == PcallAct(s)
            ds == Append(cstack, a)
            es == Append(ds, b)
<1>1. Top.kind \in Bodies \union {"hook", "parser", "level"} /\ mode = "run"
  BY DEF CallFinalizer, InCode, InC, InLua, UserHook, InParser, Body, Bodies
<1>2. S.status = "OK"
  BY <1>1, RunMode
<1>3. s \in ThreadState /\ s.ci = S.ci /\ s.allowhook = FALSE /\ s.nny = S.nny /\ s.nCcalls = S.nCcalls
  BY RunningFacts DEF ThreadState
<1>4. t \in ThreadState /\ t.ci = S.ci /\ t.allowhook = FALSE /\ t.nny = S.nny /\ t.nCcalls = S.nCcalls
      /\ t.status = S.status /\ t.ops = S.ops /\ t.body = S.body
  BY RunningFacts DEF ThreadState
<1>5. ThreadOK(s) /\ ThreadOK(t)
  BY <1>3, <1>4, ThreadUpdate, RunningFacts
<1>6. a \in Activation /\ a.kind = "gctm" /\ a.th = Running /\ a.oah = CH(cstack)
  BY RunningFacts DEF GCTM, Activation
<1>7. b \in Activation /\ b.kind = "pcall" /\ b.th = Running /\ b.ncc = CN(cstack) /\ b.nny = CY(cstack)
      /\ b.oah = FALSE
  BY <1>3, <1>5, PcallActOK, RunningFacts
<1>8. DCall(t, cstack \o <<a, b>>, TRUE, FALSE)
  BY DEF CallFinalizer
<1>. HIDE DEF s, t, a, b
<1>9. Made(Last(cstack), a)
  BY <1>1, <1>6, RunningFacts DEF Made, Callers, Bodies
<1>10. /\ StackOK(ds) /\ Extends(ds, cstack) /\ Last(ds).th = Running /\ Last(ds) = a
       /\ CN(ds) = CN(cstack) + Counts(a) /\ CY(ds) = CY(cstack) + NoYield(a)
       /\ CH(ds) = (CH(cstack) /\ a.kind \notin {"hook", "gctm"})
  BY <1>6, <1>9, PushOne, RunningFacts
<1>. HIDE DEF ds
<1>11. CN(ds) = CN(cstack) /\ CY(ds) = CY(cstack) /\ CH(ds) = FALSE
  <2>1. Counts(a) = 0 /\ NoYield(a) = 0 /\ ~(a.kind \notin {"hook", "gctm"})
    BY <1>6 DEF Counts, NoYield
  <2>2. CN(ds) = CN(cstack) /\ CY(ds) = CY(cstack)
    BY <1>10, <2>1, RunningFacts
  <2>3. CH(ds) = FALSE
    BY <1>10, <2>1
  <2>. QED  BY <2>2, <2>3
<1>12. Made(Last(ds), b)
  BY <1>6, <1>7, <1>10 DEF Made, Callers, Bodies
<1>13. /\ StackOK(es) /\ Extends(es, cstack) /\ Last(es).th = Running /\ Last(es) = b
       /\ CN(es) = CN(ds) + Counts(b) /\ CY(es) = CY(ds) + NoYield(b)
       /\ CH(es) = (CH(ds) /\ b.kind \notin {"hook", "gctm"})
  BY <1>7, <1>10, <1>11, <1>12, PushOne
<1>14. cstack \o <<a, b>> = es
  BY <1>6, <1>7, Push2, RunningFacts DEF ds
<1>. HIDE DEF es
<1>15. t.nCcalls = CN(es) /\ t.nny = CY(es) /\ t.allowhook = CH(es)
  <2>1. Counts(b) = 0 /\ NoYield(b) = 0
    BY <1>7 DEF Counts, NoYield
  <2>2. CN(es) = CN(cstack) /\ CY(es) = CY(cstack)
    BY <1>11, <1>13, <2>1, RunningFacts
  <2>3. CH(es) = FALSE
    BY <1>11, <1>13
  <2>. QED  BY <1>4, <2>2, <2>3, RunningFacts
<1>16. Last(es).kind \in Callers("call")
  BY <1>7, <1>13 DEF Callers, Bodies
<1>. QED  BY <1>2, <1>4, <1>5, <1>8, <1>13, <1>14, <1>15, <1>16, DCallStep, RunningFacts

LEMMA LoadCounts ==
  ASSUME CountInv, FramesExist(state, cstack), Load
  PROVE  CountInv'
<1>. DEFINE s == [S EXCEPT !.nny = @ + 1]
            a == Kind("load", Depth)
            b == PcallAct(s)
            c == Kind("parser", Depth)
            ds == Append(cstack, a)
            es == Append(ds, b)
            fs == Append(es, c)
<1>1. Top.kind = "cfun" /\ mode = "run" /\ mode' = "run"
  BY DEF Load, Body
<1>2. S.status = "OK"
  BY <1>1, RunMode
<1>3. s \in ThreadState /\ s.ci = S.ci /\ s.allowhook = S.allowhook /\ s.nny = S.nny + 1
      /\ s.nCcalls = S.nCcalls /\ s.status = S.status /\ s.ops = S.ops /\ s.body = S.body
  <2>1. S \in ThreadState /\ S.nny + 1 \in Int
    BY RunningFacts
  <2>. QED  BY <2>1 DEF ThreadState
<1>4. ThreadOK(s)
  BY <1>3, ThreadUpdate, RunningFacts
<1>5. a \in Activation /\ a.kind = "load" /\ a.th = Running
      /\ c \in Activation /\ c.kind = "parser" /\ c.th = Running
  BY RunningFacts DEF Kind, Activation
<1>6. b \in Activation /\ b.kind = "pcall" /\ b.th = Running /\ b.ncc = CN(cstack)
      /\ b.nny = CY(cstack) + 1 /\ b.oah = CH(cstack)
  BY <1>3, <1>4, PcallActOK, RunningFacts
<1>7. Update(s) /\ cstack' = cstack \o <<a, b, c>>
  BY DEF Load
<1>. HIDE DEF s, a, b, c
<1>8. Made(Last(cstack), a)
  BY <1>1, <1>5, RunningFacts DEF Made, Callers, Bodies
<1>9. /\ StackOK(ds) /\ Extends(ds, cstack) /\ Last(ds).th = Running /\ Last(ds) = a
      /\ CN(ds) = CN(cstack) + Counts(a) /\ CY(ds) = CY(cstack) + NoYield(a)
      /\ CH(ds) = (CH(cstack) /\ a.kind \notin {"hook", "gctm"})
  BY <1>5, <1>8, PushOne, RunningFacts
<1>. HIDE DEF ds
<1>10. CN(ds) = CN(cstack) /\ CY(ds) = CY(cstack) + 1 /\ CH(ds) = CH(cstack)
  BY <1>5, <1>9, RunningFacts DEF Counts, NoYield
<1>11. Made(Last(ds), b)
  BY <1>5, <1>6, <1>9 DEF Made, Callers, Bodies
<1>12. /\ StackOK(es) /\ Extends(es, cstack) /\ Last(es).th = Running /\ Last(es) = b
       /\ CN(es) = CN(ds) + Counts(b) /\ CY(es) = CY(ds) + NoYield(b)
       /\ CH(es) = (CH(ds) /\ b.kind \notin {"hook", "gctm"})
  BY <1>6, <1>9, <1>10, <1>11, PushOne
<1>. HIDE DEF es
<1>13. CN(es) = CN(cstack) /\ CY(es) = CY(cstack) + 1 /\ CH(es) = CH(cstack)
  BY <1>6, <1>10, <1>12, RunningFacts DEF Counts, NoYield
<1>14. Made(Last(es), c)
  BY <1>5, <1>6, <1>12 DEF Made, Callers, Bodies
<1>15. /\ StackOK(fs) /\ Extends(fs, cstack) /\ Last(fs).th = Running /\ Last(fs) = c
       /\ Len(fs) = Len(es) + 1
       /\ CN(fs) = CN(es) + Counts(c) /\ CY(fs) = CY(es) + NoYield(c)
       /\ CH(fs) = (CH(es) /\ c.kind \notin {"hook", "gctm"})
  BY <1>5, <1>12, <1>14, PushOne
<1>16. cstack \o <<a, b, c>> = fs
  BY <1>5, <1>6, Push3, RunningFacts DEF ds, es
<1>. HIDE DEF fs
<1>17. s.nCcalls = CN(fs) /\ s.nny = CY(fs) /\ s.allowhook = CH(fs)
  BY <1>3, <1>5, <1>13, <1>15, RunningFacts DEF Counts, NoYield
<1>18. InMode(s, Last(fs), Len(fs), mode') /\ mode' \in Modes
  BY <1>1, <1>2, <1>3 DEF InMode, Modes, Phases
<1>. QED  BY <1>3, <1>4, <1>7, <1>15, <1>16, <1>17, <1>18, PushStep, RunningFacts

(* The C stack stays, ...                                                  *)
LEMMA StayStep ==
  ASSUME CountInv, NEW s, ThreadOK(s), s.ops = S.ops, s.body = S.body, s.nCcalls = S.nCcalls,
         s.nny = S.nny, s.allowhook = S.allowhook, cstack' = cstack, mode' \in Modes,
         InMode(s, Top, Len(cstack), mode'), Update(s)
  PROVE  CountInv'
BY PushStep, RunningFacts

LEMMA SameState ==
  ASSUME CountInv, state' = state
  PROVE  Update(S)
BY RunningFacts DEF Update, S

LEMMA ModeStep ==
  ASSUME CountInv, UNCHANGED <<state, cstack>>, mode' \in Modes, InMode(S, Top, Len(cstack), mode')
  PROVE  CountInv'
BY StayStep, SameState, RunningFacts

(* ... or loses its last activation.                                       *)
LEMMA PopFacts ==
  ASSUME CountInv, Top.kind \notin {"host", "resume"}
  PROVE  LET n == Len(cstack)
         IN /\ n - 1 \in 1 .. n /\ Below = cstack[n - 1] /\ Below.th = Running /\ Made(Below, Top)
            /\ Below \in Activation
            /\ Pop = SubSeq(cstack, 1, n - 1)
            /\ CN(cstack) = NC(cstack, n - 1) + Counts(Top)
            /\ CY(cstack) = NY(cstack, n - 1) + NoYield(Top)
            /\ CH(cstack) = (HooksOn(cstack, n - 1) /\ Top.kind \notin {"hook", "gctm"})
            /\ NC(cstack, n - 1) \in Nat /\ NY(cstack, n - 1) \in Nat
            /\ HooksOn(cstack, n - 1) \in BOOLEAN
<1>. DEFINE n == Len(cstack)
<1>1. n /= 1
  BY RunningFacts DEF StackOK, Host
<1>2. n \in 2 .. n /\ n - 1 \in Nat \ {0} /\ n - 1 \in 1 .. n /\ n = (n - 1) + 1
  <2>1. n \in Nat \ {0}
    BY RunningFacts
  <2>2. \A k \in Nat \ {0} : k /= 1 =>
          k \in 2 .. k /\ k - 1 \in Nat \ {0} /\ k - 1 \in 1 .. k /\ k = (k - 1) + 1
    OBVIOUS
  <2>. QED  BY <1>1, <2>1, <2>2
<1>3. Made(cstack[n - 1], cstack[n]) /\ cstack[n] = Top
  BY <1>2, RunningFacts DEF StackOK
<1>4. cstack[n - 1].th = Running /\ cstack[n].th = cstack[n - 1].th
  BY <1>3 DEF Made, Running
<1>5. NC(cstack, n) = NC(cstack, n - 1) + Counts(cstack[n])
  BY <1>2, OneMore
<1>6. /\ NY(cstack, n) = NY(cstack, n - 1) + NoYield(cstack[n])
      /\ HooksOn(cstack, n) = (HooksOn(cstack, n - 1) /\ cstack[n].kind \notin {"hook", "gctm"})
  BY <1>2, <1>4, OneMoreOfThread
<1>7. NC(cstack, n - 1) \in Nat /\ NY(cstack, n - 1) \in Nat
  BY <1>2, CountsFinite
<1>8. HooksOn(cstack, n - 1) \in BOOLEAN
  BY DEF HooksOn
<1>. QED  BY <1>2, <1>3, <1>4, <1>5, <1>6, <1>7, <1>8, RunningFacts DEF Below, Pop, CN, CY, CH

LEMMA PopStep ==
  ASSUME CountInv, Top.kind \notin {"host", "resume"},
         NEW s, ThreadOK(s), s.ops = S.ops, ~s.body,
         s.nCcalls = NC(cstack, Len(cstack) - 1), s.nny = NY(cstack, Len(cstack) - 1),
         s.allowhook = HooksOn(cstack, Len(cstack) - 1),
         cstack' = Pop, mode' \in Modes, InMode(s, Below, Len(cstack) - 1, mode'), Update(s)
  PROVE  CountInv'
BY CutStep, PopFacts

LEMMA ModeCounts ==
  ASSUME CountInv,
         OpCall \/ Return \/ Error \/ HandlerDone \/ (mode = "precall" /\ mode' = "errormsg" /\ UNCHANGED <<state, cstack>>)
  PROVE  CountInv'
<1>1. CASE OpCall
  <2>1. mode = "run" /\ Top.kind = "exec" /\ mode' = "precall" /\ UNCHANGED <<state, cstack>>
    BY <1>1 DEF OpCall, InLua, Body
  <2>2. InMode(S, Top, Len(cstack), mode') /\ mode' \in Modes
    BY <2>1, RunMode, RunningFacts DEF InMode, Modes, Phases, StackOK, Host
  <2>. QED  BY <2>1, <2>2, ModeStep
<1>2. CASE Return
  <2>1. mode = "run" /\ Top.kind \in Bodies /\ mode' = "ret" /\ UNCHANGED <<state, cstack>>
    BY <1>2 DEF Return, InLua, Body, Bodies
  <2>2. InMode(S, Top, Len(cstack), mode') /\ mode' \in Modes
    BY <2>1, RunMode, RunningFacts DEF InMode, Modes, Phases, StackOK, Host, Bodies
  <2>. QED  BY <2>1, <2>2, ModeStep
<1>3. CASE Error
  <2>1. mode = "run" /\ Top.kind \in Bodies \union {"hook"} /\ mode' = "errormsg" /\ UNCHANGED <<state, cstack>>
    BY <1>3 DEF Error, InCode, InC, UserHook, InLua, Body, Bodies
  <2>2. InMode(S, Top, Len(cstack), mode') /\ mode' \in Modes
    BY <2>1, RunMode, RunningFacts DEF InMode, Modes, Phases, StackOK, Host, Bodies
  <2>. QED  BY <2>1, <2>2, ModeStep
<1>4. CASE HandlerDone
  <2>1. mode = "run" /\ Top.kind = "errormsg" /\ mode' = "ERRRUN" /\ UNCHANGED <<state, cstack>>
    BY <1>4 DEF HandlerDone, Body
  <2>2. InMode(S, Top, Len(cstack), mode') /\ mode' \in Modes
    BY <2>1, RunMode, RunningFacts DEF InMode, Modes, ErrorStatus, StackOK, Host
  <2>. QED  BY <2>1, <2>2, ModeStep
<1>5. CASE mode = "precall" /\ mode' = "errormsg" /\ UNCHANGED <<state, cstack>>
  <2>1. InMode(S, Top, Len(cstack), mode') /\ mode' \in Modes
    BY <1>5, RunningFacts DEF InMode, Modes, Phases, Bodies
  <2>. QED  BY <1>5, <2>1, ModeStep
<1>. QED  BY <1>1, <1>2, <1>3, <1>4, <1>5

LEMMA PrecallFailsCounts ==
  ASSUME CountInv, PrecallFails
  PROVE  CountInv'
<1>1. mode = "precall"
  BY DEF PrecallFails
<1>2. CASE mode' = "errormsg" /\ UNCHANGED <<state, cstack>>
  BY <1>1, <1>2, ModeCounts
<1>3. CASE mode' = "ERRERR" /\ UNCHANGED state /\ UNCHANGED cstack
  <2>1. InMode(S, Top, Len(cstack), mode') /\ mode' \in Modes
    BY <1>1, <1>3, RunningFacts DEF InMode, Modes, ErrorStatus
  <2>. QED  BY <1>3, <2>1, ModeStep
<1>4. CASE mode' = "errormsg" /\ Update([S EXCEPT !.big = TRUE]) /\ UNCHANGED cstack
  <2>. DEFINE s == [S EXCEPT !.big = TRUE]
  <2>1. s \in ThreadState /\ s.ci = S.ci /\ Counters(s, S)
    BY RunningFacts DEF ThreadState, Counters
  <2>. HIDE DEF s
  <2>2. InMode(s, Top, Len(cstack), mode') /\ mode' \in Modes
    BY <1>1, <1>4, <2>1, RunningFacts DEF InMode, Modes, Phases, Counters, Bodies
  <2>3. ThreadOK(s)
    BY <2>1, ThreadUpdate, RunningFacts
  <2>4. Update(s)
    BY <1>4 DEF s
  <2>. QED  BY <1>4, <2>1, <2>2, <2>3, <2>4, StayStep DEF Counters
<1>. QED  BY <1>2, <1>3, <1>4 DEF PrecallFails

LEMMA HookActOK ==
  ASSUME CountInv, NEW ci \in Nat, NEW ev \in {"call", "ret", "count"}
  PROVE  /\ HookAct(ci, ev) \in Activation /\ HookAct(ci, ev).kind = "hook"
         /\ HookAct(ci, ev).th = Running /\ HookAct(ci, ev).ci = ci /\ HookAct(ci, ev).ev = ev
<1>1. S.hook \in Hooks
  BY RunningFacts DEF ThreadState
<1>. QED  BY <1>1, RunningFacts DEF HookAct, Activation

(* A hook starts, in the state t, after the activations of 'stack'.        *)
LEMMA HookStep ==
  ASSUME CountInv, NEW stack, StackOK(stack), Extends(stack, cstack), Last(stack).th = Running,
         Last(stack).kind \in Bodies \union {"resume"},
         NEW t, ThreadOK(t), t.ops = S.ops, ~t.body, t.status = "OK",
         t.nCcalls = CN(stack), t.nny = CY(stack), t.allowhook = FALSE, CH(stack),
         NEW ci \in Nat, NEW ev \in {"call", "ret", "count"},
         Last(stack).kind = "resume" => ev = "ret", ev = "count" => Last(stack).kind = "exec",
         cstack' = Append(stack, HookAct(ci, ev)), Update(t), mode' = "run"
  PROVE  CountInv'
<1>. DEFINE b == HookAct(ci, ev)  ds == Append(stack, b)
<1>1. b \in Activation /\ b.kind = "hook" /\ b.th = Running /\ b.ev = ev
  BY HookActOK
<1>. HIDE DEF b
<1>2. Made(Last(stack), b)
  BY <1>1 DEF Made, Callers, Bodies
<1>3. /\ StackOK(ds) /\ Extends(ds, cstack) /\ Last(ds).th = Running /\ Last(ds) = b
      /\ Len(ds) = Len(stack) + 1
      /\ CN(ds) = CN(stack) + Counts(b) /\ CY(ds) = CY(stack) + NoYield(b)
      /\ CH(ds) = (CH(stack) /\ b.kind \notin {"hook", "gctm"})
  BY <1>1, <1>2, PushOne
<1>4. cstack' = ds
  BY DEF b
<1>. HIDE DEF ds
<1>5. Counts(b) = 0 /\ NoYield(b) = 0
  BY <1>1 DEF Counts, NoYield
<1>6. t.nCcalls \in Int /\ t.nny \in Int
  BY DEF ThreadOK, ThreadState
<1>7. t.nCcalls = CN(ds) /\ t.nny = CY(ds)
  BY <1>3, <1>5, <1>6
<1>8. t.allowhook = CH(ds)
  BY <1>1, <1>3
<1>9. InMode(t, Last(ds), Len(ds), mode') /\ mode' \in Modes
  BY DEF InMode, Modes, Phases
<1>. QED  BY <1>3, <1>4, <1>7, <1>8, <1>9, PushStep

LEMMA BodyAct ==
  ASSUME CountInv, NEW kind \in Bodies \union {"level"}, NEW ci \in Nat
  PROVE  Kind(kind, ci) \in Activation /\ Kind(kind, ci).kind = kind /\ Kind(kind, ci).th = Running
         /\ Kind(kind, ci).ci = ci
BY RunningFacts DEF Kind, Activation, Bodies

LEMMA PrecallCounts ==
  ASSUME CountInv, FramesExist(state, cstack), Precall
  PROVE  CountInv'
<1>1. mode = "precall" /\ mode' = "run" /\ Top.kind \in {"call", "exec", "resume"} /\ S.status = "OK"
  BY RunningFacts, SMTT(40) DEF Precall, InMode
<1>2. PICK lua \in BOOLEAN :
        LET reentry == lua /\ Top.kind = "exec"
            acts == IF reentry THEN cstack ELSE Append(cstack, Kind(IF lua THEN "exec" ELSE "cfun", Depth + 1))
            s == [S EXCEPT !.ci = Append(@, NewFrame(lua, lua /\ ~reentry))]
        IN IF HookSet THEN /\ cstack' = Append(acts, HookAct(Depth + 1, "call"))
                           /\ Update([s EXCEPT !.allowhook = FALSE])
           ELSE cstack' = acts /\ Update(s)
  BY DEF Precall
<1>. DEFINE reentry == lua /\ Top.kind = "exec"
            b == Kind(IF lua THEN "exec" ELSE "cfun", Depth + 1)
            acts == IF reentry THEN cstack ELSE Append(cstack, b)
            s == [S EXCEPT !.ci = Append(@, NewFrame(lua, lua /\ ~reentry))]
            t == [s EXCEPT !.allowhook = FALSE]
<1>3. /\ HookSet => cstack' = Append(acts, HookAct(Depth + 1, "call")) /\ Update(t)
      /\ ~HookSet => cstack' = acts /\ Update(s)
  BY <1>2
<1>4. Depth + 1 \in Nat
  BY RunningFacts
<1>5. b \in Activation /\ b.kind = (IF lua THEN "exec" ELSE "cfun") /\ b.th = Running
  BY <1>4, BodyAct DEF Bodies
<1>6. ThreadOK(s) /\ Counters(s, S)
  <2>1. (lua /\ ~reentry) \in BOOLEAN
    OBVIOUS
  <2>. QED  BY <2>1, NewFrameOK, RunningFacts
<1>7. t \in ThreadState /\ t.ci = s.ci /\ t.status = s.status /\ t.nny = s.nny /\ t.nCcalls = s.nCcalls
      /\ t.allowhook = FALSE /\ t.ops = s.ops /\ t.body = s.body
  <2>1. s \in ThreadState
    BY <1>6 DEF ThreadOK
  <2>. HIDE DEF s
  <2>. QED  BY <2>1 DEF ThreadState
<1>. HIDE DEF b, s
<1>8. ThreadOK(t)
  BY <1>6, <1>7, ThreadUpdate
<1>9. /\ StackOK(acts) /\ Extends(acts, cstack) /\ Last(acts).th = Running
      /\ Last(acts).kind \in Bodies
      /\ CN(acts) = CN(cstack) /\ CY(acts) = CY(cstack) /\ CH(acts) = CH(cstack)
      /\ Len(acts) \in Nat
  <2>1. CASE reentry
    BY <2>1, RunningFacts DEF Bodies
  <2>2. CASE ~reentry
    <3>1. Made(Last(cstack), b)
      BY <1>1, <1>5, <2>2, RunningFacts DEF Made, Callers, Bodies
    <3>2. b.kind \in Bodies
      BY <1>5 DEF Bodies
    <3>3. LET ds == Append(cstack, b)
          IN /\ StackOK(ds) /\ Extends(ds, cstack) /\ Last(ds).th = Running /\ Last(ds) = b
             /\ Len(ds) = Len(cstack) + 1
             /\ CN(ds) = CN(cstack) + Counts(b) /\ CY(ds) = CY(cstack) + NoYield(b)
             /\ CH(ds) = (CH(cstack) /\ b.kind \notin {"hook", "gctm"})
      BY <1>5, <3>1, <3>2, PushOne, RunningFacts DEF Bodies
    <3>4. Counts(b) = 0 /\ NoYield(b) = 0 /\ b.kind \notin {"hook", "gctm"}
      BY <3>2 DEF Counts, NoYield, Bodies
    <3>5. acts = Append(cstack, b)
      BY <2>2
    <3>. HIDE DEF acts
    <3>. QED  BY <3>2, <3>3, <3>4, <3>5, RunningFacts
  <2>. QED  BY <2>1, <2>2
<1>. HIDE DEF acts
<1>10. CASE HookSet
  <2>1. CH(acts)
    BY <1>9, <1>10, RunningFacts DEF HookSet
  <2>. HIDE DEF t
  <2>2. cstack' = Append(acts, HookAct(Depth + 1, "call")) /\ Update(t)
    BY <1>3, <1>10
  <2>3. Last(acts).kind /= "resume" /\ Last(acts).kind \in Bodies \union {"resume"}
    BY <1>9 DEF Bodies
  <2>. QED  BY <1>1, <1>4, <1>6, <1>7, <1>8, <1>9, <2>1, <2>2, <2>3, HookStep, RunningFacts DEF Counters
<1>11. CASE ~HookSet
  <2>1. InMode(s, Last(acts), Len(acts), mode') /\ mode' \in Modes
    BY <1>1, <1>6 DEF InMode, Modes, Phases, Counters
  <2>2. s.nCcalls = CN(acts) /\ s.nny = CY(acts) /\ s.allowhook = CH(acts) /\ s.ops = S.ops /\ ~s.body
    BY <1>6, <1>9, RunningFacts DEF Counters
  <2>. QED  BY <1>3, <1>6, <1>9, <1>11, <2>1, <2>2, PushStep
<1>. QED  BY <1>10, <1>11

LEMMA ReturnHookCounts ==
  ASSUME CountInv, FramesExist(state, cstack), ReturnHook
  PROVE  CountInv'
<1>. DEFINE t == [S EXCEPT !.allowhook = FALSE]
<1>1. mode = "ret" /\ HookSet /\ cstack' = Append(cstack, HookAct(Depth, "ret")) /\ Update(t)
      /\ mode' = "run"
  BY DEF ReturnHook
<1>2. S.status = "OK" /\ Top.kind \in Bodies \union {"resume"}
  BY <1>1, RunningFacts DEF InMode
<1>3. CH(cstack)
  BY <1>1, RunningFacts DEF HookSet
<1>4. t \in ThreadState /\ t.ci = S.ci /\ t.status = S.status /\ t.nny = S.nny /\ t.nCcalls = S.nCcalls
      /\ t.allowhook = FALSE /\ t.ops = S.ops /\ t.body = S.body
  BY RunningFacts DEF ThreadState
<1>. HIDE DEF t
<1>5. ThreadOK(t)
  BY <1>4, ThreadUpdate, RunningFacts
<1>. QED  BY <1>1, <1>2, <1>3, <1>4, <1>5, HookStep, RunningFacts

LEMMA CountHookCounts ==
  ASSUME CountInv, FramesExist(state, cstack), CountHook
  PROVE  CountInv'
<1>1. mode = "run" /\ mode' = "run" /\ Top.kind = "exec"
  BY DEF CountHook, Body
<1>2. S.status = "OK"
  BY <1>1, RunMode
<1>3. CASE CurrentCI.hookyield
  <2>. DEFINE f == [CurrentCI EXCEPT !.hookyield = FALSE]
  <2>1. f \in Frame /\ (f.yp => f.oah)
    BY RunningFrames DEF Frame
  <2>2. Update(SetFrame(S, f)) /\ cstack' = cstack
    BY <1>3 DEF CountHook
  <2>. HIDE DEF f
  <2>3. ThreadOK(SetFrame(S, f)) /\ Counters(SetFrame(S, f), S)
    BY <2>1, SetFrameOK, RunningFacts, RunningFrames DEF Depth
  <2>4. InMode(SetFrame(S, f), Top, Len(cstack), mode') /\ mode' \in Modes
    BY <1>1, <1>2, <2>3 DEF InMode, Modes, Phases, Counters
  <2>. QED  BY <2>2, <2>3, <2>4, StayStep DEF Counters
<1>4. CASE ~CurrentCI.hookyield
  <2>. DEFINE t == [S EXCEPT !.allowhook = FALSE]
  <2>1. S.allowhook /\ cstack' = Append(cstack, HookAct(Depth, "count")) /\ Update(t)
    BY <1>4 DEF CountHook
  <2>2. CH(cstack)
    BY <2>1, RunningFacts
  <2>3. t \in ThreadState /\ t.ci = S.ci /\ t.status = S.status /\ t.nny = S.nny /\ t.nCcalls = S.nCcalls
        /\ t.allowhook = FALSE /\ t.ops = S.ops /\ t.body = S.body
    BY RunningFacts DEF ThreadState
  <2>. HIDE DEF t
  <2>4. ThreadOK(t)
    BY <2>3, ThreadUpdate, RunningFacts
  <2>5. Last(cstack).kind \in Bodies \union {"resume"} /\ Last(cstack).kind = "exec"
    BY <1>1, RunningFacts DEF Bodies
  <2>. QED  BY <1>1, <1>2, <2>1, <2>2, <2>3, <2>4, <2>5, HookStep, RunningFacts
<1>. QED  BY <1>3, <1>4

LEMMA EnterLevelCounts ==
  ASSUME CountInv, FramesExist(state, cstack), EnterLevel
  PROVE  CountInv'
<1>. DEFINE s == [S EXCEPT !.nCcalls = @ + 1]  b == Kind("level", Depth)  ds == Append(cstack, b)
<1>1. Top.kind \in {"parser", "level"} /\ mode = "run" /\ Update(s) /\ cstack' = ds
      /\ mode' \in {"ERRSYNTAX", "run"}
  BY DEF EnterLevel, InParser, Body
<1>2. S.status = "OK"
  BY <1>1, RunMode
<1>3. s \in ThreadState /\ s.ci = S.ci /\ s.allowhook = S.allowhook /\ s.nny = S.nny
      /\ s.nCcalls = S.nCcalls + 1 /\ s.status = S.status /\ s.ops = S.ops /\ s.body = S.body
  <2>1. S \in ThreadState /\ S.nCcalls + 1 \in Int
    BY RunningFacts
  <2>. QED  BY <2>1 DEF ThreadState
<1>. HIDE DEF s
<1>4. ThreadOK(s)
  BY <1>3, ThreadUpdate, RunningFacts
<1>5. b \in Activation /\ b.kind = "level" /\ b.th = Running
  BY BodyAct, RunningFacts, ZenonT(60)
<1>. HIDE DEF b
<1>6. Made(Last(cstack), b)
  BY <1>1, <1>5, RunningFacts DEF Made, Callers, Bodies
<1>7. /\ StackOK(ds) /\ Extends(ds, cstack) /\ Last(ds).th = Running /\ Last(ds) = b
      /\ Len(ds) = Len(cstack) + 1
      /\ CN(ds) = CN(cstack) + Counts(b) /\ CY(ds) = CY(cstack) + NoYield(b)
      /\ CH(ds) = (CH(cstack) /\ b.kind \notin {"hook", "gctm"})
  BY <1>5, <1>6, PushOne, RunningFacts
<1>. HIDE DEF ds
<1>8. s.nCcalls = CN(ds) /\ s.nny = CY(ds) /\ s.allowhook = CH(ds)
  BY <1>3, <1>5, <1>7, RunningFacts DEF Counts, NoYield
<1>9. InMode(s, Last(ds), Len(ds), mode') /\ mode' \in Modes
  BY <1>1, <1>2, <1>3, <1>7, RunningFacts DEF InMode, Modes, Phases, ErrorStatus
<1>. QED  BY <1>1, <1>3, <1>4, <1>7, <1>8, <1>9, PushStep, RunningFacts

LEMMA LeaveLevelCounts ==
  ASSUME CountInv, LeaveLevel
  PROVE  CountInv'
<1>. DEFINE s == [S EXCEPT !.nCcalls = @ - 1]
<1>1. Top.kind = "level" /\ mode = "run" /\ Update(s) /\ cstack' = Pop /\ mode' = mode
  BY DEF LeaveLevel, Body
<1>2. S.status = "OK"
  BY <1>1, RunMode
<1>3. s \in ThreadState /\ s.ci = S.ci /\ s.allowhook = S.allowhook /\ s.nny = S.nny
      /\ s.nCcalls = S.nCcalls - 1 /\ s.status = S.status /\ s.ops = S.ops /\ s.body = S.body
  <2>1. S \in ThreadState /\ S.nCcalls - 1 \in Int
    BY RunningFacts
  <2>. QED  BY <2>1 DEF ThreadState
<1>. HIDE DEF s
<1>4. ThreadOK(s)
  BY <1>3, ThreadUpdate, RunningFacts
<1>5. Counts(Top) = 1 /\ NoYield(Top) = 0
  BY <1>1 DEF Counts, NoYield
<1>6. s.nCcalls = NC(cstack, Len(cstack) - 1) /\ s.nny = NY(cstack, Len(cstack) - 1)
      /\ s.allowhook = HooksOn(cstack, Len(cstack) - 1)
  BY <1>1, <1>3, <1>5, PopFacts, RunningFacts, SMTT(40)
<1>7. InMode(s, Below, Len(cstack) - 1, mode') /\ mode' \in Modes
  BY <1>1, <1>2, <1>3 DEF InMode, Modes, Phases
<1>. QED  BY <1>1, <1>3, <1>4, <1>6, <1>7, PopStep, RunningFacts

LEMMA LoadDoneCounts ==
  ASSUME CountInv, LoadDone
  PROVE  CountInv'
<1>. DEFINE s == [S EXCEPT !.nny = @ - 1]
<1>1. Top.kind = "load" /\ mode = "run" /\ Update(s) /\ cstack' = Pop /\ mode' = mode
  BY DEF LoadDone, Body
<1>2. S.status = "OK"
  BY <1>1, RunMode
<1>3. s \in ThreadState /\ s.ci = S.ci /\ s.allowhook = S.allowhook /\ s.nny = S.nny - 1
      /\ s.nCcalls = S.nCcalls /\ s.status = S.status /\ s.ops = S.ops /\ s.body = S.body
  <2>1. S \in ThreadState /\ S.nny - 1 \in Int
    BY RunningFacts
  <2>. QED  BY <2>1 DEF ThreadState
<1>. HIDE DEF s
<1>4. ThreadOK(s)
  BY <1>3, ThreadUpdate, RunningFacts
<1>5. Counts(Top) = 0 /\ NoYield(Top) = 1
  BY <1>1 DEF Counts, NoYield
<1>6. s.nCcalls = NC(cstack, Len(cstack) - 1) /\ s.nny = NY(cstack, Len(cstack) - 1)
      /\ s.allowhook = HooksOn(cstack, Len(cstack) - 1)
  BY <1>1, <1>3, <1>5, PopFacts, RunningFacts
<1>7. InMode(s, Below, Len(cstack) - 1, mode') /\ mode' \in Modes
  BY <1>1, <1>2, <1>3 DEF InMode, Modes, Phases
<1>. QED  BY <1>1, <1>3, <1>4, <1>6, <1>7, PopStep, RunningFacts

(* Hooks are allowed again as they were when the hook, or the finalizer,   *)
(* started.                                                                *)
LEMMA SavedFacts ==
  ASSUME CountInv
  PROVE  /\ Top.kind = "pcall" => Top.ncc = CN(cstack) /\ Top.nny = CY(cstack) /\ Top.oah = CH(cstack)
         /\ Top.kind = "resume" => /\ Top.ncc = CN(cstack) /\ Top.oldnny = 1 /\ Running \in Coroutines
         /\ Top.kind = "gctm" => Top.oah = HooksOn(cstack, Len(cstack) - 1)
         /\ Top.kind = "hook" => HooksOn(cstack, Len(cstack) - 1) = TRUE
<1>1. Saved(cstack, Len(cstack)) /\ cstack[Len(cstack)] = Top
  BY RunningFacts DEF StackOK
<1>. QED  BY <1>1, RunningFacts DEF Saved, CN, CY, CH, Threads, Running, HooksOn

LEMMA PcallDoneCounts ==
  ASSUME CountInv, PcallDone
  PROVE  CountInv'
<1>. DEFINE s == [S EXCEPT !.errfunc = Top.oerr, !.nCcalls = Top.ncc,
                           !.armed = @ /\ Below.kind /= "host"]
<1>1. Top.kind = "pcall" /\ mode = "run" /\ Update(s) /\ cstack' = Pop /\ mode' = mode
  BY DEF PcallDone, Body
<1>2. S.status = "OK"
  BY <1>1, RunMode
<1>3. Top.oerr \in Nat /\ Top.ncc = CN(cstack)
  BY <1>1, SavedFacts, RunningFacts DEF Activation
<1>4. s \in ThreadState /\ s.ci = S.ci /\ s.allowhook = S.allowhook /\ s.nny = S.nny
      /\ s.nCcalls = CN(cstack) /\ s.status = S.status /\ s.ops = S.ops /\ s.body = S.body
  <2>1. S \in ThreadState /\ Top.ncc \in Int
    BY <1>3, RunningFacts
  <2>. QED  BY <1>3, <2>1 DEF ThreadState
<1>. HIDE DEF s
<1>5. ThreadOK(s)
  BY <1>4, ThreadUpdate, RunningFacts
<1>6. Counts(Top) = 0 /\ NoYield(Top) = 0
  BY <1>1 DEF Counts, NoYield
<1>7. s.nCcalls = NC(cstack, Len(cstack) - 1) /\ s.nny = NY(cstack, Len(cstack) - 1)
      /\ s.allowhook = HooksOn(cstack, Len(cstack) - 1)
  BY <1>1, <1>4, <1>6, PopFacts, RunningFacts
<1>8. InMode(s, Below, Len(cstack) - 1, mode') /\ mode' \in Modes
  BY <1>1, <1>2, <1>4 DEF InMode, Modes, Phases
<1>. QED  BY <1>1, <1>4, <1>5, <1>7, <1>8, PopStep, RunningFacts

LEMMA FinalizerDoneCounts ==
  ASSUME CountInv, FinalizerDone
  PROVE  CountInv'
<1>. DEFINE s == [S EXCEPT !.allowhook = Top.oah]
<1>1. Top.kind = "gctm" /\ mode = "run" /\ Update(s) /\ cstack' = Pop /\ mode' = mode
  BY DEF FinalizerDone, Body
<1>2. S.status = "OK"
  BY <1>1, RunMode
<1>3. Top.oah \in BOOLEAN /\ Top.oah = HooksOn(cstack, Len(cstack) - 1)
  BY <1>1, SavedFacts DEF HooksOn
<1>4. s \in ThreadState /\ s.ci = S.ci /\ s.allowhook = Top.oah /\ s.nny = S.nny
      /\ s.nCcalls = S.nCcalls /\ s.status = S.status /\ s.ops = S.ops /\ s.body = S.body
  BY <1>3, RunningFacts DEF ThreadState
<1>. HIDE DEF s
<1>5. ThreadOK(s)
  BY <1>4, ThreadUpdate, RunningFacts
<1>6. Counts(Top) = 0 /\ NoYield(Top) = 0
  BY <1>1 DEF Counts, NoYield
<1>7. s.nCcalls = NC(cstack, Len(cstack) - 1) /\ s.nny = NY(cstack, Len(cstack) - 1)
      /\ s.allowhook = HooksOn(cstack, Len(cstack) - 1)
  BY <1>1, <1>3, <1>4, <1>6, PopFacts, RunningFacts
<1>8. InMode(s, Below, Len(cstack) - 1, mode') /\ mode' \in Modes
  BY <1>1, <1>2, <1>4 DEF InMode, Modes, Phases
<1>. QED  BY <1>1, <1>4, <1>5, <1>7, <1>8, PopStep, RunningFacts

LEMMA HookDoneCounts ==
  ASSUME CountInv, HookDone
  PROVE  CountInv'
<1>. DEFINE s == [S EXCEPT !.allowhook = TRUE]
<1>1. Top.kind = "hook" /\ mode = "run" /\ Update(s) /\ cstack' = Pop /\ mode' \in {"poscall", "run"}
  BY DEF HookDone, UserHook, Body
<1>2. S.status = "OK"
  BY <1>1, RunMode
<1>3. HooksOn(cstack, Len(cstack) - 1) = TRUE
  BY <1>1, SavedFacts
<1>4. s \in ThreadState /\ s.ci = S.ci /\ s.allowhook = TRUE /\ s.nny = S.nny
      /\ s.nCcalls = S.nCcalls /\ s.status = S.status /\ s.ops = S.ops /\ s.body = S.body
  BY RunningFacts DEF ThreadState
<1>. HIDE DEF s
<1>5. ThreadOK(s)
  BY <1>4, ThreadUpdate, RunningFacts
<1>6. Counts(Top) = 0 /\ NoYield(Top) = 0
  BY <1>1 DEF Counts, NoYield
<1>7. s.nCcalls = NC(cstack, Len(cstack) - 1) /\ s.nny = NY(cstack, Len(cstack) - 1)
      /\ s.allowhook = HooksOn(cstack, Len(cstack) - 1)
  <2>1. s.nCcalls = NC(cstack, Len(cstack) - 1) /\ s.nny = NY(cstack, Len(cstack) - 1)
    BY <1>1, <1>4, <1>6, PopFacts, RunningFacts
  <2>. QED  BY <1>3, <1>4, <2>1
<1>8. Below.kind \in Bodies \union {"resume"} /\ Len(cstack) - 1 /= 1
  <2>1. Below.kind \in Bodies \union {"resume"}
    BY <1>1, PopFacts DEF Made, Callers, Bodies
  <2>2. cstack[1].kind = "host"
    BY RunningFacts DEF StackOK, Host
  <2>. QED  BY <1>1, <2>1, <2>2, PopFacts DEF Bodies
<1>9. InMode(s, Below, Len(cstack) - 1, mode') /\ mode' \in Modes
  BY <1>1, <1>2, <1>4, <1>8 DEF InMode, Modes, Phases
<1>. QED  BY <1>1, <1>4, <1>5, <1>7, <1>9, PopStep, RunningFacts

LEMMA ParserEndsCounts ==
  ASSUME CountInv, ParserEnds
  PROVE  CountInv'
<1>1. Top.kind \in {"parser", "level"} /\ mode = "run" /\ state' = state
  BY DEF ParserEnds, InParser, Body
<1>2. S.status = "OK"
  BY <1>1, RunMode
<1>3. CASE Top.kind = "parser" /\ cstack' = Pop /\ mode' = mode
  <2>1. Counts(Top) = 0 /\ NoYield(Top) = 0
    BY <1>3 DEF Counts, NoYield
  <2>2. S.nCcalls = NC(cstack, Len(cstack) - 1) /\ S.nny = NY(cstack, Len(cstack) - 1)
        /\ S.allowhook = HooksOn(cstack, Len(cstack) - 1)
    BY <1>1, <1>3, <2>1, PopFacts, RunningFacts
  <2>3. InMode(S, Below, Len(cstack) - 1, mode') /\ mode' \in Modes
    BY <1>1, <1>2, <1>3 DEF InMode, Modes, Phases
  <2>4. Update(S)
    BY <1>1, SameState
  <2>. QED  BY <1>1, <1>3, <2>2, <2>3, <2>4, PopStep, RunningFacts
<1>4. CASE mode' = "ERRSYNTAX" /\ cstack' = cstack
  <2>1. InMode(S, Top, Len(cstack), mode') /\ mode' \in Modes
    BY <1>1, <1>2, <1>4, RunningFacts DEF InMode, Modes, ErrorStatus, StackOK, Host
  <2>. QED  BY <1>1, <1>4, <2>1, ModeStep
<1>. QED  BY <1>3, <1>4 DEF ParserEnds, Body

(* luaD_poscall.                                                           *)
LEMMA PoscallCounts ==
  ASSUME CountInv, FramesExist(state, cstack), Poscall
  PROVE  CountInv'
<1>. DEFINE s == CutFrames(S, Depth - 1)
<1>1. mode \in {"ret", "poscall"} /\ mode' = "run" /\ Update(s)
      /\ cstack' = (IF Top.kind = "cfun" \/ (Top.kind = "exec" /\ CurrentCI.fresh) THEN Pop ELSE cstack)
  BY DEF Poscall
<1>2. S.status = "OK"
  BY <1>1, RunningFacts DEF InMode
<1>3. ThreadOK(s) /\ Counters(s, S)
  <2>1. Depth - 1 \in 0 .. Len(S.ci)
    BY RunningFrames DEF Depth
  <2>. QED  BY <2>1, CutFramesOK, RunningFacts
<1>. HIDE DEF s
<1>4. mode' \in Modes
  BY <1>1 DEF Modes, Phases
<1>5. CASE cstack' = cstack
  <2>1. InMode(s, Top, Len(cstack), mode')
    BY <1>1, <1>2, <1>3 DEF InMode, Counters
  <2>. QED  BY <1>1, <1>3, <1>4, <1>5, <2>1, StayStep DEF Counters
<1>6. CASE cstack' = Pop /\ Top.kind \in {"cfun", "exec"}
  <2>1. Counts(Top) = 0 /\ NoYield(Top) = 0
    BY <1>6 DEF Counts, NoYield
  <2>2. s.nCcalls = NC(cstack, Len(cstack) - 1) /\ s.nny = NY(cstack, Len(cstack) - 1)
        /\ s.allowhook = HooksOn(cstack, Len(cstack) - 1)
    BY <1>3, <1>6, <2>1, PopFacts, RunningFacts DEF Counters
  <2>3. InMode(s, Below, Len(cstack) - 1, mode')
    BY <1>1, <1>2, <1>3 DEF InMode, Counters
  <2>. QED  BY <1>1, <1>3, <1>4, <1>6, <2>2, <2>3, PopStep, RunningFacts DEF Counters
<1>. QED  BY <1>1, <1>5, <1>6

LEMMA CallDoneCounts ==
  ASSUME CountInv, FramesExist(state, cstack), CallDone
  PROVE  CountInv'
<1>. DEFINE s == [S EXCEPT !.nCcalls = @ - 1, !.nny = IF Top.noyield THEN @ - 1 ELSE @]
            f == [CurrentCI EXCEPT !.yp = FALSE]
            t == [SetFrame(s, f) EXCEPT !.errfunc = CurrentCI.oerr]
            u == IF Top.yp THEN t ELSE s
<1>1. Top.kind = "call" /\ mode = "run" /\ cstack' = Pop /\ mode' = mode
  BY DEF CallDone, Body
<1>2. Update(u)
  BY DEF CallDone
<1>3. S.status = "OK"
  BY <1>1, RunMode
<1>4. Counts(Top) = 1 /\ NoYield(Top) = (IF Top.noyield THEN 1 ELSE 0)
  BY <1>1 DEF Counts, NoYield
<1>5. /\ s \in ThreadState /\ s.ci = S.ci /\ s.status = "OK" /\ s.ops = S.ops /\ ~s.body
      /\ s.nCcalls = S.nCcalls - 1 /\ s.nny = (IF Top.noyield THEN S.nny - 1 ELSE S.nny)
      /\ s.allowhook = S.allowhook
  <2>1. S \in ThreadState /\ S.nCcalls - 1 \in Int /\ S.nny - 1 \in Int
    BY RunningFacts
  <2>2. (IF Top.noyield THEN S.nny - 1 ELSE S.nny) \in Int
    BY <2>1 DEF ThreadState
  <2>3. s \in ThreadState
    BY <2>1, <2>2 DEF ThreadState
  <2>4. s.nny = (IF Top.noyield THEN S.nny - 1 ELSE S.nny)
    BY <2>1 DEF ThreadState
  <2>5. s.ci = S.ci /\ s.status = "OK" /\ s.ops = S.ops /\ ~s.body
    BY <1>3, <2>1, RunningFacts DEF ThreadState
  <2>6. s.nCcalls = S.nCcalls - 1 /\ s.allowhook = S.allowhook
    BY <2>1 DEF ThreadState
  <2>. QED  BY <2>3, <2>4, <2>5, <2>6
<1>. HIDE DEF s
<1>6. ThreadOK(s)
  BY <1>5, ThreadUpdate, RunningFacts
<1>7. ThreadOK(t) /\ Counters(t, s)
  <2>1. f \in Frame /\ ~f.yp
    BY RunningFrames DEF Frame
  <2>. HIDE DEF f
  <2>2. ThreadOK(SetFrame(s, f)) /\ Counters(SetFrame(s, f), s)
    BY <1>5, <1>6, <2>1, SetFrameOK, RunningFrames DEF Depth
  <2>3. CurrentCI.oerr \in Nat
    BY RunningFrames DEF Frame
  <2>4. t \in ThreadState /\ t.ci = SetFrame(s, f).ci /\ Counters(t, s)
    BY <2>2, <2>3 DEF ThreadOK, ThreadState, Counters
  <2>. QED  BY <2>2, <2>4, ThreadUpdate
<1>. HIDE DEF t
<1>8. ThreadOK(u) /\ Counters(u, s)
  BY <1>6, <1>7 DEF Counters
<1>. HIDE DEF u
<1>9. u.nCcalls = NC(cstack, Len(cstack) - 1) /\ u.nny = NY(cstack, Len(cstack) - 1)
      /\ u.allowhook = HooksOn(cstack, Len(cstack) - 1)
  <2>1. Counts(Top) = 1 /\ u.nCcalls = CN(cstack) - 1 /\ CN(cstack) \in Nat
    BY <1>4, <1>5, <1>8, RunningFacts DEF Counters
  <2>2. u.nny = CY(cstack) - NoYield(Top) /\ CY(cstack) \in Nat /\ NoYield(Top) \in Nat
    BY <1>4, <1>5, <1>8, RunningFacts DEF Counters
  <2>3. u.allowhook = CH(cstack)
    BY <1>5, <1>8, RunningFacts DEF Counters
  <2>. QED  BY <1>1, <2>1, <2>2, <2>3, PopFacts
<1>10. InMode(u, Below, Len(cstack) - 1, mode') /\ mode' \in Modes
  BY <1>1, <1>5, <1>8 DEF InMode, Modes, Phases, Counters
<1>. QED  BY <1>1, <1>2, <1>5, <1>8, <1>9, <1>10, PopStep, RunningFacts DEF Counters

LEMMA LstopCounts ==
  ASSUME CountInv, Lstop
  PROVE  CountInv'
<1>. DEFINE s == [S EXCEPT !.hook = "none"]
<1>1. Top.kind = "hook" /\ mode = "run" /\ mode' = "errormsg" /\ Update(s) /\ cstack' = cstack
  BY DEF Lstop, Body
<1>2. S.status = "OK" /\ Len(cstack) /= 1
  BY <1>1, RunMode, RunningFacts DEF StackOK, Host
<1>3. s \in ThreadState /\ s.ci = S.ci /\ Counters(s, S)
  BY RunningFacts DEF ThreadState, Counters, Hooks
<1>. HIDE DEF s
<1>4. ThreadOK(s)
  BY <1>3, ThreadUpdate, RunningFacts
<1>5. InMode(s, Top, Len(cstack), mode') /\ mode' \in Modes
  BY <1>1, <1>2, <1>3 DEF InMode, Modes, Phases, Counters
<1>. QED  BY <1>1, <1>3, <1>4, <1>5, StayStep DEF Counters

LEMMA SetHookCounts ==
  ASSUME CountInv, NEW h \in {"none", "user"}, SetHook(h)
  PROVE  CountInv'
<1>. DEFINE s == [S EXCEPT !.hook = h]
<1>1. mode = "run" /\ mode' = mode /\ Update(s) /\ cstack' = cstack
  BY DEF SetHook, Body
<1>2. S.status = "OK"
  BY <1>1, RunMode
<1>3. s \in ThreadState /\ s.ci = S.ci /\ Counters(s, S)
  BY RunningFacts DEF ThreadState, Counters, Hooks
<1>. HIDE DEF s
<1>4. ThreadOK(s)
  BY <1>3, ThreadUpdate, RunningFacts
<1>5. InMode(s, Top, Len(cstack), mode') /\ mode' \in Modes
  BY <1>1, <1>2, <1>3 DEF InMode, Modes, Phases, Counters
<1>. QED  BY <1>1, <1>3, <1>4, <1>5, StayStep DEF Counters

LEMMA YieldCounts ==
  ASSUME CountInv, FramesExist(state, cstack), NEW k \in BOOLEAN, Yield(k)
  PROVE  CountInv'
<1>1. Top.kind = "cfun" /\ mode = "run" /\ cstack' = cstack
  BY DEF Yield, Body
<1>2. S.status = "OK" /\ Len(cstack) /= 1
  BY <1>1, RunMode, RunningFacts DEF StackOK, Host
<1>3. CASE S.nny > 0
  <2>1. mode' = "errormsg" /\ state' = state
    BY <1>3 DEF Yield
  <2>2. InMode(S, Top, Len(cstack), mode') /\ mode' \in Modes
    BY <1>1, <1>2, <2>1 DEF InMode, Modes, Phases, Bodies
  <2>. QED  BY <1>1, <2>1, <2>2, ModeStep
<1>4. CASE ~(S.nny > 0)
  <2>. DEFINE f == [CurrentCI EXCEPT !.k = k]
              t == [SetFrame(S, f) EXCEPT !.status = "YIELD"]
  <2>1. f \in Frame /\ (f.yp => f.oah)
    BY RunningFrames DEF Frame
  <2>2. Update(t) /\ mode' = "YIELD"
    BY <1>4 DEF Yield
  <2>. HIDE DEF f
  <2>3. ThreadOK(SetFrame(S, f)) /\ Counters(SetFrame(S, f), S)
    BY <2>1, SetFrameOK, RunningFacts, RunningFrames DEF Depth
  <2>4. t \in ThreadState /\ t.ci = SetFrame(S, f).ci /\ t.status = "YIELD" /\ t.nny = S.nny
        /\ t.nCcalls = S.nCcalls /\ t.allowhook = S.allowhook /\ t.ops = S.ops /\ t.body = S.body
    BY <2>3 DEF ThreadOK, ThreadState, Counters
  <2>. HIDE DEF t
  <2>5. ThreadOK(t)
    BY <2>3, <2>4, ThreadUpdate
  <2>6. S.nny = 0
    BY <1>4, RunningFacts
  <2>7. InMode(t, Top, Len(cstack), mode') /\ mode' \in Modes
    BY <1>1, <1>2, <2>2, <2>4, <2>6 DEF InMode, Modes, Bodies
  <2>. QED  BY <1>1, <2>2, <2>4, <2>5, <2>7, StayStep
<1>. QED  BY <1>3, <1>4

LEMMA YieldInHookCounts ==
  ASSUME CountInv, FramesExist(state, cstack), YieldInHook
  PROVE  CountInv'
<1>. DEFINE f == [CurrentCI EXCEPT !.hookyield = TRUE]
            t == [SetFrame(S, f) EXCEPT !.status = "YIELD", !.allowhook = TRUE]
<1>1. Top.kind = "hook" /\ mode = "run" /\ cstack' = Pop /\ mode' = "YIELD" /\ S.nny = 0 /\ Update(t)
      /\ Top.ev = "count"
  BY DEF YieldInHook, UserHook, Body
<1>2. f \in Frame /\ (f.yp => f.oah)
  BY RunningFrames DEF Frame
<1>. HIDE DEF f
<1>3. ThreadOK(SetFrame(S, f)) /\ Counters(SetFrame(S, f), S)
  BY <1>2, SetFrameOK, RunningFacts, RunningFrames DEF Depth
<1>4. t \in ThreadState /\ t.ci = SetFrame(S, f).ci /\ t.status = "YIELD" /\ t.nny = S.nny
      /\ t.nCcalls = S.nCcalls /\ t.allowhook = TRUE /\ t.ops = S.ops /\ t.body = S.body
  BY <1>3 DEF ThreadOK, ThreadState, Counters
<1>. HIDE DEF t
<1>5. ThreadOK(t)
  BY <1>3, <1>4, ThreadUpdate
<1>6. HooksOn(cstack, Len(cstack) - 1) = TRUE
  BY <1>1, SavedFacts
<1>7. Counts(Top) = 0 /\ NoYield(Top) = 0
  BY <1>1 DEF Counts, NoYield
<1>8. t.nCcalls = NC(cstack, Len(cstack) - 1) /\ t.nny = NY(cstack, Len(cstack) - 1)
      /\ t.allowhook = HooksOn(cstack, Len(cstack) - 1)
  <2>1. t.nCcalls = NC(cstack, Len(cstack) - 1) /\ t.nny = NY(cstack, Len(cstack) - 1)
    BY <1>1, <1>4, <1>7, PopFacts, RunningFacts
  <2>. QED  BY <1>4, <1>6, <2>1
<1>9. Below.kind \in Bodies /\ Len(cstack) - 1 /= 1
  <2>1. Below.kind \in Bodies
    BY <1>1, PopFacts DEF Made, Callers, Bodies
  <2>2. cstack[1].kind = "host"
    BY RunningFacts DEF StackOK, Host
  <2>. QED  BY <1>1, <2>1, <2>2, PopFacts DEF Bodies
<1>10. InMode(t, Below, Len(cstack) - 1, mode') /\ mode' \in Modes
  BY <1>1, <1>4, <1>9 DEF InMode, Modes
<1>. QED  BY <1>1, <1>4, <1>5, <1>8, <1>10, PopStep, RunningFacts

-----------------------------------------------------------------------------
(* Errors and coroutines.                                                  *)

(* A set of numbers up to a bound has a largest member.                    *)
LEMMA LargestMember ==
  ASSUME NEW b \in Nat, NEW U \in SUBSET (1 .. b), U /= {}
  PROVE  Max(U) \in U /\ \A y \in U : y <= Max(U)
<1>. DEFINE R == {ss \in Nat \X Nat : ss[1] < ss[2]}
            T == {x \in Nat : b - x \in U}
<1>1. IsWellFoundedOn(R, Nat)
  BY NatLessThanWellFounded DEF OpToRel
<1>2. T \subseteq Nat /\ T /= {}
  <2>1. PICK x \in U : TRUE
    OBVIOUS
  <2>2. b - x \in T
    BY <2>1
  <2>. QED  BY <2>2
<1>. HIDE DEF R, T
<1>3. PICK t \in T : \A u \in T : <<u, t>> \notin R
  BY <1>1, <1>2, WFMin
<1>4. b - t \in U /\ \A y \in U : b - t >= y
  <2>1. t \in Nat /\ b - t \in U
    BY <1>3 DEF T
  <2>2. ASSUME NEW y \in U PROVE b - t >= y
    <3>1. y \in Nat /\ b - y \in Nat /\ b - (b - y) = y
      OBVIOUS
    <3>2. b - y \in T
      BY <3>1, <2>2 DEF T
    <3>3. ~(b - y < t)
      BY <1>3, <2>1, <3>1, <3>2 DEF R
    <3>. QED  BY <2>1, <3>1, <3>3
  <2>. QED  BY <2>1, <2>2
<1>5. Max(U) \in U /\ \A y \in U : Max(U) >= y
  BY <1>4 DEF Max
<1>6. \A y \in U : y \in Int
  OBVIOUS
<1>. QED  BY <1>5, <1>6

(* The last activation of a thread.                                        *)
LEMMA LastActivation ==
  ASSUME NEW cs, StackOK(cs), NEW L, Runs(cs, L)
  PROVE  LET k == Max({i \in DOMAIN cs : cs[i].th = L})
         IN /\ k \in 1 .. Len(cs) /\ cs[k].th = L /\ \A j \in 1 .. Len(cs) : cs[j].th = L => j <= k
            /\ L = Last(cs).th => k = Len(cs)
            /\ L /= Last(cs).th => k \in 1 .. Len(cs) - 1 /\ cs[k + 1].kind = "resume"
<1>. DEFINE U == {i \in DOMAIN cs : cs[i].th = L}  k == Max(U)
<1>1. Len(cs) \in Nat \ {0} /\ DOMAIN cs = 1 .. Len(cs) /\ Last(cs) = cs[Len(cs)]
  BY DEF StackOK, Last
<1>2. U \in SUBSET (1 .. Len(cs)) /\ U /= {}
  BY <1>1 DEF Runs
<1>3. k \in U /\ \A j \in U : j <= k
  BY <1>1, <1>2, LargestMember
<1>. HIDE DEF k
<1>4. k \in 1 .. Len(cs) /\ cs[k].th = L /\ \A j \in 1 .. Len(cs) : cs[j].th = L => j <= k
  BY <1>1, <1>3
<1>5. L = Last(cs).th => k = Len(cs)
  <2>1. Len(cs) \in 1 .. Len(cs)
    BY <1>1
  <2>2. L = Last(cs).th => Len(cs) <= k
    BY <1>1, <1>4, <2>1
  <2>3. k \in Nat /\ k <= Len(cs) /\ Len(cs) \in Nat
    BY <1>1, <1>4
  <2>. QED  BY <2>2, <2>3
<1>6. ASSUME L /= Last(cs).th PROVE k \in 1 .. Len(cs) - 1 /\ cs[k + 1].kind = "resume"
  <2>1. k \in 1 .. Len(cs) - 1 /\ k + 1 \in 2 .. Len(cs) /\ k + 1 - 1 = k
    BY <1>1, <1>4, <1>6
  <2>2. Made(cs[k], cs[k + 1])
    BY <2>1 DEF StackOK
  <2>3. cs[k + 1].th /= L
    BY <1>4, <2>1
  <2>. QED  BY <1>4, <2>1, <2>2, <2>3 DEF Made
<1>. QED  BY <1>4, <1>5, <1>6 DEF k

(* A thread that is not running and could be resumed has no activation.    *)
LEMMA NotActive ==
  ASSUME CountInv, NEW L, L /= Running, state[L].status /= "OK" \/ state[L].body
  PROVE  ~Runs(cstack, L)
<1>. SUFFICES ASSUME Runs(cstack, L) PROVE FALSE
  OBVIOUS
<1>1. PICK k \in 1 .. Len(cstack) - 1 : cstack[k].th = L /\ cstack[k + 1].kind = "resume"
  BY LastActivation, RunningFacts, ZenonT(60)
<1>. QED  BY <1>1 DEF CountInv, CountOK, OthersOK, Counted

(* L->errorJmp: there is one, and nothing of another thread is above it.   *)
LEMMA CatcherFacts ==
  ASSUME CountInv, Len(cstack) /= 1
  PROVE  /\ Catcher \in 1 .. Len(cstack) /\ cstack[Catcher].kind \in {"pcall", "resume"}
         /\ cstack[Catcher].th = Running
         /\ \A j \in Catcher + 1 .. Len(cstack) :
              cstack[j].th = Running /\ cstack[j].kind \notin {"host", "pcall", "resume"}
<1>. DEFINE n == Len(cstack)
            U == {i \in DOMAIN cstack : cstack[i].kind \in {"pcall", "resume"} /\ cstack[i].th = Running}
<1>1. n \in Nat \ {0, 1} /\ DOMAIN cstack = 1 .. n /\ n \in 1 .. n /\ cstack[n].th = Running
  BY RunningFacts
<1>2. PICK r \in 1 .. n : /\ \A j \in r .. n : cstack[j].th = Running
                          /\ cstack[r].kind = (IF Running = Main THEN "host" ELSE "resume")
  <2>1. Together(cstack, n)
    BY <1>1, RunningFacts DEF StackOK
  <2>. QED  BY <1>1, <2>1 DEF Together
<1>3. U /= {}
  <2>1. CASE cstack[r].kind = "resume"
    <3>1. r \in U
      BY <1>1, <1>2, <2>1
    <3>. QED  BY <3>1
  <2>2. CASE cstack[r].kind = "host"
    <3>1. r = 1
      <4>. SUFFICES ASSUME r > 1 PROVE FALSE
        OBVIOUS
      <4>1. Made(cstack[r - 1], cstack[r])
        BY RunningFacts DEF StackOK
      <4>. QED  BY <2>2, <4>1 DEF Made, Callers, Bodies
    <3>2. 2 \in 2 .. n /\ 2 - 1 = 1 /\ 2 \in r .. n
      BY <1>1, <3>1
    <3>3. Made(cstack[1], cstack[2])
      BY <3>2, RunningFacts DEF StackOK
    <3>4. cstack[2].kind = "pcall" /\ cstack[2].th = Running
      BY <1>2, <2>2, <3>1, <3>2, <3>3 DEF Made
    <3>5. 2 \in U
      BY <1>1, <3>2, <3>4
    <3>. QED  BY <3>5
  <2>. QED  BY <1>2, <2>1, <2>2
<1>4. U \in SUBSET (1 .. n)
  BY <1>1
<1>5. Catcher \in U /\ \A j \in U : j <= Catcher
  BY <1>1, <1>3, <1>4, LargestMember DEF Catcher
<1>6. Catcher \in 1 .. n /\ cstack[Catcher].kind \in {"pcall", "resume"} /\ cstack[Catcher].th = Running
  BY <1>1, <1>5
<1>7. ASSUME NEW j \in Catcher + 1 .. n
      PROVE  cstack[j].th = Running /\ cstack[j].kind \notin {"host", "pcall", "resume"}
  <2>1. /\ \A i \in Catcher .. n : cstack[i].th = cstack[n].th
        /\ \A i \in Catcher + 1 .. n : cstack[i].kind \notin {"host", "resume"}
    BY <1>1, <1>6, Segment, RunningFacts
  <2>2. j \in 1 .. n /\ j \in Catcher .. n /\ ~(j <= Catcher)
    BY <1>1, <1>6, <1>7
  <2>3. j \notin U
    BY <1>5, <2>2
  <2>. QED  BY <1>1, <1>7, <2>1, <2>2, <2>3
<1>. QED  BY <1>6, <1>7

LEMMA SameCounters ==
  ASSUME NEW st, NEW cs, NEW m, CountOK(st, cs, m), NEW st2 \in [Threads -> ThreadState],
         \A L \in Threads : ThreadOK(st2[L]) /\ Counters(st2[L], st[L])
  PROVE  CountOK(st2, cs, m)
<1>1. \A i \in 1 .. Len(cs) : cs[i].th \in Threads
  <2>1. \A i \in 1 .. Len(cs) : cs[i] \in Activation
    BY DEF CountOK, StackOK
  <2>. QED  BY <2>1, ActivationKind
<1>2. Last(cs).th \in Threads /\ Len(cs) \in Nat \ {0}
  BY <1>1 DEF Last, CountOK, StackOK
<1>3. OthersOK(st2, cs)
  <2>1. ASSUME NEW i \in 1 .. Len(cs) - 1, cs[i + 1].kind = "resume"
        PROVE  Counted(st2[cs[i].th], cs, i) /\ st2[cs[i].th].status = "OK"
    <3>1. Counted(st[cs[i].th], cs, i) /\ st[cs[i].th].status = "OK" /\ cs[i].th \in Threads
      BY <1>1, <1>2, <2>1 DEF CountOK, OthersOK
    <3>. QED  BY <3>1 DEF Counted, Counters
  <2>2. ASSUME NEW L \in Coroutines, ~Runs(cs, L) PROVE Idle(st2[L])
    BY <2>2 DEF CountOK, OthersOK, Idle, Counters, Threads
  <2>. QED  BY <2>1, <2>2 DEF OthersOK
<1>4. Counted(st2[Last(cs).th], cs, Len(cs))
  BY <1>2 DEF CountOK, Counted, Counters
<1>5. InMode(st2[Last(cs).th], Last(cs), Len(cs), m)
  BY <1>2 DEF CountOK, InMode, Counters
<1>6. \A L \in Coroutines : "hookmetamethod" \notin st2[L].ops
  BY DEF CountOK, Threads, Counters
<1>. QED  BY <1>3, <1>4, <1>5, <1>6 DEF CountOK

LEMMA SignalCounts ==
  ASSUME CountInv, Signal
  PROVE  CountInv'
<1>. DEFINE s == [state[Main] EXCEPT !.hook = "lstop", !.armed = FALSE]
<1>1. state' = [state EXCEPT ![Main] = s] /\ cstack' = cstack /\ mode' = mode
  BY RunningFacts DEF Signal
<1>2. Main \in Threads /\ state[Main] \in ThreadState /\ ThreadOK(state[Main])
  BY DEF Threads, CountInv, CountOK
<1>3. s \in ThreadState /\ s.ci = state[Main].ci /\ Counters(s, state[Main])
  BY <1>2 DEF ThreadState, Counters, Hooks
<1>. HIDE DEF s
<1>4. ThreadOK(s)
  BY <1>2, <1>3, ThreadUpdate
<1>5. state' \in [Threads -> ThreadState] /\ \A L \in Threads : ThreadOK(state'[L]) /\ Counters(state'[L], state[L])
  BY <1>1, <1>2, <1>3, <1>4 DEF CountInv, CountOK, Counters
<1>. QED  BY <1>1, <1>5, SameCounters DEF CountInv

(* A thread that is not active changes.                                    *)
LEMMA IdleStep ==
  ASSUME CountInv, NEW L \in Coroutines, ~Runs(cstack, L), NEW s, ThreadOK(s), s.ops = state[L].ops,
         Idle(s), state' = [state EXCEPT ![L] = s], UNCHANGED <<cstack, mode>>
  PROVE  CountInv'
<1>1. s \in ThreadState /\ L \in Threads
  BY DEF ThreadOK, Threads
<1>2. state' \in [Threads -> ThreadState] /\ state'[L] = s /\ \A K \in Threads : K /= L => state'[K] = state[K]
  BY <1>1, RunningFacts
<1>3. /\ \A K \in Threads : ThreadOK(state'[K])
      /\ \A K \in Coroutines : "hookmetamethod" \notin state'[K].ops
  BY <1>2 DEF CountInv, CountOK, Threads
<1>4. \A i \in 1 .. Len(cstack) : cstack[i].th \in Threads /\ cstack[i].th /= L
  <2>1. \A i \in 1 .. Len(cstack) : cstack[i] \in Activation
    BY RunningFacts
  <2>. QED  BY <2>1, ActivationKind DEF Runs
<1>5. OthersOK(state', cstack)
  <2>1. ASSUME NEW i \in 1 .. Len(cstack) - 1, cstack[i + 1].kind = "resume"
        PROVE  Counted(state'[cstack[i].th], cstack, i) /\ state'[cstack[i].th].status = "OK"
    <3>1. i \in 1 .. Len(cstack)
      BY RunningFacts
    <3>2. state'[cstack[i].th] = state[cstack[i].th]
      BY <1>2, <1>4, <3>1
    <3>. QED  BY <2>1, <3>2 DEF CountInv, CountOK, OthersOK
  <2>2. ASSUME NEW K \in Coroutines, ~Runs(cstack, K) PROVE Idle(state'[K])
    BY <1>2, <2>2 DEF CountInv, CountOK, OthersOK, Threads
  <2>. QED  BY <2>1, <2>2 DEF OthersOK
<1>6. state'[Last(cstack).th] = state[Last(cstack).th]
  <2>1. Len(cstack) \in 1 .. Len(cstack)
    BY RunningFacts
  <2>. QED  BY <1>2, <1>4, <2>1 DEF Last
<1>7. CountOK(state', cstack, mode)
  BY <1>2, <1>3, <1>5, <1>6 DEF CountInv, CountOK
<1>. QED  BY <1>7 DEF CountInv

(* An error or a yield leaves the C stack of its thread.                   *)
LEMMA ThrownFacts ==
  ASSUME CountInv, Thrown
  PROVE  /\ Catcher \in 1 .. Len(cstack) /\ Catcher > 1 /\ Catcher - 1 \in 1 .. Len(cstack)
         /\ cstack[Catcher].kind \in {"pcall", "resume"}
         /\ cstack[Catcher].th = Running /\ cstack[Catcher] \in Activation
         /\ Saved(cstack, Catcher) /\ Made(cstack[Catcher - 1], cstack[Catcher])
         /\ cstack[Catcher - 1] \in Activation
         /\ Len(cstack) /= 1
<1>1. Len(cstack) /= 1
  BY RunningFacts DEF Thrown, InMode, ErrorStatus
<1>2. Catcher \in 1 .. Len(cstack) /\ cstack[Catcher].kind \in {"pcall", "resume"}
      /\ cstack[Catcher].th = Running
  BY <1>1, CatcherFacts
<1>3. Catcher > 1
  BY <1>2, RunningFacts DEF StackOK, Host
<1>4. Catcher - 1 \in 1 .. Len(cstack) /\ Catcher \in 2 .. Len(cstack)
  BY <1>2, <1>3, RunningFacts
<1>5. cstack[Catcher] \in Activation /\ cstack[Catcher - 1] \in Activation
  BY <1>2, <1>4, RunningFacts
<1>6. Saved(cstack, Catcher) /\ Made(cstack[Catcher - 1], cstack[Catcher])
  BY <1>2, <1>4, RunningFacts DEF StackOK
<1>. QED  BY <1>1, <1>2, <1>3, <1>4, <1>5, <1>6

(* What the activation before one that counts nothing had.                 *)
LEMMA CountsBefore ==
  ASSUME CountInv, NEW i \in 2 .. Len(cstack), cstack[i].kind \in {"pcall", "gctm"}
  PROVE  /\ i - 1 \in 1 .. Len(cstack) /\ cstack[i - 1].th = cstack[i].th
         /\ NC(cstack, i) = NC(cstack, i - 1) /\ NY(cstack, i) = NY(cstack, i - 1)
         /\ cstack[i].kind = "pcall" => HooksOn(cstack, i) = HooksOn(cstack, i - 1)
<1>1. i - 1 \in Nat \ {0} /\ i = (i - 1) + 1 /\ i - 1 \in 1 .. Len(cstack)
  BY RunningFacts
<1>2. Made(cstack[i - 1], cstack[i])
  BY RunningFacts DEF StackOK
<1>3. cstack[i].th = cstack[i - 1].th
  BY <1>2 DEF Made
<1>4. Counts(cstack[i]) = 0 /\ NoYield(cstack[i]) = 0
  BY DEF Counts, NoYield
<1>5. NC(cstack, i) = NC(cstack, i - 1) + Counts(cstack[i])
  BY <1>1, OneMore
<1>6. /\ NY(cstack, i) = NY(cstack, i - 1) + NoYield(cstack[i])
      /\ HooksOn(cstack, i) = (HooksOn(cstack, i - 1) /\ cstack[i].kind \notin {"hook", "gctm"})
  BY <1>1, <1>3, OneMoreOfThread
<1>7. NC(cstack, i - 1) \in Nat /\ NY(cstack, i - 1) \in Nat
  BY <1>1, CountsFinite
<1>8. HooksOn(cstack, i - 1) \in BOOLEAN
  BY DEF HooksOn
<1>. QED  BY <1>1, <1>3, <1>4, <1>5, <1>6, <1>7, <1>8

LEMMA ShrinkStackOK ==
  ASSUME NEW s, ThreadOK(s)
  PROVE  ThreadOK(ShrinkStack(s)) /\ Counters(ShrinkStack(s), s) /\ ShrinkStack(s).ci = s.ci
<1>1. s \in ThreadState /\ (s.big /\ Len(s.ci) > MAXFRAMES) \in BOOLEAN
  BY DEF ThreadOK
<1>2. ShrinkStack(s) \in ThreadState /\ ShrinkStack(s).ci = s.ci /\ Counters(ShrinkStack(s), s)
  BY <1>1 DEF ShrinkStack, ThreadState, Counters
<1>. QED  BY <1>2, ThreadUpdate

LEMMA CatchInPcallCounts ==
  ASSUME CountInv, FramesExist(state, cstack), CatchInPcall
  PROVE  CountInv'
<1>. DEFINE c == Catcher
            p == cstack[c]
            caller == cstack[c - 1]
            s1 == CutFrames(S, p.ci)
            s2 == [s1 EXCEPT !.allowhook = p.oah, !.nny = p.nny, !.nCcalls = p.ncc,
                             !.errfunc = p.oerr, !.armed = @ /\ caller.kind /= "host"]
            s == ShrinkStack(s2)
            t == [s EXCEPT !.allowhook = caller.oah]
<1>1. Thrown /\ p.kind = "pcall"
  BY DEF CatchInPcall
<1>2. c \in 2 .. Len(cstack) /\ c - 1 \in 1 .. Len(cstack) /\ p \in Activation /\ caller \in Activation
      /\ p.th = Running /\ Made(caller, p) /\ c \in 1 .. Len(cstack)
  BY <1>1, ThrownFacts, RunningFacts
<1>3. caller.th = Running /\ p.ncc = NC(cstack, c - 1) /\ p.nny = NY(cstack, c - 1)
      /\ p.oah = HooksOn(cstack, c - 1)
  BY <1>1, <1>2, CountsBefore, ThrownFacts DEF Saved
<1>4. p.oah \in BOOLEAN /\ p.nny \in Int /\ p.ncc \in Int /\ p.oerr \in Nat
  BY <1>1, <1>2 DEF Activation
<1>5. p.ci \in 0 .. Len(S.ci)
  BY <1>2, RunningFacts DEF FramesExist, S
<1>6. ThreadOK(s1) /\ Counters(s1, S)
  BY <1>5, CutFramesOK, RunningFacts
<1>7. s2 \in ThreadState /\ s2.ci = s1.ci /\ s2.allowhook = p.oah /\ s2.nny = p.nny /\ s2.nCcalls = p.ncc
      /\ s2.ops = S.ops /\ s2.body = S.body /\ s2.status = S.status
  <2>1. s1 \in ThreadState
    BY <1>6 DEF ThreadOK
  <2>. HIDE DEF s1, p
  <2>2. (s1.armed /\ caller.kind /= "host") \in BOOLEAN
    OBVIOUS
  <2>. QED  BY <1>4, <1>6, <2>1, <2>2 DEF ThreadState, Counters
<1>8. ThreadOK(s2)
  BY <1>6, <1>7, ThreadUpdate
<1>9. ThreadOK(s) /\ Counters(s, s2)
  BY <1>8, ShrinkStackOK
<1>10. IF caller.kind = "gctm"
       THEN /\ cstack' = SubSeq(SubSeq(cstack, 1, c - 1), 1, Len(SubSeq(cstack, 1, c - 1)) - 1)
            /\ Update(t)
            /\ mode' = IF mode = "ERRRUN" THEN "ERRGCMM" ELSE mode
       ELSE cstack' = SubSeq(cstack, 1, c - 1) /\ Update(s) /\ mode' = "run"
  BY DEF CatchInPcall
<1>. HIDE DEF s1, s2, s, p, caller
<1>11. CASE mode = "YIELD"
  (* Not so: nothing but calls that may yield is above the resume.         *)
  <2>1. S.nny = 0 /\ Top.kind \in Bodies
    BY <1>11, RunningFacts DEF InMode
  <2>2. p.kind \in Bodies \union {"call", "resume"}
    BY <1>2, <2>1, YieldableHooks DEF p
  <2>. QED  BY <1>1, <2>2 DEF Bodies
<1>12. ASSUME mode /= "YIELD" PROVE S.status = "OK" /\ mode \in ErrorStatus
  BY <1>1, <1>12, RunningFacts DEF InMode, Thrown
<1>13. CASE mode /= "YIELD" /\ caller.kind /= "gctm"
  <2>1. cstack' = SubSeq(cstack, 1, c - 1) /\ Update(s) /\ mode' = "run"
    BY <1>10, <1>13
  <2>2. InMode(s, cstack[c - 1], c - 1, mode') /\ mode' \in Modes
    BY <1>7, <1>9, <1>12, <1>13, <2>1 DEF InMode, Modes, Phases, Counters
  <2>3. s.nCcalls = NC(cstack, c - 1) /\ s.nny = NY(cstack, c - 1) /\ s.allowhook = HooksOn(cstack, c - 1)
        /\ s.ops = S.ops /\ ~s.body
    BY <1>3, <1>7, <1>9, RunningFacts DEF Counters
  <2>4. cstack[c - 1].th = Running
    BY <1>3 DEF caller
  <2>. HIDE DEF c
  <2>. QED  BY <1>2, <1>9, <2>1, <2>2, <2>3, <2>4, CutStep
<1>14. CASE mode /= "YIELD" /\ caller.kind = "gctm"
  <2>1. c - 1 \in 2 .. Len(cstack) /\ c - 1 - 1 = c - 2
    <3>1. c /= 2
      BY <1>14, RunningFacts DEF StackOK, Host, caller
    <3>. QED  BY <1>2, <3>1, RunningFacts
  <2>2. c - 2 \in 1 .. Len(cstack) /\ cstack[c - 2].th = Running
        /\ NC(cstack, c - 2) = NC(cstack, c - 1) /\ NY(cstack, c - 2) = NY(cstack, c - 1)
    BY <1>3, <1>14, <2>1, CountsBefore DEF caller
  <2>3. Saved(cstack, c - 1) /\ Made(cstack[c - 2], cstack[c - 1])
    BY <2>1, RunningFacts DEF StackOK
  <2>4. caller.oah = HooksOn(cstack, c - 2) /\ caller.oah \in BOOLEAN
    BY <1>14, <2>1, <2>3 DEF Saved, caller, HooksOn
  <2>5. cstack' = SubSeq(cstack, 1, c - 2)
    <3>1. c - 1 \in 0 .. Len(cstack) /\ c - 2 \in 0 .. Len(cstack)
      BY <1>2, <2>2
    <3>2. Len(SubSeq(cstack, 1, c - 1)) = c - 1
      BY <3>1, Cut, RunningFacts
    <3>3. SubSeq(SubSeq(cstack, 1, c - 1), 1, c - 2) = SubSeq(cstack, 1, c - 2)
      BY <2>1, <3>1, RunningFacts
    <3>. QED  BY <1>10, <1>14, <2>1, <3>2, <3>3
  <2>6. Update(t) /\ mode' \in ErrorStatus
    BY <1>10, <1>12, <1>14 DEF ErrorStatus
  <2>7. t \in ThreadState /\ t.ci = s.ci /\ t.allowhook = caller.oah /\ t.nny = s.nny /\ t.nCcalls = s.nCcalls
        /\ t.ops = s.ops /\ t.body = s.body /\ t.status = s.status
    BY <1>9, <2>4 DEF ThreadOK, ThreadState
  <2>. HIDE DEF t
  <2>8. ThreadOK(t)
    BY <1>9, <2>7, ThreadUpdate
  <2>9. cstack[c - 2].kind /= "host"
    BY <1>14, <2>3 DEF Made, Callers, Bodies, caller
  <2>10. c - 2 /= 1
    BY <2>9, RunningFacts DEF StackOK, Host
  <2>11. InMode(t, cstack[c - 2], c - 2, mode') /\ mode' \in Modes
    BY <1>7, <1>9, <1>12, <1>14, <2>6, <2>7, <2>10 DEF InMode, Modes, ErrorStatus, Counters
  <2>12. t.nCcalls = NC(cstack, c - 2) /\ t.nny = NY(cstack, c - 2) /\ t.allowhook = HooksOn(cstack, c - 2)
         /\ t.ops = S.ops /\ ~t.body
    BY <1>3, <1>7, <1>9, <2>2, <2>4, <2>7, RunningFacts DEF Counters
  <2>. HIDE DEF c
  <2>. QED  BY <2>2, <2>5, <2>6, <2>8, <2>11, <2>12, CutStep
<1>. QED  BY <1>11, <1>13, <1>14

(* The resume of a thread is its first activation: nothing is counted.     *)
LEMMA AtResume ==
  ASSUME CountInv, NEW c \in 1 .. Len(cstack), cstack[c].kind = "resume", cstack[c].th = Running
  PROVE  /\ NC(cstack, c) = cstack[c].ncc /\ NY(cstack, c) = 0 /\ HooksOn(cstack, c) = TRUE
         /\ Running \in Coroutines
<1>1. c \in Nat \ {0} /\ Saved(cstack, c)
  BY RunningFacts DEF StackOK
<1>2. cstack[c].th /= Main /\ cstack[c].ncc = NC(cstack, c)
  BY <1>1 DEF Saved
<1>3. \A j \in 1 .. c - 1 : cstack[j].th /= cstack[c].th
  <2>. SUFFICES ASSUME NEW j \in 1 .. c - 1, cstack[j].th = cstack[c].th PROVE FALSE
    OBVIOUS
  <2>1. j \in 1 .. c /\ c \in j + 1 .. c
    OBVIOUS
  <2>2. \A i \in j + 1 .. c : cstack[i].kind \notin {"host", "resume"}
    BY <2>1, Segment, RunningFacts
  <2>. QED  BY <2>1, <2>2
<1>4. NY(cstack, c) = 0 /\ HooksOn(cstack, c)
  BY <1>1, <1>2, <1>3, FirstOfThread
<1>. QED  BY <1>2, <1>4, RunningFacts DEF Threads, HooksOn

LEMMA FinishCcallOK ==
  ASSUME NEW s, ThreadOK(s), NEW i \in DOMAIN s.ci
  PROVE  ThreadOK(FinishCcall(s, i)) /\ Counters(FinishCcall(s, i), s)
<1>. DEFINE f == [s.ci[i] EXCEPT !.yp = FALSE]
            e == IF s.ci[i].yp THEN s.ci[i].oerr ELSE s.errfunc
            t == FinishCcall(s, i)
<1>1. s \in ThreadState /\ s.ci \in Seq(Frame) /\ s.ci[i] \in Frame
  BY DEF ThreadOK, ThreadState
<1>2. f \in Frame /\ ~f.yp /\ e \in Nat
  BY <1>1 DEF Frame, ThreadState
<1>3. t = [s EXCEPT !.ci = [s.ci EXCEPT ![i] = f], !.errfunc = e]
  BY <1>1 DEF FinishCcall, ThreadState
<1>. HIDE DEF f, e, t
<1>4. /\ [s.ci EXCEPT ![i] = f] \in Seq(Frame)
      /\ DOMAIN [s.ci EXCEPT ![i] = f] = DOMAIN s.ci
  BY <1>1, <1>2
<1>5. t \in ThreadState /\ t.ci = [s.ci EXCEPT ![i] = f] /\ Counters(t, s)
  BY <1>1, <1>2, <1>3, <1>4 DEF ThreadState, Counters
<1>6. \A d \in DOMAIN t.ci : t.ci[d].yp => t.ci[d].oah
  BY <1>1, <1>2, <1>4, <1>5 DEF ThreadOK
<1>. QED  BY <1>5, <1>6 DEF ThreadOK, t

(* What a thread gets back when it goes on, or when it is left.            *)
Restored(s, oah, nny, ncc) == [s EXCEPT !.allowhook = oah, !.nny = nny, !.nCcalls = ncc]
Left(s, nny, ncc) == [s EXCEPT !.nny = nny, !.nCcalls = ncc]

LEMMA RestoreOK ==
  ASSUME NEW s, ThreadOK(s), NEW oah \in BOOLEAN, NEW nny \in Int, NEW ncc \in Int
  PROVE  /\ ThreadOK(Restored(s, oah, nny, ncc)) /\ Restored(s, oah, nny, ncc).ci = s.ci
         /\ Restored(s, oah, nny, ncc).allowhook = oah /\ Restored(s, oah, nny, ncc).nny = nny
         /\ Restored(s, oah, nny, ncc).nCcalls = ncc /\ Restored(s, oah, nny, ncc).ops = s.ops
         /\ Restored(s, oah, nny, ncc).body = s.body /\ Restored(s, oah, nny, ncc).status = s.status
<1>. DEFINE t == Restored(s, oah, nny, ncc)
<1>1. /\ t \in ThreadState /\ t.ci = s.ci /\ t.allowhook = oah /\ t.nny = nny /\ t.nCcalls = ncc
      /\ t.ops = s.ops /\ t.body = s.body /\ t.status = s.status
  BY DEF ThreadOK, ThreadState, Restored
<1>. QED  BY <1>1, ThreadUpdate

LEMMA LeaveOK ==
  ASSUME NEW s \in ThreadState, NEW nny \in Int, NEW ncc \in Int
  PROVE  /\ Left(s, nny, ncc) \in ThreadState /\ Left(s, nny, ncc).ci = s.ci
         /\ Left(s, nny, ncc).nny = nny /\ Left(s, nny, ncc).status = s.status
         /\ Left(s, nny, ncc).ops = s.ops /\ Left(s, nny, ncc).body = s.body
         /\ Left(s, nny, ncc).allowhook = s.allowhook
BY DEF ThreadState, Left

LEMMA RecoverCounts ==
  ASSUME CountInv, FramesExist(state, cstack), Recover
  PROVE  CountInv'
<1>. DEFINE c == Catcher
            i == Max(RecoverPoints)
            s1 == CutFrames(S, i)
            s2 == [s1 EXCEPT !.allowhook = S.ci[i].oah, !.nny = 0, !.nCcalls = cstack[c].ncc]
            s == ShrinkStack(s2)
            t == FinishCcall(s, i)
            cs == SubSeq(cstack, 1, c)
            b == Kind("cfun", i)
            ds == Append(cs, b)
<1>1. Thrown /\ mode /= "YIELD" /\ cstack[c].kind = "resume" /\ Update(t) /\ cstack' = ds /\ mode' = "run"
      /\ RecoverPoints /= {}
  BY DEF Recover, RecoverAt
<1>2. S.status = "OK"
  BY <1>1, RunningFacts DEF InMode
<1>3. i \in 1 .. Depth /\ S.ci[i].yp
  <2>1. RecoverPoints \in SUBSET (1 .. Depth)
    BY DEF RecoverPoints
  <2>2. i \in RecoverPoints
    BY <1>1, <2>1, LargestMember, RunningFacts
  <2>. QED  BY <2>2 DEF RecoverPoints
<1>. HIDE DEF i
<1>4. S.ci[i].oah = TRUE /\ i \in 0 .. Len(S.ci) /\ i \in DOMAIN S.ci
  <2>1. i \in DOMAIN S.ci
    BY <1>3, RunningFacts DEF Depth
  <2>2. S.ci[i] \in Frame
    BY <2>1, RunningFacts
  <2>. QED  BY <1>3, <2>1, <2>2, RunningFacts DEF ThreadOK, Depth, Frame
<1>5. c \in 1 .. Len(cstack) /\ c \in 0 .. Len(cstack) /\ cstack[c].th = Running /\ cstack[c] \in Activation
      /\ cstack[c].ncc \in Int
  <2>1. c \in 1 .. Len(cstack) /\ cstack[c].th = Running /\ cstack[c] \in Activation
    BY <1>1, ThrownFacts
  <2>2. cstack[c].ncc \in Int
    BY <1>1, <2>1 DEF Activation
  <2>3. Len(cstack) \in Nat
    BY RunningFacts
  <2>. HIDE DEF c
  <2>4. c \in 0 .. Len(cstack)
    BY <2>1, <2>3
  <2>. QED  BY <2>1, <2>2, <2>4
<1>. HIDE DEF c
<1>6. NC(cstack, c) = cstack[c].ncc /\ NY(cstack, c) = 0 /\ HooksOn(cstack, c) = TRUE
  BY <1>1, <1>5, AtResume
<1>7. ThreadOK(s1) /\ Counters(s1, S) /\ s1.ci = SubSeq(S.ci, 1, i)
  BY <1>4, CutFramesOK, RunningFacts
<1>8. s2.ci = s1.ci /\ s2.allowhook = TRUE /\ s2.nny = 0 /\ s2.nCcalls = cstack[c].ncc
      /\ s2.ops = S.ops /\ s2.body = S.body /\ s2.status = S.status /\ ThreadOK(s2)
  <2>. DEFINE e == cstack[c].ncc  o == S.ci[i].oah  z == 0
  <2>1. e \in Int
    BY <1>5
  <2>2. o = TRUE
    BY <1>4
  <2>3. o \in BOOLEAN
    BY <2>2
  <2>4. z \in Int
    OBVIOUS
  <2>5. s2 = Restored(s1, o, z, e)
    BY DEF Restored
  <2>. HIDE DEF e, o, z, s1, s2
  <2>6. /\ s2.ci = s1.ci /\ s2.allowhook = o /\ s2.nny = z /\ s2.nCcalls = e
        /\ s2.ops = s1.ops /\ s2.body = s1.body /\ s2.status = s1.status /\ ThreadOK(s2)
    BY <1>7, <2>1, <2>3, <2>4, <2>5, RestoreOK
  <2>7. s2.allowhook = TRUE
    BY <2>2, <2>6
  <2>. QED  BY <1>7, <2>6, <2>7 DEF Counters, e, z
<1>9. ThreadOK(s2)
  BY <1>8
<1>10. ThreadOK(s) /\ Counters(s, s2) /\ s.ci = s2.ci
  BY <1>9, ShrinkStackOK
<1>. HIDE DEF s1, s2, s
<1>11. i \in DOMAIN s.ci
  <2>1. DOMAIN SubSeq(S.ci, 1, i) = 1 .. i
    BY <1>4, RunningFacts
  <2>. QED  BY <1>3, <1>7, <1>8, <1>10, <2>1
<1>12. ThreadOK(t) /\ Counters(t, s)
  BY <1>10, <1>11, FinishCcallOK
<1>. HIDE DEF t
<1>13. StackOK(cs) /\ Len(cs) = c /\ \A j \in 1 .. c : cs[j] = cstack[j]
  BY <1>5, StackCut, Cut, RunningFacts
<1>14. Last(cs) = cstack[c] /\ CN(cs) = cstack[c].ncc /\ CY(cs) = 0 /\ CH(cs) = TRUE
  <2>1. c \in Nat \ {0} /\ c \in 1 .. c
    BY <1>5
  <2>2. NC(cs, c) = NC(cstack, c) /\ NY(cs, c) = NY(cstack, c) /\ HooksOn(cs, c) = HooksOn(cstack, c)
    BY <1>13, <2>1, SamePrefix
  <2>. QED  BY <1>6, <1>13, <2>1, <2>2 DEF Last, CN, CY, CH
<1>15. b \in Activation /\ b.kind = "cfun" /\ b.th = Running
  BY <1>3, BodyAct, RunningFacts DEF Bodies
<1>. HIDE DEF b, cs
<1>16. Made(Last(cs), b)
  BY <1>1, <1>5, <1>14, <1>15 DEF Made, Callers, Bodies
<1>17. /\ StackOK(ds) /\ Len(ds) = Len(cs) + 1 /\ Last(ds) = b
       /\ CN(ds) = CN(cs) + Counts(b) /\ CY(ds) = CY(cs) + NoYield(b)
       /\ CH(ds) = (CH(cs) /\ b.kind \notin {"hook", "gctm"})
  BY <1>13, <1>15, <1>16, StackPush
<1>18. c <= Len(ds) /\ \A j \in 1 .. c : ds[j] = cstack[j]
  <2>1. cs \in Seq(Activation)
    BY <1>13 DEF StackOK
  <2>2. \A j \in 1 .. Len(cs) : ds[j] = cs[j]
    BY <1>15, <2>1, Pushed
  <2>. QED  BY <1>5, <1>13, <1>17, <2>2
<1>. HIDE DEF ds
<1>19. CN(ds) = cstack[c].ncc /\ CY(ds) = 0 /\ CH(ds) = TRUE
  <2>1. Counts(b) = 0 /\ NoYield(b) = 0 /\ b.kind \notin {"hook", "gctm"}
    BY <1>15 DEF Counts, NoYield
  <2>2. CN(ds) = cstack[c].ncc /\ CY(ds) = 0
    BY <1>5, <1>14, <1>17, <2>1
  <2>. QED  BY <1>14, <1>17, <2>1, <2>2
<1>20. t.nCcalls = CN(ds) /\ t.nny = CY(ds) /\ t.allowhook = CH(ds) /\ t.ops = S.ops /\ ~t.body
       /\ t.status = "OK"
  BY <1>2, <1>8, <1>10, <1>12, <1>19, RunningFacts DEF Counters
<1>21. InMode(t, Last(ds), Len(ds), mode') /\ mode' \in Modes
  BY <1>1, <1>20 DEF InMode, Modes, Phases
<1>22. CountOK([state EXCEPT ![Last(cstack).th] = t], ds, mode')
  BY <1>5, <1>12, <1>15, <1>17, <1>18, <1>20, <1>21, OwnStep, RunningFacts DEF CountInv, S
<1>23. state' = [state EXCEPT ![Last(cstack).th] = t]
  BY <1>1, RunningFacts DEF Update
<1>. QED  BY <1>1, <1>22, <1>23 DEF CountInv

(* lua_resume returns to the function that called it.                      *)
LEMMA LeaveStep ==
  ASSUME CountInv, NEW r \in 1 .. Len(cstack), cstack[r].kind = "resume", cstack[r].th = Running,
         NEW s, ThreadOK(s), s.ops = S.ops, Idle(s), Update(s),
         cstack' = SubSeq(cstack, 1, r - 1), mode' = "run"
  PROVE  CountInv'
<1>. DEFINE ds == SubSeq(cstack, 1, r - 1)
<1>1. s \in ThreadState
  BY DEF ThreadOK
<1>2. /\ state' \in [Threads -> ThreadState] /\ state'[Running] = s
      /\ \A L \in Threads : L /= Running => state'[L] = state[L]
  BY <1>1, RunningFacts DEF Update
<1>3. /\ \A L \in Threads : ThreadOK(state'[L])
      /\ \A L \in Coroutines : "hookmetamethod" \notin state'[L].ops
  BY <1>2 DEF CountInv, CountOK, Threads, S
<1>4. /\ r > 1 /\ StackOK(ds) /\ OthersOK(state', ds) /\ Len(ds) = r - 1 /\ Last(ds).kind = "cfun"
      /\ Last(ds).th /= Last(cstack).th /\ Counted(state'[Last(ds).th], ds, Len(ds))
      /\ state'[Last(ds).th].status = "OK"
  <2>1. OthersOK(state, cstack)
    BY DEF CountInv, CountOK
  <2>2. Running = Last(cstack).th /\ StackOK(cstack)
    BY RunningFacts
  <2>3. Idle(state'[Last(cstack).th]) /\ \A L \in Threads : L /= Last(cstack).th => state'[L] = state[L]
    BY <1>2, <2>2
  <2>4. cstack[r].th = Last(cstack).th
    BY <2>2
  <2>. QED  BY <2>1, <2>2, <2>3, <2>4, OthersReturn
<1>5. InMode(state'[Last(ds).th], Last(ds), Len(ds), mode') /\ mode' \in Modes
  BY <1>4 DEF InMode, Modes, Phases
<1>6. CountOK(state', ds, mode')
  BY <1>2, <1>3, <1>4, <1>5 DEF CountOK
<1>. QED  BY <1>6 DEF CountInv

LEMMA ResumeReturnsStep ==
  ASSUME CountInv, NEW r \in 1 .. Len(cstack), cstack[r].kind = "resume", cstack[r].th = Running,
         NEW s, ThreadOK(s), s.ops = S.ops, ~s.body, s.status = "YIELD" => s.allowhook,
         ResumeReturns(s, r)
  PROVE  CountInv'
<1>. DEFINE t == [s EXCEPT !.nny = cstack[r].oldnny, !.nCcalls = cstack[r].ncc - 1]
<1>1. Update(t) /\ cstack' = SubSeq(cstack, 1, r - 1) /\ mode' = "run"
  BY DEF ResumeReturns
<1>2. cstack[r].oldnny = 1 /\ cstack[r].ncc \in Int
  <2>1. Saved(cstack, r) /\ cstack[r] \in Activation
    BY RunningFacts DEF StackOK
  <2>. QED  BY <2>1 DEF Saved, Activation
<1>3. t \in ThreadState /\ t.ci = s.ci /\ t.nny = 1 /\ t.status = s.status /\ t.ops = s.ops
      /\ t.body = s.body /\ t.allowhook = s.allowhook
  <2>. DEFINE e == cstack[r].ncc - 1  o == cstack[r].oldnny
  <2>1. s \in ThreadState /\ e \in Int /\ o \in Int /\ o = 1
    BY <1>2 DEF ThreadOK
  <2>2. t = Left(s, o, e)
    BY DEF Left
  <2>. HIDE DEF e, o, t
  <2>. QED  BY <2>1, <2>2, LeaveOK, SMTT(40)
<1>. HIDE DEF t
<1>4. ThreadOK(t) /\ Idle(t)
  BY <1>3, ThreadUpdate DEF Idle
<1>. QED  BY <1>1, <1>3, <1>4, LeaveStep

LEMMA DieCounts ==
  ASSUME CountInv, Die
  PROVE  CountInv'
<1>. DEFINE s == [S EXCEPT !.status = mode]
<1>1. Thrown /\ mode /= "YIELD" /\ cstack[Catcher].kind = "resume" /\ ResumeReturns(s, Catcher)
  BY DEF Die
<1>2. mode \in ErrorStatus /\ "YIELD" \notin ErrorStatus
  BY <1>1 DEF Thrown, ErrorStatus
<1>3. s \in ThreadState /\ s.ci = S.ci /\ s.ops = S.ops /\ s.body = S.body /\ s.status = mode
  BY <1>2, RunningFacts DEF ThreadState
<1>. HIDE DEF s
<1>4. ThreadOK(s)
  BY <1>3, ThreadUpdate, RunningFacts
<1>5. Catcher \in 1 .. Len(cstack) /\ cstack[Catcher].th = Running
  BY <1>1, ThrownFacts
<1>. QED  BY <1>1, <1>2, <1>3, <1>4, <1>5, ResumeReturnsStep, RunningFacts

LEMMA SuspendCounts ==
  ASSUME CountInv, Suspend
  PROVE  CountInv'
<1>1. Thrown /\ mode = "YIELD" /\ cstack[Catcher].kind = "resume" /\ ResumeReturns(S, Catcher)
  BY DEF Suspend, Thrown
<1>2. S.nny = 0 /\ Top.kind \in Bodies
  BY <1>1, RunningFacts DEF InMode
<1>3. S.allowhook = TRUE
  BY <1>2, YieldableHooks
<1>4. Catcher \in 1 .. Len(cstack) /\ cstack[Catcher].th = Running
  BY <1>1, ThrownFacts
<1>. QED  BY <1>1, <1>3, <1>4, ResumeReturnsStep, RunningFacts

LEMMA FinishCounts ==
  ASSUME CountInv, Finish
  PROVE  CountInv'
<1>1. mode = "run" /\ Top.kind = "resume" /\ ResumeReturns(S, Len(cstack))
  BY DEF Finish, Body
<1>2. S.status = "OK"
  BY <1>1, RunMode
<1>3. Len(cstack) \in 1 .. Len(cstack) /\ cstack[Len(cstack)].kind = "resume" /\ cstack[Len(cstack)].th = Running
  BY <1>1, RunningFacts
<1>. QED  BY <1>1, <1>2, <1>3, ResumeReturnsStep, RunningFacts

(* unroll: an activation of a suspended frame, after that of the resume.   *)
LEMMA UnrollCounts ==
  ASSUME CountInv, FramesExist(state, cstack), Unroll
  PROVE  CountInv'
<1>1. mode = "run" /\ Top.kind = "resume" /\ mode' = mode /\ Depth \in DOMAIN S.ci /\ Depth \in Nat
  BY RunningFacts, RunningFrames DEF Unroll, Body, Depth
<1>2. S.status = "OK"
  BY <1>1, RunMode
<1>3. \E kind \in Bodies : \E t : /\ cstack' = Append(cstack, Kind(kind, Depth)) /\ Update(t)
                                /\ ThreadOK(t) /\ Counters(t, S)
  <2>1. CASE IsLua
    <3>. DEFINE f == [CurrentCI EXCEPT !.fresh = TRUE]  t == [S EXCEPT !.ci[Depth].fresh = TRUE]
    <3>1. f \in Frame /\ (f.yp => f.oah)
      BY RunningFrames DEF Frame
    <3>2. t = SetFrame(S, f)
      BY RunningFacts DEF SetFrame, CurrentCI, Depth, ThreadState
    <3>. HIDE DEF f, t
    <3>3. ThreadOK(SetFrame(S, f)) /\ Counters(SetFrame(S, f), S)
      BY <1>1, <3>1, SetFrameOK, RunningFacts DEF Depth
    <3>4. ThreadOK(t) /\ Counters(t, S)
      BY <3>2, <3>3
    <3>5. cstack' = Append(cstack, Kind("exec", Depth)) /\ Update(t)
      BY <2>1 DEF Unroll, t
    <3>. QED  BY <3>4, <3>5 DEF Bodies
  <2>2. CASE ~IsLua
    <3>1. cstack' = Append(cstack, Kind("cfun", Depth)) /\ Update(FinishCcall(S, Depth))
      BY <2>2 DEF Unroll
    <3>2. ThreadOK(FinishCcall(S, Depth)) /\ Counters(FinishCcall(S, Depth), S)
      BY <1>1, FinishCcallOK, RunningFacts
    <3>. QED  BY <3>1, <3>2 DEF Bodies
  <2>. QED  BY <2>1, <2>2
<1>3a. PICK kind \in Bodies : \E t : /\ cstack' = Append(cstack, Kind(kind, Depth)) /\ Update(t)
                                  /\ ThreadOK(t) /\ Counters(t, S)
  BY <1>3
<1>3b. PICK t : cstack' = Append(cstack, Kind(kind, Depth)) /\ Update(t) /\ ThreadOK(t) /\ Counters(t, S)
  BY <1>3a
<1>. DEFINE b == Kind(kind, Depth)  ds == Append(cstack, b)
<1>4. b \in Activation /\ b.kind \in Bodies /\ b.th = Running
  BY <1>1, BodyAct
<1>. HIDE DEF b
<1>5. Made(Last(cstack), b)
  BY <1>1, <1>4, RunningFacts DEF Made, Callers, Bodies
<1>6. /\ StackOK(ds) /\ Extends(ds, cstack) /\ Last(ds).th = Running /\ Last(ds) = b
      /\ Len(ds) = Len(cstack) + 1
      /\ CN(ds) = CN(cstack) + Counts(b) /\ CY(ds) = CY(cstack) + NoYield(b)
      /\ CH(ds) = (CH(cstack) /\ b.kind \notin {"hook", "gctm"})
  BY <1>4, <1>5, PushOne, RunningFacts DEF Bodies
<1>7. cstack' = ds
  BY <1>3b DEF b
<1>. HIDE DEF ds
<1>8. Counts(b) = 0 /\ NoYield(b) = 0 /\ b.kind \notin {"hook", "gctm"}
  BY <1>4 DEF Counts, NoYield, Bodies
<1>9. t.nCcalls = CN(ds) /\ t.nny = CY(ds) /\ t.ops = S.ops /\ ~t.body /\ t.status = "OK"
  BY <1>2, <1>3b, <1>6, <1>8, RunningFacts DEF Counters
<1>10. t.allowhook = CH(ds)
  BY <1>3b, <1>6, <1>8, RunningFacts DEF Counters
<1>11. InMode(t, Last(ds), Len(ds), mode') /\ mode' \in Modes
  BY <1>1, <1>9 DEF InMode, Modes, Phases
<1>. QED  BY <1>3b, <1>6, <1>7, <1>9, <1>10, <1>11, PushStep

(* lua_resume: the thread L runs, from its resume on.                      *)
LEMMA ResumeStep ==
  ASSUME CountInv, Top.kind = "cfun", mode = "run", NEW L \in Coroutines, ~Runs(cstack, L), L /= Running,
         NEW t, ThreadOK(t), t.ops = state[L].ops, ~t.body, t.nCcalls = S.nCcalls + 1, t.nny = 0,
         t.allowhook = TRUE, t.status = "OK", state' = [state EXCEPT ![L] = t],
         NEW a \in Activation, a.kind = "resume", a.th = L, a.ncc = S.nCcalls + 1, a.oldnny = 1,
         \/ cstack' = Append(cstack, a) /\ mode' \in {"run", "precall", "ret"}
         \/ \E b \in Activation : /\ b.kind \in Bodies /\ b.th = L
                                  /\ cstack' = Append(Append(cstack, a), b) /\ mode' = "run"
  PROVE  CountInv'
<1>. DEFINE cs == Append(cstack, a)
<1>1. t \in ThreadState /\ L \in Threads /\ S.status = "OK"
  BY RunMode DEF ThreadOK, Threads
<1>2. /\ state' \in [Threads -> ThreadState] /\ state'[L] = t
      /\ \A K \in Threads : K /= L => state'[K] = state[K]
  BY <1>1, RunningFacts
<1>3. /\ \A K \in Threads : ThreadOK(state'[K])
      /\ \A K \in Coroutines : "hookmetamethod" \notin state'[K].ops
  BY <1>2 DEF CountInv, CountOK, Threads
<1>4. /\ StackOK(cs) /\ Len(cs) = Len(cstack) + 1 /\ Last(cs) = a
      /\ CN(cs) = CN(cstack) + 1 /\ CY(cs) = 0 /\ CH(cs) = TRUE
  BY StackResume, RunningFacts
<1>5. \A j \in 1 .. Len(cstack) : cs[j] = cstack[j]
  BY Pushed, RunningFacts
<1>. HIDE DEF cs
<1>6. OthersOK(state', cs)
  <2>1. Counted(state[Last(cstack).th], cstack, Len(cstack)) /\ state[Last(cstack).th].status = "OK"
        /\ OthersOK(state, cstack)
    BY <1>1, RunningFacts DEF CountInv, CountOK, S
  <2>. QED  BY <1>2, <1>4, <1>5, <2>1, OthersResume, RunningFacts, ZenonT(60)
<1>7. CASE cstack' = Append(cstack, a) /\ mode' \in {"run", "precall", "ret"}
  <2>1. Counted(state'[Last(cs).th], cs, Len(cs))
    BY <1>2, <1>4, RunningFacts, ZenonT(60) DEF Counted, CN, CY, CH
  <2>2. InMode(state'[Last(cs).th], Last(cs), Len(cs), mode') /\ mode' \in Modes
    BY <1>2, <1>4, <1>7, RunningFacts DEF InMode, Modes, Phases
  <2>3. CountOK(state', cs, mode')
    BY <1>2, <1>3, <1>4, <1>6, <2>1, <2>2 DEF CountOK
  <2>. QED  BY <1>7, <2>3 DEF CountInv, cs
<1>8. CASE \E b \in Activation : /\ b.kind \in Bodies /\ b.th = L
                                 /\ cstack' = Append(Append(cstack, a), b) /\ mode' = "run"
  <2>1. PICK b \in Activation : /\ b.kind \in Bodies /\ b.th = L
                                /\ cstack' = Append(Append(cstack, a), b) /\ mode' = "run"
    BY <1>8
  <2>. DEFINE ds == Append(cs, b)
  <2>2. Made(Last(cs), b) /\ b.kind \notin {"resume", "pcall", "gctm", "hook"}
    BY <1>4, <2>1 DEF Made, Callers, Bodies
  <2>3. /\ StackOK(ds) /\ Len(ds) = Len(cs) + 1 /\ Last(ds) = b
        /\ CN(ds) = CN(cs) + Counts(b) /\ CY(ds) = CY(cs) + NoYield(b)
        /\ CH(ds) = (CH(cs) /\ b.kind \notin {"hook", "gctm"})
    BY <1>4, <2>2, StackPush
  <2>4. cs \in Seq(Activation) /\ Len(cs) \in 1 .. Len(cs) /\ cs[Len(cs)] = Last(cs) /\ Len(cs) \in Nat
    BY <1>4, RunningFacts DEF StackOK, Last
  <2>5. Len(cs) <= Len(ds) /\ \A j \in 1 .. Len(cs) : ds[j] = cs[j]
    BY <2>3, <2>4, Pushed
  <2>. HIDE DEF ds
  <2>6. OthersOK(state', ds)
    <3>1. Last(ds).th = Last(cs).th
      BY <1>4, <2>1, <2>3
    <3>. QED  BY <1>4, <1>6, <2>3, <2>4, <2>5, <3>1, OthersStay
  <2>7. Counts(b) = 0 /\ NoYield(b) = 0 /\ b.kind \notin {"hook", "gctm"}
    BY <2>1 DEF Counts, NoYield, Bodies
  <2>8. CN(ds) = CN(cstack) + 1 /\ CY(ds) = 0
    BY <1>4, <2>3, <2>7, RunningFacts
  <2>9. CH(ds) = TRUE
    BY <1>4, <2>3, <2>7
  <2>10. Counted(state'[Last(ds).th], ds, Len(ds))
    BY <1>2, <2>1, <2>3, <2>8, <2>9, RunningFacts, ZenonT(60) DEF Counted, CN, CY, CH
  <2>11. InMode(state'[Last(ds).th], Last(ds), Len(ds), mode') /\ mode' \in Modes
    BY <1>2, <2>1, <2>3 DEF InMode, Modes, Phases
  <2>12. CountOK(state', ds, mode')
    BY <1>2, <1>3, <2>3, <2>6, <2>10, <2>11 DEF CountOK
  <2>. QED  BY <2>1, <2>12 DEF CountInv, ds, cs
<1>. QED  BY <1>7, <1>8

LEMMA FreshOK ==
  ASSUME NEW s, ThreadOK(s), NEW i
  PROVE  ThreadOK([s EXCEPT !.ci[i].fresh = TRUE]) /\ Counters([s EXCEPT !.ci[i].fresh = TRUE], s)
<1>. DEFINE c == [s.ci EXCEPT ![i] = [s.ci[i] EXCEPT !.fresh = TRUE]]  t == [s EXCEPT !.ci = c]
<1>1. s \in ThreadState /\ s.ci \in Seq(Frame) /\ Len(s.ci) \in Nat
  BY DEF ThreadOK, ThreadState
<1>2. ASSUME NEW d \in DOMAIN s.ci
      PROVE  c[d] \in Frame /\ c[d].yp = s.ci[d].yp /\ c[d].oah = s.ci[d].oah
  <2>1. s.ci[d] \in Frame
    BY <1>1
  <2>. QED  BY <2>1 DEF Frame
<1>3. DOMAIN c = DOMAIN s.ci
  OBVIOUS
<1>4. c \in Seq(Frame)
  <2>. HIDE DEF c
  <2>1. c \in [1 .. Len(s.ci) -> Frame]
    <3>1. c = [d \in DOMAIN s.ci |-> c[d]]
      BY DEF c
    <3>. QED  BY <1>1, <1>2, <1>3, <3>1
  <2>. QED  BY <1>1, <2>1
<1>. HIDE DEF c
<1>5. t \in ThreadState /\ t.ci = c /\ Counters(t, s)
  BY <1>1, <1>4 DEF ThreadState, Counters
<1>6. ThreadOK(t)
  BY <1>2, <1>3, <1>5 DEF ThreadOK
<1>7. t = [s EXCEPT !.ci[i].fresh = TRUE]
  BY <1>1 DEF c, ThreadState
<1>. QED  BY <1>5, <1>6, <1>7

(* The new state of a thread that lua_resume takes, and of one that it     *)
(* refuses at the limit of C calls.                                        *)
Resumed(l, n) == [l EXCEPT !.nCcalls = n, !.nny = 0, !.status = "OK", !.body = FALSE]
Refused(l, n) == [l EXCEPT !.nCcalls = n]

LEMMA ResumedFields ==
  ASSUME NEW l \in ThreadState, NEW n \in Int
  PROVE  /\ Resumed(l, n) \in ThreadState /\ Resumed(l, n).ci = l.ci /\ Resumed(l, n).ops = l.ops
         /\ ~Resumed(l, n).body /\ Resumed(l, n).nCcalls = n /\ Resumed(l, n).nny = 0
         /\ Resumed(l, n).status = "OK" /\ Resumed(l, n).allowhook = l.allowhook
<1>. DEFINE z == 0  t == [l EXCEPT !.nCcalls = n, !.nny = z, !.status = "OK", !.body = FALSE]
<1>1. z \in Int
  OBVIOUS
<1>2. t = Resumed(l, n)
  BY DEF Resumed
<1>. HIDE DEF z
<1>3. t \in ThreadState
  BY <1>1 DEF ThreadState
<1>4. t.ci = l.ci /\ t.ops = l.ops /\ t.nCcalls = n /\ t.nny = z /\ t.status = "OK"
  BY DEF ThreadState
<1>5. ~t.body
  BY DEF ThreadState
<1>6. t.allowhook = l.allowhook
  BY DEF ThreadState
<1>. HIDE DEF t
<1>. QED  BY <1>2, <1>3, <1>4, <1>5, <1>6 DEF z

LEMMA ResumedOK ==
  ASSUME NEW l, ThreadOK(l), Idle(l), l.status = "YIELD" \/ l.body, NEW n \in Int
  PROVE  /\ ThreadOK(Resumed(l, n)) /\ Resumed(l, n).ops = l.ops /\ ~Resumed(l, n).body
         /\ Resumed(l, n).nCcalls = n /\ Resumed(l, n).nny = 0 /\ Resumed(l, n).allowhook = TRUE
         /\ Resumed(l, n).status = "OK" /\ Resumed(l, n).ci = l.ci
<1>. DEFINE t == Resumed(l, n)
<1>0. l \in ThreadState
  BY DEF ThreadOK
<1>1. l.allowhook = TRUE
  BY <1>0 DEF Idle, ThreadState
<1>. QED  BY <1>0, <1>1, ResumedFields, ThreadUpdate

LEMMA RefusedOK ==
  ASSUME NEW l, ThreadOK(l), Idle(l), NEW n \in Int
  PROVE  ThreadOK(Refused(l, n)) /\ Refused(l, n).ops = l.ops /\ Idle(Refused(l, n))
         /\ Refused(l, n).ci = l.ci /\ Refused(l, n).status = l.status
<1>. DEFINE t == Refused(l, n)
<1>1. l \in ThreadState
  BY DEF ThreadOK
<1>2. t \in ThreadState /\ t.ci = l.ci /\ t.ops = l.ops /\ t.body = l.body /\ t.nny = l.nny /\ t.status = l.status
  BY <1>1, SMTT(40) DEF ThreadState, Refused
<1>3. t.allowhook = l.allowhook
  BY <1>1 DEF ThreadState, Refused
<1>4. ThreadOK(t)
  BY <1>2, ThreadUpdate
<1>. QED  BY <1>2, <1>3, <1>4 DEF Idle

LEMMA ResumeCounts ==
  ASSUME CountInv, NEW L \in Coroutines, Resume(L)
  PROVE  CountInv'
<1>. DEFINE n == S.nCcalls + 1
            l == state[L]
            s == Resumed(l, n)
            act == [kind |-> "resume", th |-> L, ci |-> 1, oldnny |-> l.nny, ncc |-> n]
            k == Len(l.ci)
            f == l.ci[k]
            body(kind) == [kind |-> kind, th |-> L, ci |-> k]
            Go(t, acts, m) == state' = [state EXCEPT ![L] = t] /\ cstack' = cstack \o acts /\ mode' = m
<1>1. mode = "run" /\ Top.kind = "cfun" /\ L /= Running
  BY DEF Resume, Body
<1>2. l.status = "YIELD" \/ (l.status = "OK" /\ l.body)
  BY SMTT(40) DEF Resume
<1>3. \/ /\ state' = [state EXCEPT ![L] = Refused(l, n)] /\ UNCHANGED <<cstack, mode>>
      \/ Go(s, <<act>>, "precall")
      \/ Go([s EXCEPT !.ci[k].fresh = TRUE], <<act, body("exec")>>, "run")
      \/ Go(s, <<act, body("cfun")>>, "run")
      \/ Go(s, <<act>>, "ret")
  BY DEF Resume, Resumed, Refused
<1>4. ~Runs(cstack, L)
  BY <1>1, <1>2, NotActive
<1>5. L \in Threads /\ ThreadOK(l) /\ Idle(l) /\ n \in Int /\ k \in Nat /\ l.nny = 1
  <2>1. L \in Threads /\ ThreadOK(l) /\ Idle(l)
    BY <1>4 DEF CountInv, CountOK, OthersOK, Threads
  <2>2. S.nCcalls \in Int
    BY RunningFacts DEF ThreadState
  <2>. QED  BY <2>1, <2>2 DEF ThreadOK, ThreadState, Idle
<1>6. ThreadOK(s) /\ s.ops = l.ops /\ ~s.body /\ s.nCcalls = n /\ s.nny = 0 /\ s.allowhook = TRUE /\ s.status = "OK"
  BY <1>2, <1>5, ResumedOK, ZenonT(60)
<1>7. act \in Activation /\ act.kind = "resume" /\ act.th = L /\ act.ncc = n /\ act.oldnny = 1
  BY <1>5 DEF Activation
<1>8. ASSUME NEW kind \in Bodies PROVE body(kind) \in Activation /\ body(kind).kind = kind /\ body(kind).th = L
  BY <1>5, <1>8 DEF Activation, Bodies
<1>9. cstack \o <<act>> = Append(cstack, act)
  BY <1>7, RunningFacts
<1>10. \A kind \in Bodies : cstack \o <<act, body(kind)>> = Append(Append(cstack, act), body(kind))
  <2>1. ASSUME NEW b \in Activation PROVE cstack \o <<act, b>> = Append(Append(cstack, act), b)
    BY <1>7, RunningFacts, Push2
  <2>. QED  BY <1>8, <2>1
<1>11. CASE state' = [state EXCEPT ![L] = Refused(l, n)] /\ UNCHANGED <<cstack, mode>>
  <2>1. ThreadOK(Refused(l, n)) /\ Refused(l, n).ops = l.ops /\ Idle(Refused(l, n))
    BY <1>5, RefusedOK
  <2>. HIDE DEF n, l
  <2>. QED  BY <1>4, <1>11, <2>1, IdleStep DEF l
<1>12. CASE \E m \in {"precall", "ret"} : Go(s, <<act>>, m)
  <2>1. PICK m \in {"precall", "ret"} : Go(s, <<act>>, m)
    BY <1>12
  <2>2. cstack' = Append(cstack, act) /\ mode' \in {"run", "precall", "ret"} /\ state' = [state EXCEPT ![L] = s]
    BY <1>9, <2>1
  <2>. HIDE DEF s, act, l
  <2>. QED  BY <1>1, <1>4, <1>6, <1>7, <2>2, ResumeStep DEF n, l
<1>13. CASE Go(s, <<act, body("cfun")>>, "run")
  <2>1. cstack' = Append(Append(cstack, act), body("cfun")) /\ mode' = "run" /\ state' = [state EXCEPT ![L] = s]
    BY <1>10, <1>13 DEF Bodies
  <2>2. \E b \in Activation : /\ b.kind \in Bodies /\ b.th = L
                              /\ cstack' = Append(Append(cstack, act), b) /\ mode' = "run"
    BY <1>8, <2>1 DEF Bodies
  <2>. HIDE DEF s, act, l
  <2>. QED  BY <1>1, <1>4, <1>6, <1>7, <2>1, <2>2, ResumeStep DEF n, l
<1>14. CASE Go([s EXCEPT !.ci[k].fresh = TRUE], <<act, body("exec")>>, "run")
  <2>. DEFINE t == [s EXCEPT !.ci[k].fresh = TRUE]
  <2>1. cstack' = Append(Append(cstack, act), body("exec")) /\ mode' = "run" /\ state' = [state EXCEPT ![L] = t]
    BY <1>10, <1>14 DEF Bodies
  <2>2. \E b \in Activation : /\ b.kind \in Bodies /\ b.th = L
                              /\ cstack' = Append(Append(cstack, act), b) /\ mode' = "run"
    BY <1>8, <2>1 DEF Bodies
  <2>. HIDE DEF s, l, k
  <2>3. ThreadOK(t) /\ Counters(t, s)
    BY <1>6, FreshOK
  <2>. HIDE DEF t, act
  <2>4. t.ops = l.ops /\ ~t.body /\ t.nCcalls = n /\ t.nny = 0 /\ t.status = "OK"
    BY <1>6, <2>3 DEF Counters
  <2>5. t.allowhook = TRUE
    BY <1>6, <2>3 DEF Counters
  <2>. QED  BY <1>1, <1>4, <1>7, <2>1, <2>2, <2>3, <2>4, <2>5, ResumeStep DEF n, l
<1>. QED  BY <1>3, <1>11, <1>12, <1>13, <1>14

LEMMA CreateCounts ==
  ASSUME CountInv, NEW L \in Coroutines, Create(L)
  PROVE  CountInv'
<1>. DEFINE s == NewThread(L, S.hook, state[L].ops)
<1>1. state' = [state EXCEPT ![L] = s] /\ UNCHANGED <<cstack, mode>>
  BY DEF Create
<1>2. ~Runs(cstack, L)
  BY RunningFacts DEF Create, Runs
<1>3. L \in Threads /\ state[L] \in ThreadState /\ S \in ThreadState
  BY RunningFacts DEF Threads
<1>4. ThreadOK(s) /\ s.ops = state[L].ops /\ Idle(s)
  <2>1. S.hook \in Hooks /\ state[L].ops \in SUBSET Operations
    BY <1>3 DEF ThreadState
  <2>2. L /= Main
    BY ThreadsAssumption
  <2>. QED  BY <2>1, <2>2 DEF NewThread, NewFrame, Frame, ThreadOK, ThreadState, Idle, Hooks
<1>. HIDE DEF s
<1>. QED  BY <1>1, <1>2, <1>4, IdleStep

-----------------------------------------------------------------------------
LEMMA NewMainThread ==
  ASSUME NEW L, NEW hook, NEW ops
  PROVE  L = Main => ~NewThread(L, hook, ops).body
BY DEF NewThread

LEMMA InitCounts ==
  ASSUME HooksAvoidMetamethods, Init
  PROVE  CountInv
<1>. DEFINE s(L, p) == NewThread(L, "none", p[L])
<1>1. PICK p \in Programs : state = [L \in Threads |-> s(L, p)]
  BY DEF Init
<1>2. cstack = <<Host>> /\ mode = "run"
  BY DEF Init
<1>3. ASSUME NEW L \in Threads
      PROVE  /\ ThreadOK(state[L]) /\ state[L].ops = p[L] /\ state[L].status = "OK"
             /\ state[L].nny = 1 /\ state[L].nCcalls = 0 /\ state[L].allowhook = TRUE
             /\ (L \in Coroutines => Idle(state[L])) /\ (L = Main => ~state[L].body)
  <2>1. p[L] \in SUBSET Operations
    BY ProgramsAssumption
  <2>2. state[L] = s(L, p)
    BY <1>1
  <2>3. ThreadOK(state[L])
    BY <2>1, <2>2 DEF NewThread, NewFrame, Frame, ThreadOK, ThreadState, Hooks
  <2>4. state[L].ops = p[L] /\ state[L].status = "OK" /\ state[L].nny = 1 /\ state[L].nCcalls = 0
    BY <2>2 DEF NewThread
  <2>6. L = Main => ~state[L].body
    BY <2>2, NewMainThread
  <2>5. state[L].allowhook = TRUE
    BY <2>2 DEF NewThread
  <2>. QED  BY <2>3, <2>4, <2>5, <2>6 DEF Idle
<1>4. state \in [Threads -> ThreadState]
  BY <1>1, <1>3 DEF ThreadOK
<1>5. \A L \in Coroutines : "hookmetamethod" \notin state[L].ops
  BY <1>3 DEF HooksAvoidMetamethods, Threads
<1>6. Host \in Activation /\ Host.kind = "host" /\ Host.th = Main /\ Main \in Threads
  BY DEF Host, Activation, Threads
<1>7. cstack \in Seq(Activation) /\ Len(cstack) = 1 /\ cstack[1] = Host /\ Last(cstack) = Host
  BY <1>2, <1>6 DEF Last
<1>8. CCalls(cstack, 1) = {} /\ NoYields(cstack, 1) = {} /\ HooksOn(cstack, 1) = TRUE
  BY <1>6, <1>7 DEF CCalls, NoYields, HooksOn
<1>9. NC(cstack, 1) = 0 /\ NY(cstack, 1) = 1
  <2>1. Cardinality({}) = 0
    BY FS_EmptySet
  <2>2. NC(cstack, 1) = 0
    BY <1>8, <2>1 DEF NC
  <2>3. cstack[1].th = Main
    BY <1>6, <1>7
  <2>. QED  BY <1>8, <2>1, <2>2, <2>3 DEF NY
<1>10. StackOK(cstack)
  <2>1. Saved(cstack, 1) /\ Together(cstack, 1) /\ Yieldable(cstack, 1)
    BY <1>6, <1>7 DEF Saved, Together, Yieldable, Bodies
  <2>. QED  BY <1>7, <2>1 DEF StackOK
<1>11. OthersOK(state, cstack)
  <2>1. 1 .. Len(cstack) - 1 = {}
    BY <1>7
  <2>2. \A L \in Coroutines : Idle(state[L])
    BY <1>3 DEF Threads
  <2>. QED  BY <2>1, <2>2 DEF OthersOK
<1>12. Counted(state[Main], cstack, 1)
  BY <1>3, <1>6, <1>8, <1>9 DEF Counted
<1>13. InMode(state[Main], Host, 1, mode) /\ mode \in Modes
  BY <1>2, <1>3, <1>6 DEF InMode, Modes, Phases
<1>. QED  BY <1>3, <1>4, <1>5, <1>6, <1>7, <1>10, <1>11, <1>12, <1>13 DEF CountInv, CountOK

LEMMA ApiCounts ==
  ASSUME CountInv, FramesExist(state, cstack), ApiCall
  PROVE  CountInv'
<1>1. CASE \E k \in BOOLEAN : CallK(k)
  BY <1>1, CallKCounts
<1>2. CASE \E k \in BOOLEAN : Yield(k)
  BY <1>2, YieldCounts
<1>3. CASE \E k \in BOOLEAN : \E ef \in Nat \cap {0, Depth} : PcallK(k, ef)
  BY <1>3, PcallKCounts
<1>4. CASE \E L \in Coroutines : Resume(L)
  BY <1>4, ResumeCounts
<1>5. CASE \E L \in Coroutines : Create(L)
  BY <1>5, CreateCounts
<1>6. CASE \E h \in {"none", "user"} : SetHook(h)
  BY <1>6, SetHookCounts
<1>7. CASE Load
  BY <1>7, LoadCounts
<1>8. CASE ApiMetamethod
  BY <1>8, ApiMetamethodCounts
<1>. QED  BY <1>1, <1>2, <1>3, <1>4, <1>5, <1>6, <1>7, <1>8 DEF ApiCall

(* The first layer is kept by every step.                                  *)
LEMMA CountsInductive ==
  ASSUME CountInv, FramesExist(state, cstack), [Next]_vars
  PROVE  CountInv'
<1>1. CASE UNCHANGED vars
  BY <1>1 DEF vars, CountInv
<1>2. CASE ApiCall
  BY <1>2, ApiCounts
<1>3. CASE OpCall \/ Return \/ Error \/ HandlerDone
  BY <1>3, ModeCounts
<1>4. CASE Metamethod
  BY <1>4, MetamethodCounts
<1>5. CASE Precall \/ PrecallFails
  BY <1>5, PrecallCounts, PrecallFailsCounts
<1>6. CASE ReturnHook \/ Poscall
  BY <1>6, ReturnHookCounts, PoscallCounts
<1>7. CASE CallDone \/ PcallDone
  BY <1>7, CallDoneCounts, PcallDoneCounts
<1>8. CASE CallFinalizer \/ FinalizerDone
  BY <1>8, CallFinalizerCounts, FinalizerDoneCounts
<1>9. CASE Reader \/ EnterLevel \/ LeaveLevel
  BY <1>9, ReaderCounts, EnterLevelCounts, LeaveLevelCounts
<1>10. CASE ParserEnds \/ LoadDone
  BY <1>10, ParserEndsCounts, LoadDoneCounts
<1>11. CASE ErrorMsg \/ CatchInPcall
  BY <1>11, ErrorMsgCounts, CatchInPcallCounts
<1>12. CASE Recover \/ Die
  BY <1>12, RecoverCounts, DieCounts
<1>13. CASE YieldInHook \/ Suspend
  BY <1>13, YieldInHookCounts, SuspendCounts
<1>14. CASE Unroll \/ Finish
  BY <1>14, UnrollCounts, FinishCounts
<1>15. CASE CountHook \/ Lstop \/ HookDone \/ Signal
  BY <1>15, CountHookCounts, LstopCounts, HookDoneCounts, SignalCounts
<1>. QED
  BY <1>1, <1>2, <1>3, <1>4, <1>5, <1>6, <1>7, <1>8, <1>9, <1>10, <1>11, <1>12, <1>13, <1>14, <1>15 DEF Next
-----------------------------------------------------------------------------
(* The frames when the C stack and the frames of a thread change.          *)

(* Two threads with the same kinds of frames up to the m-th one.           *)
Alike(c, d, m) ==
  \A x \in 1 .. m : /\ x \in LuaFrames(c) <=> x \in LuaFrames(d)
                    /\ x \in FreshFrames(c) <=> x \in FreshFrames(d)

(* The activation a where the thread has the frames 'ci', e of them when   *)
(* it goes on.                                                             *)
Place(a, ci, e) ==
  /\ a.kind \notin {"exec", "resume"} => e = a.ci
  /\ a.kind = "cfun" => a.ci \notin LuaFrames(ci)
  /\ a.kind = "exec" =>
       a.ci .. e \subseteq LuaFrames(ci) /\ (a.ci .. e) \intersect FreshFrames(ci) = {a.ci}

LEMMA AtPlace ==
  ASSUME NEW st, NEW cs, NEW i
  PROVE  AtFrame(st, cs, i) <=> Place(cs[i], Ci(st, cs, i), Extent(st, cs, i))
BY DEF AtFrame, Place

LEMMA PlaceAlike ==
  ASSUME NEW a \in Activation, a.ci > 0, NEW c, NEW d, NEW e \in Int, NEW m \in Int, a.ci <= m, e <= m,
         Alike(c, d, m), Place(a, c, e)
  PROVE  Place(a, d, e)
<1>1. a.ci \in 1 .. m
  BY ActivationKind
<1>2. a.kind = "cfun" => a.ci \notin LuaFrames(d)
  BY <1>1 DEF Place, Alike
<1>3. a.kind = "exec" =>
        a.ci .. e \subseteq LuaFrames(d) /\ (a.ci .. e) \intersect FreshFrames(d) = {a.ci}
  <2>1. a.ci .. e \subseteq 1 .. m
    BY <1>1
  <2>. QED  BY <2>1 DEF Place, Alike
<1>. QED  BY <1>2, <1>3 DEF Place

LEMMA PlaceShorter ==
  ASSUME NEW a \in Activation, NEW c, NEW e \in Int, NEW f \in Int, a.ci <= f, f <= e,
         a.kind \in {"exec", "resume"}, Place(a, c, e)
  PROVE  Place(a, c, f)
<1>1. a.ci \in Nat
  BY ActivationKind
<1>. QED  BY <1>1 DEF Place

(* The next activation of the same thread is where this one goes on.       *)
LEMMA NextExtent ==
  ASSUME NEW st, NEW cs, NEW i, i /= Len(cs), cs[i + 1].kind /= "resume"
  PROVE  Extent(st, cs, i) = (IF cs[i + 1].kind \in Bodies THEN cs[i + 1].ci - 1 ELSE cs[i + 1].ci)
BY DEF Extent, LastOne

LEMMA LastExtent ==
  ASSUME NEW st, NEW cs, NEW i, i = Len(cs) \/ cs[i + 1].kind = "resume"
  PROVE  Extent(st, cs, i) = Len(Ci(st, cs, i))
BY DEF Extent, LastOne

LEMMA FrameFacts ==
  ASSUME NEW st \in [Threads -> ThreadState], NEW cs, StackOK(cs), FramesOK(st, cs), NEW i \in 1 .. Len(cs)
  PROVE  /\ cs[i] \in Activation /\ cs[i].th \in Threads /\ cs[i].ci \in Nat \ {0}
         /\ Len(Ci(st, cs, i)) \in Nat /\ cs[i].ci <= Len(Ci(st, cs, i))
         /\ InOrder(cs, i) /\ Place(cs[i], Ci(st, cs, i), Extent(st, cs, i)) /\ Extent(st, cs, i) \in Int
         /\ Len(cs) \in Nat \ {0}
<1>1. cs[i] \in Activation /\ Len(cs) \in Nat \ {0}
  BY DEF StackOK
<1>2. cs[i].th \in Threads
  BY <1>1, ActivationKind
<1>3. cs[i].ci \in 1 .. Len(Ci(st, cs, i))
  BY DEF FramesOK, FramesExist, Ci
<1>4. Len(Ci(st, cs, i)) \in Nat
  BY <1>2 DEF ThreadState, Ci
<1>5. InOrder(cs, i) /\ Place(cs[i], Ci(st, cs, i), Extent(st, cs, i))
  BY AtPlace DEF FramesOK
<1>6. Extent(st, cs, i) \in Int
  <2>1. CASE LastOne(cs, i)
    BY <1>4, <2>1, LastExtent DEF LastOne
  <2>2. CASE ~LastOne(cs, i)
    <3>1. i + 1 \in 1 .. Len(cs)
      BY <1>1, <2>2 DEF LastOne
    <3>2. cs[i + 1] \in Activation
      BY <3>1 DEF StackOK
    <3>3. cs[i + 1].ci \in Nat
      BY <3>2, ActivationKind
    <3>4. i /= Len(cs) /\ cs[i + 1].kind /= "resume"
      BY <2>2 DEF LastOne
    <3>. QED  BY <3>3, <3>4, NextExtent
  <2>. QED  BY <2>1, <2>2
<1>. QED  BY <1>1, <1>2, <1>3, <1>4, <1>5, <1>6

LEMMA OrderSame ==
  ASSUME NEW cs, NEW ds, NEW i \in Nat \ {0}, \A j \in 1 .. i : ds[j] = cs[j], InOrder(cs, i)
  PROVE  InOrder(ds, i)
<1>1. ds[i] = cs[i]
  OBVIOUS
<1>2. \A j \in 1 .. i - 1 : ds[j] = cs[j]
  OBVIOUS
<1>. QED  BY <1>1, <1>2 DEF InOrder

(* An activation before the n-th one stays where it was.                   *)
LEMMA FrameBefore ==
  ASSUME NEW st \in [Threads -> ThreadState], NEW cs, StackOK(cs), FramesOK(st, cs),
         NEW n \in 1 .. Len(cs), cs[n].th = Last(cs).th,
         NEW t, Alike(st[cs[n].th].ci, t.ci, IF cs[n].kind \in Bodies THEN cs[n].ci - 1 ELSE cs[n].ci) \/ cs[n].kind = "resume",
         Len(t.ci) \in Nat, cs[n].ci <= Len(t.ci) \/ (cs[n].ci - 1 <= Len(t.ci) /\ cs[n].kind \in Bodies),
         NEW ds, Len(ds) \in Nat, n <= Len(ds), \A j \in 1 .. n : ds[j] = cs[j],
         NEW i \in 1 .. n - 1
  PROVE  LET st2 == [st EXCEPT ![cs[n].th] = t]
         IN InOrder(ds, i) /\ AtFrame(st2, ds, i) /\ ds[i].ci \in 1 .. Len(st2[ds[i].th].ci)
<1>. DEFINE L == cs[n].th  st2 == [st EXCEPT ![L] = t]
<1>1. /\ i \in 1 .. Len(cs) /\ i + 1 \in 1 .. Len(cs) /\ i + 1 <= n /\ ds[i] = cs[i] /\ ds[i + 1] = cs[i + 1]
      /\ i /= Len(cs) /\ i /= Len(ds) /\ i + 1 - 1 = i /\ i + 1 \in 2 .. Len(cs)
  <2>1. Len(cs) \in Nat
    BY DEF StackOK
  <2>2. i \in 1 .. n /\ i + 1 \in 1 .. n
    BY <2>1
  <2>. QED  BY <2>1, <2>2, SMTT(40)
<1>2. /\ cs[i] \in Activation /\ cs[i].th \in Threads /\ cs[i].ci \in Nat \ {0}
      /\ Len(Ci(st, cs, i)) \in Nat /\ cs[i].ci <= Len(Ci(st, cs, i))
      /\ InOrder(cs, i) /\ Place(cs[i], Ci(st, cs, i), Extent(st, cs, i)) /\ Extent(st, cs, i) \in Int
  BY <1>1, FrameFacts
<1>3. L \in Threads
  BY FrameFacts
<1>4. InOrder(ds, i)
  <2>1. \A j \in 1 .. i : ds[j] = cs[j]
    OBVIOUS
  <2>2. i \in Nat \ {0} /\ InOrder(cs, i)
    BY <1>2
  <2>. QED  BY <2>1, <2>2, OrderSame
<1>5. CASE cs[i].th /= L
  <2>1. Ci(st2, ds, i) = Ci(st, cs, i)
    BY <1>1, <1>2, <1>5 DEF Ci
  <2>2. Extent(st2, ds, i) = Extent(st, cs, i)
    BY <1>1, <2>1 DEF Extent, LastOne
  <2>3. AtFrame(st2, ds, i)
    BY <1>1, <1>2, <2>1, <2>2, AtPlace
  <2>4. ds[i].ci \in 1 .. Len(Ci(st2, ds, i))
    BY <1>1, <1>2, <2>1, SMTT(40)
  <2>. QED  BY <1>4, <2>3, <2>4 DEF Ci
<1>6. CASE cs[i].th = L
  <2>. DEFINE e == Extent(st, cs, i)
  <2>1. cs[i + 1].kind /= "resume" /\ cs[n].kind /= "resume" /\ cs[i + 1].th = L
    <3>1. i + 1 \in i + 1 .. n /\ n \in i + 1 .. n /\ i + 1 \in i .. n /\ i \in 1 .. n
      BY <1>1
    <3>. QED  BY <1>6, <3>1, Segment
  <2>2. Ci(st2, ds, i) = t.ci /\ Ci(st, cs, i) = st[L].ci
    BY <1>1, <1>3, <1>6 DEF Ci
  <2>3. e = (IF cs[i + 1].kind \in Bodies THEN cs[i + 1].ci - 1 ELSE cs[i + 1].ci)
    BY <1>1, <2>1, NextExtent, SMTT(40)
  <2>4. Extent(st2, ds, i) = e
    BY <1>1, <2>1, <2>3, NextExtent
  <2>5. /\ cs[i + 1].ci \in Nat /\ cs[n].ci \in Nat /\ InOrder(cs, i + 1) /\ InOrder(cs, n)
        /\ cs[n].th = L
    BY <1>1, FrameFacts
  <2>. DEFINE m == IF cs[n].kind \in Bodies THEN cs[n].ci - 1 ELSE cs[n].ci
  <2>6. e <= m
    <3>1. CASE i + 1 = n
      BY <2>3, <2>5, <3>1
    <3>2. CASE i + 1 < n
      <4>1. i + 1 \in 1 .. n - 1
        BY <1>1, <3>2
      <4>2. cs[i + 1].ci <= m
        BY <2>1, <2>5, <4>1 DEF InOrder
      <4>. QED  BY <2>3, <2>5, <4>2, SMTT(40)
    <3>. QED  BY <1>1, <3>1, <3>2
  <2>7. cs[i].ci <= m
    BY <1>2, <1>6, <2>5 DEF InOrder
  <2>8. m \in Int /\ m <= Len(t.ci)
    BY <2>5, SMTT(40)
  <2>9. Place(cs[i], t.ci, e)
    <3>1. Alike(st[L].ci, t.ci, m)
      BY <2>1
    <3>. HIDE DEF m, e, st2
    <3>2. cs[i].ci > 0 /\ e \in Int /\ Place(cs[i], st[L].ci, e)
      BY <1>2, <2>2 DEF e
    <3>. QED  BY <1>2, <2>6, <2>7, <2>8, <3>1, <3>2, PlaceAlike
  <2>10. AtFrame(st2, ds, i)
    BY <1>1, <2>2, <2>4, <2>9, AtPlace
  <2>11. ds[i].ci \in 1 .. Len(Ci(st2, ds, i))
    BY <1>1, <1>2, <2>2, <2>7, <2>8, SMTT(40)
  <2>. QED  BY <1>4, <2>10, <2>11 DEF Ci
<1>. QED  BY <1>5, <1>6

LEMMA RunsPrefix ==
  ASSUME NEW cs, Len(cs) \in Nat \ {0}, NEW ds, Len(ds) \in Nat, NEW n \in 1 .. Len(cs), n <= Len(ds),
         \A j \in 1 .. n : ds[j] = cs[j], \A j \in n .. Len(cs) : cs[j].th = cs[n].th,
         NEW L, ~Runs(ds, L)
  PROVE  ~Runs(cs, L)
<1>. SUFFICES ASSUME NEW i \in 1 .. Len(cs), cs[i].th = L PROVE FALSE
  BY DEF Runs
<1>1. CASE i <= n
  BY <1>1 DEF Runs
<1>2. CASE i > n
  <2>1. n \in 1 .. Len(ds) /\ i \in n .. Len(cs) /\ n \in 1 .. n
    BY <1>2
  <2>. QED  BY <2>1 DEF Runs
<1>. QED  BY <1>1, <1>2

(* The thread that runs goes on at the n-th activation, ...                *)
LEMMA CutFrame ==
  ASSUME NEW st \in [Threads -> ThreadState], NEW cs, StackOK(cs), FramesOK(st, cs),
         NEW n \in 1 .. Len(cs), cs[n].th = Last(cs).th, NEW t \in ThreadState, FrameOK(t.ci),
         cs[n].ci <= Len(t.ci), cs[n].kind \notin {"exec", "resume"} => Len(t.ci) = cs[n].ci,
         cs[n].kind /= "resume" =>
           Alike(st[cs[n].th].ci, t.ci, Len(t.ci)) /\ Len(t.ci) <= Extent(st, cs, n)
  PROVE  FramesOK([st EXCEPT ![cs[n].th] = t], SubSeq(cs, 1, n))
<1>. DEFINE L == cs[n].th  st2 == [st EXCEPT ![L] = t]  ds == SubSeq(cs, 1, n)
<1>1. /\ cs[n] \in Activation /\ L \in Threads /\ cs[n].ci \in Nat \ {0} /\ Len(cs) \in Nat \ {0}
      /\ InOrder(cs, n) /\ Place(cs[n], Ci(st, cs, n), Extent(st, cs, n)) /\ Extent(st, cs, n) \in Int
  BY FrameFacts
<1>2. Len(ds) = n /\ (\A j \in 1 .. n : ds[j] = cs[j]) /\ Len(ds) \in Nat /\ n <= Len(ds)
  <2>1. n \in 0 .. Len(cs) /\ cs \in Seq(Activation)
    BY DEF StackOK
  <2>. QED  BY <2>1, Cut
<1>. HIDE DEF ds
<1>3. st2[L] = t /\ (\A K \in Threads : K /= L => st2[K] = st[K]) /\ Len(t.ci) \in Nat
  BY <1>1 DEF ThreadState
<1>4. \A K \in Threads : FrameOK(st2[K].ci)
  BY <1>3 DEF FramesOK
<1>5. \A j \in n .. Len(cs) : cs[j].th = cs[n].th
  <2>1. Len(cs) \in 1 .. Len(cs) /\ n \in 1 .. Len(cs) /\ cs[n].th = cs[Len(cs)].th
    BY <1>1 DEF Last
  <2>. QED  BY <2>1, Segment
<1>6. ASSUME NEW K \in Coroutines, ~Runs(ds, K), st2[K].status = "YIELD" PROVE Len(st2[K].ci) > 1
  <2>1. n \in 1 .. n
    OBVIOUS
  <2>2. K /= L
    BY <1>2, <1>6, <2>1 DEF Runs
  <2>3. ~Runs(cs, K)
    BY <1>1, <1>2, <1>5, <1>6, RunsPrefix
  <2>. QED  BY <1>3, <1>6, <2>2, <2>3 DEF FramesOK, Threads
<1>7. ASSUME NEW i \in 1 .. n - 1
      PROVE  InOrder(ds, i) /\ AtFrame(st2, ds, i) /\ ds[i].ci \in 1 .. Len(st2[ds[i].th].ci)
  <2>. DEFINE m == IF cs[n].kind \in Bodies THEN cs[n].ci - 1 ELSE cs[n].ci
  <2>1. m \in Int /\ m <= Len(t.ci)
    BY <1>1
  <2>2. Alike(st[cs[n].th].ci, t.ci, m) \/ cs[n].kind = "resume"
    BY <1>3, <2>1 DEF Alike
  <2>. HIDE DEF m, L, st2
  <2>3. i \in 1 .. n - 1
    BY <1>7
  <2>4. Len(t.ci) \in Nat /\ cs[n].ci <= Len(t.ci)
    BY <1>3
  <2>. QED  BY <1>2, <2>2, <2>3, <2>4, FrameBefore, ZenonT(60) DEF m, L, st2
<1>8. InOrder(ds, n) /\ AtFrame(st2, ds, n) /\ ds[n].ci \in 1 .. Len(st2[ds[n].th].ci)
  <2>1. n \in 1 .. n
    OBVIOUS
  <2>2. ds[n] = cs[n] /\ Ci(st2, ds, n) = t.ci
    BY <1>2, <1>3, <2>1 DEF Ci
  <2>3. Extent(st2, ds, n) = Len(t.ci)
    BY <1>2, <2>2, LastExtent
  <2>4. InOrder(ds, n)
    <3>1. \A j \in 1 .. n : ds[j] = cs[j]
      BY <1>2
    <3>. QED  BY <1>1, <2>1, <3>1 DEF InOrder
  <2>5. Place(cs[n], t.ci, Len(t.ci))
    <3>1. CASE cs[n].kind = "resume"
      BY <3>1 DEF Place
    <3>2. CASE cs[n].kind /= "resume"
      <4>1. Place(cs[n], Ci(st, cs, n), Len(t.ci))
        <5>1. CASE cs[n].kind = "exec"
          BY <1>1, <1>3, <3>2, <5>1, PlaceShorter
        <5>2. CASE cs[n].kind /= "exec"
          BY <1>1, <3>2, <5>2 DEF Place
        <5>. QED  BY <5>1, <5>2
      <4>2. Ci(st, cs, n) = st[cs[n].th].ci
        BY DEF Ci
      <4>3. Len(t.ci) \in Int /\ cs[n].ci > 0
        BY <1>1, <1>3
      <4>. QED  BY <1>1, <3>2, <4>1, <4>2, <4>3, PlaceAlike
    <3>. QED  BY <3>1, <3>2
  <2>6. AtFrame(st2, ds, n)
    BY <2>2, <2>3, <2>5, AtPlace
  <2>7. ds[n].ci \in 1 .. Len(Ci(st2, ds, n))
    BY <1>1, <1>3, <2>2
  <2>. QED  BY <2>4, <2>6, <2>7 DEF Ci
<1>9. \A i \in 1 .. n : i \in 1 .. n - 1 \/ i = n
  BY <1>1
<1>10. FramesOK(st2, ds)
  BY <1>2, <1>4, <1>6, <1>7, <1>8, <1>9 DEF FramesOK, FramesExist
<1>. QED  BY <1>10 DEF ds

(* ... or makes one that is at its last frame, ...                         *)
LEMMA PushFrame ==
  ASSUME NEW st \in [Threads -> ThreadState], NEW cs \in Seq(Activation), Len(cs) > 0, FramesOK(st, cs),
         NEW b \in Activation, b.kind \notin Bodies \union {"host", "resume"}, b.th = Last(cs).th,
         b.ci = Len(st[b.th].ci), b.kind = "hook" => b.ci > 1
  PROVE  FramesOK(st, Append(cs, b))
<1>. DEFINE ds == Append(cs, b)  n == Len(cs)
<1>1. n \in Nat \ {0} /\ Last(cs) = cs[n] /\ n \in 1 .. n
  BY DEF Last
<1>2. Len(ds) = n + 1 /\ ds[n + 1] = b /\ \A j \in 1 .. n : ds[j] = cs[j]
  BY Pushed
<1>. HIDE DEF ds
<1>3. b.th \in Threads /\ b.ci \in Nat
  BY ActivationKind
<1>4. ASSUME NEW K \in Coroutines, ~Runs(ds, K), st[K].status = "YIELD" PROVE Len(st[K].ci) > 1
  <2>1. ~Runs(cs, K)
    BY <1>1, <1>2, <1>4 DEF Runs
  <2>. QED  BY <1>4, <2>1 DEF FramesOK
<1>5. ASSUME NEW i \in 1 .. n
      PROVE  InOrder(ds, i) /\ AtFrame(st, ds, i) /\ ds[i].ci \in 1 .. Len(st[ds[i].th].ci)
  <2>1. InOrder(cs, i) /\ AtFrame(st, cs, i) /\ cs[i].ci \in 1 .. Len(st[cs[i].th].ci)
    BY DEF FramesOK, FramesExist
  <2>2. ds[i] = cs[i] /\ Ci(st, ds, i) = Ci(st, cs, i) /\ \A j \in 1 .. i : ds[j] = cs[j]
    BY <1>1, <1>2 DEF Ci
  <2>3. InOrder(ds, i)
    BY <2>1, <2>2 DEF InOrder
  <2>4. Extent(st, ds, i) = Extent(st, cs, i)
    <3>1. CASE i < n
      <4>1. ds[i + 1] = cs[i + 1] /\ i /= Len(ds) /\ i /= n
        BY <1>1, <1>2, <3>1
      <4>. QED  BY <2>2, <4>1 DEF Extent, LastOne
    <3>2. CASE i = n
      <4>1. ds[i + 1] = b /\ i /= Len(ds) /\ ds[i + 1].kind /= "resume"
        BY <1>1, <1>2, <3>2
      <4>2. Extent(st, ds, i) = b.ci
        BY <4>1, NextExtent
      <4>3. Extent(st, cs, i) = Len(st[cs[n].th].ci)
        BY <3>2, LastExtent DEF Ci
      <4>. QED  BY <1>1, <4>2, <4>3
    <3>. QED  BY <1>1, <3>1, <3>2
  <2>5. AtFrame(st, ds, i)
    BY <2>1, <2>2, <2>4, AtPlace
  <2>. QED  BY <2>1, <2>2, <2>3, <2>5
<1>6. InOrder(ds, n + 1) /\ AtFrame(st, ds, n + 1) /\ ds[n + 1].ci \in 1 .. Len(st[ds[n + 1].th].ci)
  <2>1. cs[n].ci \in 1 .. Len(st[cs[n].th].ci) /\ InOrder(cs, n)
    BY <1>1 DEF FramesOK, FramesExist
  <2>2. b.ci \in 1 .. Len(st[b.th].ci) /\ cs[n].ci <= b.ci /\ cs[n].th = b.th
    BY <1>1, <1>3, <2>1
  <2>3. ASSUME NEW j \in 1 .. n, cs[j].th = b.th PROVE cs[j].ci <= b.ci
    <3>1. cs[j].ci \in Nat /\ cs[n].ci \in Nat
      BY <1>1, ActivationKind
    <3>2. cs[j].ci <= cs[n].ci
      <4>1. CASE j = n
        BY <3>1, <4>1
      <4>2. CASE j \in 1 .. n - 1
        BY <2>1, <2>2, <2>3, <4>2 DEF InOrder
      <4>. QED  BY <1>1, <4>1, <4>2
    <3>. QED  BY <1>3, <2>2, <3>1, <3>2
  <2>4. InOrder(ds, n + 1)
    <3>1. 1 .. n + 1 - 1 = 1 .. n
      BY <1>1
    <3>. QED  BY <1>2, <2>3, <3>1 DEF InOrder
  <2>5. Ci(st, ds, n + 1) = st[b.th].ci /\ Extent(st, ds, n + 1) = b.ci
    BY <1>2, LastExtent DEF Ci
  <2>6. Place(b, st[b.th].ci, b.ci)
    BY DEF Place, Bodies
  <2>7. AtFrame(st, ds, n + 1)
    BY <1>2, <2>5, <2>6, AtPlace
  <2>. QED  BY <1>2, <2>2, <2>4, <2>7
<1>7. \A i \in 1 .. n + 1 : i \in 1 .. n \/ i = n + 1
  BY <1>1
<1>8. FramesOK(st, ds)
  BY <1>2, <1>4, <1>5, <1>6, <1>7 DEF FramesOK, FramesExist
<1>. QED  BY <1>8 DEF ds

(* ... or enters a function.                                               *)
LEMMA PushBody ==
  ASSUME NEW st \in [Threads -> ThreadState], NEW cs, StackOK(cs), FramesOK(st, cs),
         NEW b \in Activation, b.kind \in Bodies, b.th = Last(cs).th,
         NEW t \in ThreadState, FrameOK(t.ci), Len(t.ci) = b.ci, b.ci > 1,
         Last(cs).kind \in {"call", "exec", "resume"},
         Last(cs).kind /= "resume" =>
           b.ci = Len(st[b.th].ci) + 1 /\ Alike(st[b.th].ci, t.ci, Len(st[b.th].ci)),
         b.kind = "cfun" => b.ci \notin LuaFrames(t.ci),
         b.kind = "exec" => b.ci \in LuaFrames(t.ci) /\ b.ci \in FreshFrames(t.ci)
  PROVE  FramesOK([st EXCEPT ![b.th] = t], Append(cs, b))
<1>. DEFINE ds == Append(cs, b)  n == Len(cs)  L == b.th  st2 == [st EXCEPT ![L] = t]
<1>1. n \in Nat \ {0} /\ Last(cs) = cs[n] /\ n \in 1 .. n /\ cs \in Seq(Activation)
  BY DEF StackOK, Last
<1>2. Len(ds) = n + 1 /\ ds[n + 1] = b /\ \A j \in 1 .. n : ds[j] = cs[j]
  BY <1>1, Pushed
<1>. HIDE DEF ds
<1>3. L \in Threads /\ b.ci \in Nat /\ cs[n].th = L
  BY <1>1, ActivationKind
<1>4. st2[L] = t /\ \A K \in Threads : K /= L => st2[K] = st[K]
  BY <1>3
<1>5. \A K \in Threads : FrameOK(st2[K].ci)
  BY <1>4 DEF FramesOK
<1>6. ASSUME NEW K \in Coroutines, ~Runs(ds, K), st2[K].status = "YIELD" PROVE Len(st2[K].ci) > 1
  <2>1. n + 1 \in 1 .. Len(ds)
    BY <1>1, <1>2
  <2>2. K /= L
    BY <1>2, <1>6, <2>1 DEF Runs
  <2>3. ~Runs(cs, K)
    BY <1>1, <1>2, <1>6 DEF Runs
  <2>. QED  BY <1>4, <1>6, <2>2, <2>3 DEF FramesOK, Threads
<1>7. cs[n] \in Activation /\ InOrder(cs, n) /\ cs[n].ci \in Nat \ {0} /\ cs[n].ci <= Len(st[L].ci)
      /\ Place(cs[n], st[L].ci, Len(st[L].ci)) /\ Len(st[L].ci) \in Nat
  <2>1. Extent(st, cs, n) = Len(st[L].ci) /\ Ci(st, cs, n) = st[L].ci
    BY <1>3, LastExtent DEF Ci
  <2>. QED  BY <1>1, <2>1, FrameFacts
<1>8. cs[n].ci < b.ci
  BY <1>1, <1>3, <1>7 DEF InOrder
<1>9. ASSUME NEW i \in 1 .. n - 1
      PROVE  InOrder(ds, i) /\ AtFrame(st2, ds, i) /\ ds[i].ci \in 1 .. Len(st2[ds[i].th].ci)
  <2>. DEFINE m == IF cs[n].kind \in Bodies THEN cs[n].ci - 1 ELSE cs[n].ci
  <2>1. m \in Int /\ m <= Len(st[L].ci)
    BY <1>7
  <2>2. Alike(st[cs[n].th].ci, t.ci, m) \/ cs[n].kind = "resume"
    BY <1>1, <1>3, <1>7, <2>1 DEF Alike
  <2>3. Len(t.ci) \in Nat /\ cs[n].ci <= Len(t.ci) /\ Len(ds) \in Nat /\ n <= Len(ds)
    BY <1>1, <1>2, <1>3, <1>7, <1>8
  <2>4. i \in 1 .. n - 1
    BY <1>9
  <2>5. st2 = [st EXCEPT ![cs[n].th] = t] /\ cs[n].th = Last(cs).th /\ n \in 1 .. Len(cs)
    BY <1>1, <1>3
  <2>. HIDE DEF m, st2, n, L
  <2>6. cs[n].ci <= Len(t.ci) \/ (cs[n].ci - 1 <= Len(t.ci) /\ cs[n].kind \in Bodies)
    BY <2>3
  <2>. QED  BY <1>2, <2>2, <2>3, <2>4, <2>5, <2>6, FrameBefore DEF m
<1>10. InOrder(ds, n) /\ AtFrame(st2, ds, n) /\ ds[n].ci \in 1 .. Len(st2[ds[n].th].ci)
  <2>1. ds[n] = cs[n] /\ Ci(st2, ds, n) = t.ci /\ \A j \in 1 .. n : ds[j] = cs[j]
    BY <1>1, <1>2, <1>3, <1>4 DEF Ci
  <2>2. InOrder(ds, n)
    BY <1>7, <2>1, SMTT(40) DEF InOrder
  <2>3. Extent(st2, ds, n) = b.ci - 1
    <3>1. n /= Len(ds) /\ ds[n + 1] = b /\ b.kind /= "resume"
      BY <1>1, <1>2 DEF Bodies
    <3>. QED  BY <3>1, NextExtent
  <2>4. Place(cs[n], t.ci, b.ci - 1)
    <3>1. CASE cs[n].kind = "resume"
      BY <3>1 DEF Place
    <3>2. CASE cs[n].kind /= "resume"
      <4>1. b.ci - 1 = Len(st[L].ci) /\ Alike(st[L].ci, t.ci, Len(st[L].ci))
        BY <1>1, <1>7, <3>2
      <4>2. cs[n].ci > 0 /\ Len(st[L].ci) \in Int
        BY <1>7
      <4>. QED  BY <1>7, <4>1, <4>2, PlaceAlike
    <3>. QED  BY <3>1, <3>2
  <2>5. AtFrame(st2, ds, n)
    BY <2>1, <2>3, <2>4, AtPlace
  <2>6. ds[n].ci \in 1 .. Len(Ci(st2, ds, n))
    BY <1>3, <1>7, <1>8, <2>1
  <2>. QED  BY <2>2, <2>5, <2>6 DEF Ci
<1>11. InOrder(ds, n + 1) /\ AtFrame(st2, ds, n + 1) /\ ds[n + 1].ci \in 1 .. Len(st2[ds[n + 1].th].ci)
  <2>1. ASSUME NEW j \in 1 .. n, cs[j].th = b.th PROVE cs[j].ci < b.ci
    <3>1. cs[j].ci \in Nat
      BY <1>1, ActivationKind
    <3>2. cs[j].ci <= cs[n].ci
      <4>1. CASE j = n
        BY <3>1, <4>1
      <4>2. CASE j \in 1 .. n - 1
        BY <1>3, <1>7, <2>1, <4>2 DEF InOrder
      <4>. QED  BY <1>1, <4>1, <4>2
    <3>. QED  BY <1>3, <1>7, <1>8, <3>1, <3>2
  <2>2. InOrder(ds, n + 1)
    <3>1. 1 .. n + 1 - 1 = 1 .. n
      BY <1>1
    <3>2. \A j \in 1 .. n : cs[j].ci \in Nat
      BY <1>1, ActivationKind
    <3>3. \A j \in 1 .. n : cs[j].th = b.th => cs[j].ci <= b.ci /\ cs[j].ci < b.ci
      BY <1>3, <2>1, <3>2
    <3>. QED  BY <1>2, <3>1, <3>3 DEF InOrder, Bodies
  <2>3. Ci(st2, ds, n + 1) = t.ci /\ Extent(st2, ds, n + 1) = b.ci
    <3>1. Ci(st2, ds, n + 1) = t.ci
      BY <1>2, <1>4 DEF Ci
    <3>2. Extent(st2, ds, n + 1) = Len(Ci(st2, ds, n + 1))
      BY <1>2, LastExtent
    <3>. QED  BY <3>1, <3>2
  <2>4. Place(b, t.ci, b.ci)
    <3>1. b.ci .. b.ci = {b.ci}
      BY <1>3
    <3>. QED  BY <3>1 DEF Place, Bodies
  <2>5. AtFrame(st2, ds, n + 1)
    BY <1>2, <2>3, <2>4, AtPlace
  <2>6. ds[n + 1].ci \in 1 .. Len(Ci(st2, ds, n + 1))
    BY <1>2, <1>3, <2>3
  <2>. QED  BY <2>2, <2>5, <2>6 DEF Ci
<1>12. \A i \in 1 .. n + 1 : i \in 1 .. n - 1 \/ i = n \/ i = n + 1
  BY <1>1
<1>13. FramesOK(st2, ds)
  BY <1>2, <1>5, <1>6, <1>9, <1>10, <1>11, <1>12 DEF FramesOK, FramesExist
<1>. QED  BY <1>13 DEF ds

(* luaV_execute runs one more frame.                                       *)
LEMMA GrowExec ==
  ASSUME NEW st \in [Threads -> ThreadState], NEW cs, StackOK(cs), FramesOK(st, cs),
         Last(cs).kind = "exec", NEW t \in ThreadState, FrameOK(t.ci),
         Len(t.ci) = Len(st[Last(cs).th].ci) + 1,
         Alike(st[Last(cs).th].ci, t.ci, Len(st[Last(cs).th].ci)),
         Len(t.ci) \in LuaFrames(t.ci), Len(t.ci) \notin FreshFrames(t.ci)
  PROVE  FramesOK([st EXCEPT ![Last(cs).th] = t], cs)
<1>. DEFINE n == Len(cs)  L == Last(cs).th  st2 == [st EXCEPT ![L] = t]  k == Len(st[L].ci)
<1>1. n \in Nat \ {0} /\ Last(cs) = cs[n] /\ n \in 1 .. n
  BY DEF StackOK, Last
<1>2. /\ cs[n] \in Activation /\ L \in Threads /\ cs[n].ci \in Nat \ {0} /\ InOrder(cs, n) /\ k \in Nat
      /\ Place(cs[n], st[L].ci, k) /\ cs[n].ci <= k
  <2>1. Extent(st, cs, n) = k /\ Ci(st, cs, n) = st[L].ci
    BY <1>1, LastExtent DEF Ci
  <2>. QED  BY <1>1, <2>1, FrameFacts
<1>3. st2[L] = t /\ \A K \in Threads : K /= L => st2[K] = st[K]
  BY <1>2
<1>4. \A K \in Threads : FrameOK(st2[K].ci)
  BY <1>3 DEF FramesOK
<1>5. ASSUME NEW K \in Coroutines, ~Runs(cs, K), st2[K].status = "YIELD" PROVE Len(st2[K].ci) > 1
  BY <1>1, <1>3, <1>5, SMTT(40) DEF FramesOK, Threads, Runs
<1>6. ASSUME NEW i \in 1 .. n - 1
      PROVE  InOrder(cs, i) /\ AtFrame(st2, cs, i) /\ cs[i].ci \in 1 .. Len(st2[cs[i].th].ci)
  <2>. DEFINE m == IF cs[n].kind \in Bodies THEN cs[n].ci - 1 ELSE cs[n].ci
  <2>1. m \in Int /\ m <= k
    BY <1>2
  <2>2. Alike(st[cs[n].th].ci, t.ci, m)
    BY <1>1, <1>2, <2>1 DEF Alike
  <2>3. Len(t.ci) \in Nat /\ cs[n].ci <= Len(t.ci)
    BY <1>2
  <2>4. i \in 1 .. n - 1
    BY <1>6
  <2>5. /\ st2 = [st EXCEPT ![cs[n].th] = t] /\ cs[n].th = Last(cs).th /\ n \in 1 .. Len(cs)
        /\ Len(cs) \in Nat /\ n <= Len(cs) /\ \A j \in 1 .. n : cs[j] = cs[j]
    BY <1>1
  <2>. HIDE DEF m, st2, n, L, k
  <2>6. cs[n].ci <= Len(t.ci) \/ (cs[n].ci - 1 <= Len(t.ci) /\ cs[n].kind \in Bodies)
    BY <2>3
  <2>. QED  BY <2>2, <2>3, <2>4, <2>5, <2>6, FrameBefore DEF m
<1>7. InOrder(cs, n) /\ AtFrame(st2, cs, n) /\ cs[n].ci \in 1 .. Len(st2[cs[n].th].ci)
  <2>1. Ci(st2, cs, n) = t.ci /\ Extent(st2, cs, n) = k + 1
    <3>1. Ci(st2, cs, n) = t.ci
      BY <1>1, <1>3 DEF Ci
    <3>2. Extent(st2, cs, n) = Len(Ci(st2, cs, n))
      BY LastExtent
    <3>. QED  BY <3>1, <3>2
  <2>2. Place(cs[n], t.ci, k)
    <3>1. cs[n].ci > 0 /\ k \in Int
      BY <1>2
    <3>. QED  BY <1>2, <3>1, PlaceAlike
  <2>3. Place(cs[n], t.ci, k + 1)
    <3>1. cs[n].ci .. k + 1 = (cs[n].ci .. k) \union {k + 1}
      BY <1>2
    <3>2. cs[n].kind = "exec"
      BY <1>1
    <3>. QED  BY <2>2, <3>1, <3>2 DEF Place
  <2>4. AtFrame(st2, cs, n)
    BY <2>1, <2>3, AtPlace
  <2>5. cs[n].ci \in 1 .. Len(Ci(st2, cs, n))
    BY <1>2, <2>1
  <2>. QED  BY <1>2, <2>4, <2>5 DEF Ci
<1>8. \A i \in 1 .. n : i \in 1 .. n - 1 \/ i = n
  BY <1>1
<1>. QED  BY <1>4, <1>5, <1>6, <1>7, <1>8 DEF FramesOK, FramesExist

(* A thread that is not active changes, ...                                *)
LEMMA IdleFrame ==
  ASSUME NEW st \in [Threads -> ThreadState], NEW cs, StackOK(cs), FramesOK(st, cs),
         NEW L \in Threads, ~Runs(cs, L), NEW t \in ThreadState, FrameOK(t.ci),
         t.status = "YIELD" => Len(t.ci) > 1
  PROVE  FramesOK([st EXCEPT ![L] = t], cs)
<1>. DEFINE st2 == [st EXCEPT ![L] = t]
<1>1. st2[L] = t /\ \A K \in Threads : K /= L => st2[K] = st[K]
  OBVIOUS
<1>2. \A K \in Threads : FrameOK(st2[K].ci)
  BY <1>1 DEF FramesOK
<1>3. ASSUME NEW K \in Coroutines, ~Runs(cs, K), st2[K].status = "YIELD" PROVE Len(st2[K].ci) > 1
  BY <1>1, <1>3 DEF FramesOK, Threads
<1>4. ASSUME NEW i \in 1 .. Len(cs)
      PROVE  InOrder(cs, i) /\ AtFrame(st2, cs, i) /\ cs[i].ci \in 1 .. Len(st2[cs[i].th].ci)
  <2>1. cs[i].th \in Threads /\ cs[i].th /= L
    BY FrameFacts DEF Runs
  <2>2. st2[cs[i].th] = st[cs[i].th]
    BY <1>1, <2>1
  <2>3. Ci(st2, cs, i) = Ci(st, cs, i) /\ Extent(st2, cs, i) = Extent(st, cs, i)
    BY <2>2 DEF Ci, Extent
  <2>4. AtFrame(st2, cs, i)
    BY <2>3, AtPlace DEF FramesOK
  <2>. QED  BY <2>2, <2>4 DEF FramesOK, FramesExist
<1>. QED  BY <1>2, <1>3, <1>4 DEF FramesOK, FramesExist

(* ... is resumed, ...                                                     *)
LEMMA PushResume ==
  ASSUME NEW st \in [Threads -> ThreadState], NEW cs \in Seq(Activation), Len(cs) > 0, FramesOK(st, cs),
         NEW a \in Activation, a.kind = "resume", a.ci = 1, ~Runs(cs, a.th)
  PROVE  FramesOK(st, Append(cs, a))
<1>. DEFINE ds == Append(cs, a)  n == Len(cs)
<1>1. n \in Nat \ {0} /\ n \in 1 .. n
  OBVIOUS
<1>2. Len(ds) = n + 1 /\ ds[n + 1] = a /\ \A j \in 1 .. n : ds[j] = cs[j]
  BY Pushed
<1>. HIDE DEF ds
<1>3. a.th \in Threads
  BY ActivationKind
<1>4. ASSUME NEW K \in Coroutines, ~Runs(ds, K), st[K].status = "YIELD" PROVE Len(st[K].ci) > 1
  <2>1. ~Runs(cs, K)
    BY <1>1, <1>2, <1>4 DEF Runs
  <2>. QED  BY <1>4, <2>1 DEF FramesOK
<1>5. ASSUME NEW i \in 1 .. n
      PROVE  InOrder(ds, i) /\ AtFrame(st, ds, i) /\ ds[i].ci \in 1 .. Len(st[ds[i].th].ci)
  <2>1. InOrder(cs, i) /\ AtFrame(st, cs, i) /\ cs[i].ci \in 1 .. Len(st[cs[i].th].ci)
    BY DEF FramesOK, FramesExist
  <2>2. ds[i] = cs[i] /\ Ci(st, ds, i) = Ci(st, cs, i) /\ \A j \in 1 .. i : ds[j] = cs[j]
    BY <1>1, <1>2 DEF Ci
  <2>3. InOrder(ds, i)
    BY <2>1, <2>2 DEF InOrder
  <2>4. Extent(st, ds, i) = Extent(st, cs, i)
    <3>1. CASE i < n
      <4>1. ds[i + 1] = cs[i + 1] /\ i /= Len(ds) /\ i /= n
        BY <1>1, <1>2, <3>1
      <4>. QED  BY <2>2, <4>1 DEF Extent, LastOne
    <3>2. CASE i = n
      <4>1. ds[i + 1].kind = "resume"
        BY <1>2, <3>2
      <4>. QED  BY <2>2, <3>2, <4>1, LastExtent
    <3>. QED  BY <1>1, <3>1, <3>2
  <2>5. AtFrame(st, ds, i)
    BY <2>1, <2>2, <2>4, AtPlace
  <2>. QED  BY <2>1, <2>2, <2>3, <2>5
<1>6. InOrder(ds, n + 1) /\ AtFrame(st, ds, n + 1) /\ ds[n + 1].ci \in 1 .. Len(st[ds[n + 1].th].ci)
  <2>1. \A j \in 1 .. n : cs[j].th /= a.th
    BY DEF Runs
  <2>2. InOrder(ds, n + 1)
    <3>1. 1 .. n + 1 - 1 = 1 .. n
      BY <1>1
    <3>. QED  BY <1>2, <2>1, <3>1 DEF InOrder, Bodies
  <2>3. AtFrame(st, ds, n + 1)
    <3>1. Place(a, Ci(st, ds, n + 1), Extent(st, ds, n + 1))
      BY DEF Place
    <3>. QED  BY <1>2, <3>1, AtPlace
  <2>4. Len(st[a.th].ci) \in Nat /\ Len(st[a.th].ci) > 0
    BY <1>3 DEF ThreadState, FramesOK, FrameOK
  <2>. QED  BY <1>2, <2>2, <2>3, <2>4
<1>7. \A i \in 1 .. n + 1 : i \in 1 .. n \/ i = n + 1
  BY <1>1
<1>8. FramesOK(st, ds)
  BY <1>2, <1>4, <1>5, <1>6, <1>7 DEF FramesOK, FramesExist
<1>. QED  BY <1>8 DEF ds

(* ... and left.                                                           *)
LEMMA PopResume ==
  ASSUME NEW st \in [Threads -> ThreadState], NEW cs, StackOK(cs), FramesOK(st, cs),
         NEW r \in 2 .. Len(cs), cs[r].kind = "resume", cs[r].th = Last(cs).th,
         st[cs[r].th].status = "YIELD" => Len(st[cs[r].th].ci) > 1
  PROVE  FramesOK(st, SubSeq(cs, 1, r - 1)) /\ ~Runs(SubSeq(cs, 1, r - 1), cs[r].th)
<1>. DEFINE n == r - 1  ds == SubSeq(cs, 1, n)
<1>1. Len(cs) \in Nat \ {0} /\ n \in 1 .. Len(cs) /\ n \in 0 .. Len(cs) /\ n + 1 = r /\ r \in 1 .. Len(cs)
  BY DEF StackOK
<1>2. Len(ds) = n /\ \A j \in 1 .. n : ds[j] = cs[j]
  <2>1. cs \in Seq(Activation)
    BY DEF StackOK
  <2>. QED  BY <1>1, <2>1, Cut
<1>. HIDE DEF ds
<1>3. \A j \in r .. Len(cs) : cs[j].th = cs[r].th
  <2>1. Len(cs) \in 1 .. Len(cs) /\ cs[r].th = cs[Len(cs)].th /\ r \in 1 .. Len(cs)
    BY <1>1 DEF Last
  <2>. QED  BY <2>1, Segment
<1>4. \A j \in 1 .. n : cs[j].th /= cs[r].th
  <2>. SUFFICES ASSUME NEW j \in 1 .. n, cs[j].th = cs[r].th PROVE FALSE
    OBVIOUS
  <2>1. j \in 1 .. r /\ r \in j + 1 .. r
    BY <1>1
  <2>. QED  BY <1>1, <2>1, Segment
<1>5. ~Runs(ds, cs[r].th)
  BY <1>2, <1>4 DEF Runs
<1>6. ASSUME NEW K \in Coroutines, ~Runs(ds, K), st[K].status = "YIELD" PROVE Len(st[K].ci) > 1
  <2>1. CASE K = cs[r].th
    BY <1>6, <2>1
  <2>2. CASE K /= cs[r].th
    <3>1. ~Runs(cs, K)
      <4>. SUFFICES ASSUME NEW j \in 1 .. Len(cs), cs[j].th = K PROVE FALSE
        BY DEF Runs
      <4>1. CASE j \in 1 .. n
        BY <1>2, <1>6, <4>1 DEF Runs
      <4>2. CASE j \in r .. Len(cs)
        BY <1>3, <2>2, <4>2
      <4>. QED  BY <1>1, <4>1, <4>2
    <3>. QED  BY <1>6, <3>1 DEF FramesOK
  <2>. QED  BY <2>1, <2>2
<1>7. ASSUME NEW i \in 1 .. n
      PROVE  InOrder(ds, i) /\ AtFrame(st, ds, i) /\ ds[i].ci \in 1 .. Len(st[ds[i].th].ci)
  <2>1. i \in 1 .. Len(cs)
    BY <1>1
  <2>2. InOrder(cs, i) /\ AtFrame(st, cs, i) /\ cs[i].ci \in 1 .. Len(st[cs[i].th].ci)
    BY <2>1 DEF FramesOK, FramesExist
  <2>3. ds[i] = cs[i] /\ Ci(st, ds, i) = Ci(st, cs, i) /\ \A j \in 1 .. i : ds[j] = cs[j]
    BY <1>1, <1>2 DEF Ci
  <2>4. InOrder(ds, i)
    BY <2>2, <2>3, SMTT(40) DEF InOrder
  <2>5. Extent(st, ds, i) = Extent(st, cs, i)
    <3>1. CASE i < n
      <4>1. ds[i + 1] = cs[i + 1] /\ i /= Len(ds) /\ i /= Len(cs)
        BY <1>1, <1>2, <3>1
      <4>. QED  BY <2>3, <4>1 DEF Extent, LastOne
    <3>2. CASE i = n
      <4>1. cs[i + 1].kind = "resume" /\ i = Len(ds)
        BY <1>1, <1>2, <3>2
      <4>. QED  BY <2>3, <4>1, LastExtent
    <3>. QED  BY <1>1, <3>1, <3>2
  <2>6. AtFrame(st, ds, i)
    BY <2>2, <2>3, <2>5, AtPlace
  <2>. QED  BY <2>2, <2>3, <2>4, <2>6
<1>8. FramesOK(st, ds)
  BY <1>2, <1>6, <1>7 DEF FramesOK, FramesExist
<1>. QED  BY <1>5, <1>8 DEF ds

LEMMA SameFrames ==
  ASSUME NEW st, NEW st2, NEW cs, StackOK(cs), FramesOK(st, cs),
         \A L \in Threads : st2[L].ci = st[L].ci /\ st2[L].status = st[L].status
  PROVE  FramesOK(st2, cs)
<1>1. ASSUME NEW i \in 1 .. Len(cs)
      PROVE  InOrder(cs, i) /\ AtFrame(st2, cs, i) /\ cs[i].ci \in 1 .. Len(st2[cs[i].th].ci)
  <2>1. cs[i] \in Activation
    BY DEF StackOK
  <2>2. cs[i].th \in Threads
    BY <2>1, ActivationKind
  <2>3. Ci(st2, cs, i) = Ci(st, cs, i)
    BY <2>2 DEF Ci
  <2>4. Extent(st2, cs, i) = Extent(st, cs, i)
    BY <2>3 DEF Extent
  <2>5. AtFrame(st2, cs, i)
    BY <2>3, <2>4, AtPlace DEF FramesOK
  <2>. QED  BY <2>2, <2>5 DEF FramesOK, FramesExist
<1>2. \A L \in Threads : FrameOK(st2[L].ci)
  BY DEF FramesOK
<1>3. \A L \in Coroutines : ~Runs(cs, L) /\ st2[L].status = "YIELD" => Len(st2[L].ci) > 1
  BY DEF FramesOK, Threads
<1>. QED  BY <1>1, <1>2, <1>3 DEF FramesOK, FramesExist

-----------------------------------------------------------------------------
(* The frames of the thread that runs.                                     *)

(* The thread that runs gets a state with as many frames of the same kinds.*)
Keeps(t) == t \in ThreadState /\ FrameOK(t.ci) /\ Len(t.ci) = Len(S.ci) /\ Alike(S.ci, t.ci, Len(S.ci))

LEMMA FrameInvFacts ==
  ASSUME CountInv, FrameInv
  PROVE  /\ FramesExist(state, cstack) /\ FramesOK(state, cstack) /\ FrameOK(S.ci)
         /\ Top.ci \in Nat \ {0} /\ Top.ci <= Depth /\ Depth \in Nat \ {0} /\ Depth = Len(S.ci)
         /\ Place(Top, S.ci, Depth) /\ InOrder(cstack, Len(cstack)) /\ Top = cstack[Len(cstack)]
         /\ Len(cstack) \in 1 .. Len(cstack) /\ cstack[Len(cstack)].th = Running
         /\ Last(cstack).th = Running /\ Ci(state, cstack, Len(cstack)) = S.ci
<1>1. FramesOK(state, cstack) /\ Len(cstack) \in 1 .. Len(cstack) /\ Top = cstack[Len(cstack)]
      /\ Last(cstack).th = Running /\ cstack[Len(cstack)].th = Running
  BY RunningFacts DEF FrameInv
<1>2. Extent(state, cstack, Len(cstack)) = Len(Ci(state, cstack, Len(cstack)))
  BY LastExtent
<1>3. Ci(state, cstack, Len(cstack)) = S.ci
  BY <1>1 DEF Ci, S
<1>4. /\ Top.ci \in Nat \ {0} /\ Len(S.ci) \in Nat /\ Top.ci <= Len(S.ci)
      /\ Place(Top, S.ci, Len(S.ci)) /\ InOrder(cstack, Len(cstack))
  BY <1>1, <1>2, <1>3, FrameFacts, RunningFacts
<1>5. FrameOK(S.ci)
  BY <1>1, RunningFacts DEF FramesOK, S
<1>. QED  BY <1>1, <1>3, <1>4, <1>5 DEF FramesOK, Depth

LEMMA CutAt ==
  ASSUME CountInv, FrameInv, NEW n \in 1 .. Len(cstack), cstack[n].th = Running,
         NEW t \in ThreadState, FrameOK(t.ci), Len(t.ci) = Extent(state, cstack, n),
         Alike(S.ci, t.ci, Len(t.ci))
  PROVE  FramesOK([state EXCEPT ![Running] = t], SubSeq(cstack, 1, n))
<1>1. cstack[n].th = Last(cstack).th /\ FramesOK(state, cstack) /\ Running = cstack[n].th
  BY FrameInvFacts
<1>2. /\ cstack[n].ci \in Nat \ {0} /\ InOrder(cstack, n) /\ Len(t.ci) \in Nat
      /\ Place(cstack[n], Ci(state, cstack, n), Extent(state, cstack, n))
  <2>1. Len(t.ci) \in Nat
    BY DEF ThreadState
  <2>2. StackOK(cstack) /\ state \in [Threads -> ThreadState]
    BY RunningFacts
  <2>. QED  BY <1>1, <2>1, <2>2, FrameFacts
<1>3. cstack[n].ci <= Len(t.ci)
  <2>1. CASE cstack[n].kind = "resume"
    BY <1>2, <2>1 DEF InOrder, FrameOK
  <2>2. CASE cstack[n].kind = "exec"
    <3>1. cstack[n].ci \in cstack[n].ci .. Len(t.ci)
      BY <1>2, <2>2 DEF Place
    <3>. QED  BY <1>2, <3>1
  <2>3. CASE cstack[n].kind \notin {"exec", "resume"}
    BY <1>2, <2>3 DEF Place
  <2>. QED  BY <2>1, <2>2, <2>3
<1>4. cstack[n].kind \notin {"exec", "resume"} => Len(t.ci) = cstack[n].ci
  BY <1>2 DEF Place
<1>5. Alike(state[cstack[n].th].ci, t.ci, Len(t.ci)) /\ Len(t.ci) <= Extent(state, cstack, n)
  BY <1>1, <1>2 DEF S
<1>6. FramesOK([state EXCEPT ![cstack[n].th] = t], SubSeq(cstack, 1, n))
  BY <1>1, <1>3, <1>4, <1>5, CutFrame, RunningFacts
<1>. QED  BY <1>1, <1>6

LEMMA Stay ==
  ASSUME CountInv, FrameInv, NEW t, Keeps(t)
  PROVE  FramesOK([state EXCEPT ![Running] = t], cstack)
<1>. DEFINE n == Len(cstack)
<1>1. n \in 1 .. Len(cstack) /\ cstack[n].th = Running
  BY FrameInvFacts
<1>2. Len(t.ci) = Extent(state, cstack, n)
  <2>1. Extent(state, cstack, n) = Len(Ci(state, cstack, n))
    BY LastExtent
  <2>. QED  BY <2>1, FrameInvFacts DEF Keeps
<1>3. t \in ThreadState /\ FrameOK(t.ci) /\ Alike(S.ci, t.ci, Len(t.ci))
  BY DEF Keeps
<1>. HIDE DEF n
<1>4. FramesOK([state EXCEPT ![Running] = t], SubSeq(cstack, 1, n))
  BY <1>1, <1>2, <1>3, CutAt
<1>5. SubSeq(cstack, 1, n) = cstack
  BY RunningFacts DEF n
<1>. QED  BY <1>4, <1>5

LEMMA StayFrames ==
  ASSUME CountInv, FrameInv, NEW t, Keeps(t), Update(t), cstack' = cstack
  PROVE  FramesOK(state', cstack')
<1>1. state' = [state EXCEPT ![Running] = t]
  BY DEF Update
<1>. QED  BY <1>1, Stay

LEMMA PopFrames ==
  ASSUME CountInv, FrameInv, NEW t, Keeps(t), Update(t), cstack' = Pop,
         Top.kind \notin Bodies \union {"host", "resume"}
  PROVE  FramesOK(state', cstack') /\ Running' = Running /\ S' = t
<1>. DEFINE n == Len(cstack) - 1
<1>1. n \in 1 .. Len(cstack) /\ cstack[n].th = Running /\ n /= Len(cstack) /\ n + 1 = Len(cstack)
      /\ Len(SubSeq(cstack, 1, n)) = n /\ SubSeq(cstack, 1, n)[n] = cstack[n]
  <2>1. Len(cstack) \in Nat \ {0, 1}
    <3>1. Len(cstack) = 1 => Top = Host
      BY FrameInvFacts, RunningFacts DEF StackOK
    <3>. QED  BY <3>1, RunningFacts DEF Host
  <2>2. n \in 1 .. Len(cstack) /\ n + 1 = Len(cstack) /\ n \in 0 .. Len(cstack) /\ n /= Len(cstack)
        /\ Len(cstack) \in 2 .. Len(cstack) /\ Len(cstack) - 1 = n
    BY <2>1, SMTT(40)
  <2>3. Made(cstack[n], cstack[Len(cstack)])
    BY <2>2, RunningFacts DEF StackOK
  <2>4. cstack[n].th = Running
    BY <2>3, FrameInvFacts, SMTT(40) DEF Made
  <2>5. Len(SubSeq(cstack, 1, n)) = n /\ \A j \in 1 .. n : SubSeq(cstack, 1, n)[j] = cstack[j]
    BY <2>2, RunningFacts, Cut, ZenonT(60)
  <2>. HIDE DEF n
  <2>6. n \in 1 .. n
    BY <2>2
  <2>. QED  BY <2>2, <2>4, <2>5, <2>6
<1>2. Len(t.ci) = Extent(state, cstack, n)
  <2>1. Extent(state, cstack, n) = Top.ci
    BY <1>1, NextExtent, FrameInvFacts, ZenonT(60)
  <2>2. Top.ci = Depth
    BY FrameInvFacts DEF Place, Bodies
  <2>. QED  BY <2>1, <2>2, FrameInvFacts DEF Keeps
<1>3. t \in ThreadState /\ FrameOK(t.ci) /\ Alike(S.ci, t.ci, Len(t.ci))
  BY DEF Keeps
<1>4. state' = [state EXCEPT ![Running] = t] /\ cstack' = SubSeq(cstack, 1, n)
  BY DEF Update, Pop
<1>. HIDE DEF n
<1>5. FramesOK(state', cstack')
  BY <1>1, <1>2, <1>3, <1>4, CutAt
<1>6. Running' = Running
  BY <1>1, <1>4 DEF Running, Top
<1>. QED  BY <1>4, <1>5, <1>6, RunningFacts DEF S

(* An activation at the last frame.                                        *)
AtLast(b) ==
  /\ b \in Activation /\ b.kind \notin Bodies \union {"host", "resume"} /\ b.th = Running
  /\ b.ci = Depth /\ (b.kind = "hook" => b.ci > 1)

LEMMA PushAtLast ==
  ASSUME CountInv, FrameInv, NEW t, Keeps(t), NEW cs \in Seq(Activation), Len(cs) > 0,
         Last(cs).th = Running, FramesOK([state EXCEPT ![Running] = t], cs), NEW b, AtLast(b)
  PROVE  /\ FramesOK([state EXCEPT ![Running] = t], Append(cs, b)) /\ Append(cs, b) \in Seq(Activation)
         /\ Len(Append(cs, b)) > 0 /\ Last(Append(cs, b)).th = Running
<1>. DEFINE st == [state EXCEPT ![Running] = t]
<1>1. st \in [Threads -> ThreadState] /\ st[Running] = t /\ b \in Activation
  BY RunningFacts DEF Keeps, AtLast
<1>2. b.ci = Len(st[b.th].ci) /\ b.th = Last(cs).th
  BY <1>1, FrameInvFacts DEF AtLast, Keeps
<1>3. FramesOK(st, Append(cs, b))
  <2>. HIDE DEF st
  <2>1. FramesOK(st, cs) /\ b.kind \notin Bodies \union {"host", "resume"} /\ (b.kind = "hook" => b.ci > 1)
    BY DEF AtLast, st
  <2>. QED  BY <1>1, <1>2, <2>1, PushFrame
<1>4. Append(cs, b) \in Seq(Activation) /\ Len(Append(cs, b)) > 0 /\ Last(Append(cs, b)) = b
  BY <1>1, Pushed DEF Last
<1>. QED  BY <1>3, <1>4 DEF AtLast

LEMMA PushFrames ==
  ASSUME CountInv, FrameInv, NEW t, Keeps(t), Update(t), NEW b, AtLast(b), cstack' = Append(cstack, b)
  PROVE  FramesOK(state', cstack')
<1>1. FramesOK([state EXCEPT ![Running] = t], cstack)
  BY Stay
<1>2. state' = [state EXCEPT ![Running] = t]
  BY DEF Update
<1>3. cstack \in Seq(Activation) /\ Len(cstack) > 0 /\ Last(cstack).th = Running
  BY RunningFacts
<1>. QED  BY <1>1, <1>2, <1>3, PushAtLast

(* The steps that do not return from a function keep the frames.           *)
LEMMA NotReturning ==
  ASSUME FramesOK(state', cstack'), mode' \notin {"ret", "poscall"}
  PROVE  FrameInv'
BY DEF FrameInv

LEMMA SameCi ==
  ASSUME CountInv, FrameInv, NEW t \in ThreadState, t.ci = S.ci
  PROVE  Keeps(t)
BY FrameInvFacts DEF Keeps, Alike

LEMMA KeepsSelf ==
  ASSUME CountInv, FrameInv
  PROVE  Keeps(S)
BY RunningFacts, SameCi

-----------------------------------------------------------------------------
(* The frames that a step changes.                                         *)

LEMMA SetFrameKeeps ==
  ASSUME CountInv, FrameInv, NEW f \in Frame, f.yp => f.oah, f.lua <=> CurrentCI.lua,
         f.fresh <=> CurrentCI.fresh, f.yp => CurrentCI.yp \/ (Depth > 1 /\ ~f.lua)
  PROVE  Keeps(SetFrame(S, f))
<1>. DEFINE t == SetFrame(S, f)
<1>1. S \in ThreadState /\ S.ci \in Seq(Frame) /\ Len(S.ci) \in Nat \ {0} /\ Depth = Len(S.ci)
  BY RunningFacts, FrameInvFacts
<1>2. t \in ThreadState
  BY <1>1, SetFrameOK, RunningFacts DEF ThreadOK
<1>3. t.ci = [S.ci EXCEPT ![Depth] = f]
  BY <1>1 DEF SetFrame, ThreadState
<1>. HIDE DEF t
<1>4. /\ DOMAIN t.ci = 1 .. Depth /\ DOMAIN S.ci = 1 .. Depth /\ Len(t.ci) = Depth /\ t.ci[Depth] = f
      /\ S.ci[Depth] = CurrentCI /\ \A x \in 1 .. Depth : x /= Depth => t.ci[x] = S.ci[x]
  BY <1>1, <1>3 DEF CurrentCI
<1>5. LuaFrames(t.ci) = LuaFrames(S.ci) /\ FreshFrames(t.ci) = FreshFrames(S.ci)
  BY <1>4 DEF LuaFrames, FreshFrames
<1>6. \A x \in Suspended(t.ci) : x \in Suspended(S.ci) \/ (x > 1 /\ x \notin LuaFrames(t.ci))
  BY <1>1, <1>4 DEF Suspended, LuaFrames
<1>7. FrameOK(t.ci)
  BY <1>1, <1>4, <1>5, <1>6, FrameInvFacts DEF FrameOK
<1>. QED  BY <1>1, <1>2, <1>4, <1>5, <1>7 DEF Keeps, Alike, t

LEMMA KeepsMore ==
  ASSUME CountInv, FrameInv, NEW t, Keeps(t), NEW u \in ThreadState, u.ci = t.ci
  PROVE  Keeps(u)
BY DEF Keeps

LEMMA CutFramesFacts ==
  ASSUME CountInv, FrameInv, NEW n \in 1 .. Depth, NEW t, t.ci = SubSeq(S.ci, 1, n)
  PROVE  /\ FrameOK(t.ci) /\ Len(t.ci) = n /\ Alike(S.ci, t.ci, n) /\ \A d \in 1 .. n : t.ci[d] = S.ci[d]
<1>1. S.ci \in Seq(Frame) /\ Len(S.ci) = Depth /\ Depth \in Nat
  BY RunningFacts, FrameInvFacts
<1>2. DOMAIN t.ci = 1 .. n /\ DOMAIN S.ci = 1 .. Depth /\ Len(t.ci) = n /\ \A d \in 1 .. n : t.ci[d] = S.ci[d]
  BY <1>1
<1>3. \A x \in 1 .. n : x \in 1 .. Depth
  BY <1>1
<1>4. Alike(S.ci, t.ci, n)
  BY <1>2, <1>3 DEF Alike, LuaFrames, FreshFrames
<1>5. FrameOK(t.ci)
  BY <1>2, <1>3, FrameInvFacts DEF FrameOK, Suspended, LuaFrames
<1>. QED  BY <1>2, <1>4, <1>5

LEMMA NewFrameFacts ==
  ASSUME CountInv, FrameInv, NEW lua \in BOOLEAN, NEW fresh \in BOOLEAN, NEW t,
         t.ci = Append(S.ci, NewFrame(lua, fresh))
  PROVE  /\ FrameOK(t.ci) /\ Len(t.ci) = Depth + 1 /\ Alike(S.ci, t.ci, Depth)
         /\ Depth + 1 \in LuaFrames(t.ci) <=> lua
         /\ Depth + 1 \in FreshFrames(t.ci) <=> fresh
<1>. DEFINE f == NewFrame(lua, fresh)
<1>1. S.ci \in Seq(Frame) /\ Len(S.ci) = Depth /\ Depth \in Nat
  BY RunningFacts, FrameInvFacts
<1>2. f \in Frame /\ f.lua = lua /\ f.fresh = fresh /\ f.yp = FALSE
  BY DEF NewFrame, Frame
<1>. HIDE DEF f
<1>3. DOMAIN t.ci = 1 .. Depth + 1 /\ DOMAIN S.ci = 1 .. Depth /\ Len(t.ci) = Depth + 1
      /\ t.ci[Depth + 1] = f /\ \A d \in 1 .. Depth : t.ci[d] = S.ci[d]
  BY <1>1, <1>2 DEF f
<1>4. \A x \in 1 .. Depth : x \in 1 .. Depth + 1
  BY <1>1
<1>5. Alike(S.ci, t.ci, Depth)
  BY <1>3, <1>4 DEF Alike, LuaFrames, FreshFrames
<1>6. Depth + 1 \in DOMAIN t.ci
  BY <1>1, <1>3
<1>7. /\ Depth + 1 \in LuaFrames(t.ci) <=> lua
      /\ Depth + 1 \in FreshFrames(t.ci) <=> fresh
  BY <1>2, <1>3, <1>6 DEF LuaFrames, FreshFrames
<1>8. FrameOK(t.ci)
  <2>1. Len(t.ci) > 0
    BY <1>1, <1>3
  <2>2. ASSUME NEW d \in Suspended(t.ci) PROVE d > 1 /\ d \notin LuaFrames(t.ci)
    <3>1. d \in DOMAIN t.ci /\ t.ci[d].yp
      BY <2>2 DEF Suspended
    <3>2. d /= Depth + 1
      BY <1>2, <1>3, <3>1
    <3>3. d \in 1 .. Depth
      BY <1>1, <1>3, <3>1, <3>2
    <3>4. d \in Suspended(S.ci)
      BY <1>3, <3>1, <3>3 DEF Suspended
    <3>5. d > 1 /\ d \notin LuaFrames(S.ci)
      BY <3>4, FrameInvFacts DEF FrameOK
    <3>. QED  BY <1>5, <3>3, <3>5 DEF Alike
  <2>. QED  BY <2>1, <2>2 DEF FrameOK
<1>. QED  BY <1>3, <1>5, <1>7, <1>8

(* A frame goes on: its protected call is over, or luaV_execute enters it. *)
LEMMA FinishFacts ==
  ASSUME NEW s, ThreadOK(s), FrameOK(s.ci), NEW i \in DOMAIN s.ci
  PROVE  /\ FrameOK(FinishCcall(s, i).ci) /\ Len(FinishCcall(s, i).ci) = Len(s.ci)
         /\ LuaFrames(FinishCcall(s, i).ci) = LuaFrames(s.ci)
         /\ FreshFrames(FinishCcall(s, i).ci) = FreshFrames(s.ci)
<1>. DEFINE f == [s.ci[i] EXCEPT !.yp = FALSE]  t == FinishCcall(s, i)
<1>1. s \in ThreadState /\ s.ci \in Seq(Frame) /\ s.ci[i] \in Frame
  BY DEF ThreadOK, ThreadState
<1>2. f.lua = s.ci[i].lua /\ f.fresh = s.ci[i].fresh /\ ~f.yp
  BY <1>1 DEF Frame
<1>3. t.ci = [s.ci EXCEPT ![i] = f]
  BY <1>1 DEF FinishCcall, ThreadState
<1>. HIDE DEF f, t
<1>4. DOMAIN t.ci = DOMAIN s.ci /\ t.ci[i] = f /\ (\A d \in DOMAIN s.ci : d /= i => t.ci[d] = s.ci[d])
      /\ Len(t.ci) = Len(s.ci)
  BY <1>1, <1>3
<1>5. LuaFrames(t.ci) = LuaFrames(s.ci)
  BY <1>2, <1>4 DEF LuaFrames
<1>6. FreshFrames(t.ci) = FreshFrames(s.ci)
  BY <1>2, <1>4 DEF FreshFrames
<1>7. Suspended(t.ci) \subseteq Suspended(s.ci)
  BY <1>2, <1>4 DEF Suspended
<1>8. FrameOK(t.ci)
  BY <1>4, <1>5, <1>7 DEF FrameOK
<1>. QED  BY <1>4, <1>5, <1>6, <1>8 DEF t

Entered(s, i) == [s EXCEPT !.ci[i].fresh = TRUE]

LEMMA FreshFacts ==
  ASSUME NEW s, ThreadOK(s), FrameOK(s.ci), NEW i \in DOMAIN s.ci
  PROVE  /\ FrameOK(Entered(s, i).ci) /\ Len(Entered(s, i).ci) = Len(s.ci)
         /\ LuaFrames(Entered(s, i).ci) = LuaFrames(s.ci) /\ i \in FreshFrames(Entered(s, i).ci)
<1>. DEFINE f == [s.ci[i] EXCEPT !.fresh = TRUE]  t == Entered(s, i)
<1>1. s \in ThreadState /\ s.ci \in Seq(Frame) /\ s.ci[i] \in Frame
  BY DEF ThreadOK, ThreadState
<1>2. f.lua = s.ci[i].lua /\ f.yp = s.ci[i].yp
  BY <1>1 DEF Frame
<1>3. f.fresh
  BY <1>1 DEF Frame
<1>4. t.ci = [s.ci EXCEPT ![i] = f]
  BY <1>1 DEF ThreadState, Entered
<1>. HIDE DEF f, t
<1>5. DOMAIN t.ci = DOMAIN s.ci /\ t.ci[i] = f /\ (\A d \in DOMAIN s.ci : d /= i => t.ci[d] = s.ci[d])
      /\ Len(t.ci) = Len(s.ci)
  BY <1>1, <1>4
<1>6. LuaFrames(t.ci) = LuaFrames(s.ci)
  BY <1>2, <1>5 DEF LuaFrames
<1>7. Suspended(t.ci) = Suspended(s.ci)
  BY <1>2, <1>5 DEF Suspended
<1>8. i \in FreshFrames(t.ci)
  BY <1>3, <1>5 DEF FreshFrames
<1>9. FrameOK(t.ci)
  BY <1>5, <1>6, <1>7 DEF FrameOK
<1>. QED  BY <1>5, <1>6, <1>8, <1>9 DEF t

-----------------------------------------------------------------------------
(* The C stack with more activations, where the thread keeps its frames.   *)
Pushable(cs) ==
  /\ cs \in Seq(Activation) /\ Len(cs) > 0 /\ Last(cs).th = Running
  /\ \A t : Keeps(t) => FramesOK([state EXCEPT ![Running] = t], cs)

LEMMA PushableStack ==
  ASSUME CountInv, FrameInv
  PROVE  Pushable(cstack)
BY Stay, RunningFacts DEF Pushable

LEMMA PushableMore ==
  ASSUME CountInv, FrameInv, NEW cs, Pushable(cs), NEW b, AtLast(b)
  PROVE  Pushable(Append(cs, b))
<1>1. cs \in Seq(Activation) /\ Len(cs) > 0 /\ Last(cs).th = Running /\ b \in Activation /\ b.th = Running
  BY DEF Pushable, AtLast
<1>2. ASSUME NEW t, Keeps(t) PROVE FramesOK([state EXCEPT ![Running] = t], Append(cs, b))
  <2>1. FramesOK([state EXCEPT ![Running] = t], cs)
    BY <1>2 DEF Pushable
  <2>. QED  BY <1>1, <1>2, <2>1, PushAtLast
<1>3. Append(cs, b) \in Seq(Activation) /\ Len(Append(cs, b)) > 0 /\ Last(Append(cs, b)) = b
  BY <1>1, Pushed DEF Last
<1>. QED  BY <1>1, <1>2, <1>3 DEF Pushable

LEMMA PushableStep ==
  ASSUME CountInv, FrameInv, NEW cs, Pushable(cs), NEW t, Keeps(t), Update(t), cstack' = cs,
         mode' \notin {"ret", "poscall"}
  PROVE  FrameInv'
<1>1. state' = [state EXCEPT ![Running] = t] /\ FramesOK([state EXCEPT ![Running] = t], cs)
  BY DEF Update, Pushable
<1>2. FramesOK(state', cstack')
  BY <1>1
<1>. QED  BY <1>2, NotReturning

LEMMA DCallFrames ==
  ASSUME CountInv, FrameInv, NEW stack, Pushable(stack), NEW s, Keeps(s),
         NEW noyield \in BOOLEAN, NEW yp \in BOOLEAN, DCall(s, stack, noyield, yp)
  PROVE  FrameInv'
<1>. DEFINE b == [kind |-> "call", th |-> Running, ci |-> Len(s.ci), noyield |-> noyield, yp |-> yp]
            t == [s EXCEPT !.nCcalls = s.nCcalls + 1, !.nny = IF noyield THEN @ + 1 ELSE @]
<1>1. s \in ThreadState /\ s.nny \in Int /\ s.nCcalls \in Int /\ Len(s.ci) = Depth
  BY FrameInvFacts DEF Keeps, ThreadState
<1>2. AtLast(b)
  <2>1. b \in Activation
    BY <1>1, FrameInvFacts, RunningFacts DEF Activation
  <2>2. b.kind \notin Bodies \union {"host", "resume"} /\ b.th = Running /\ b.ci = Depth /\ b.kind /= "hook"
    BY <1>1 DEF Bodies
  <2>. QED  BY <2>1, <2>2 DEF AtLast
<1>3. t \in ThreadState /\ t.ci = s.ci
  <2>1. (IF noyield THEN s.nny + 1 ELSE s.nny) \in Int /\ s.nCcalls + 1 \in Int
    BY <1>1
  <2>. QED  BY <1>1, <2>1 DEF ThreadState
<1>4. cstack' = Append(stack, b) /\ Update(t) /\ mode' \notin {"ret", "poscall"}
  BY DEF DCall
<1>. HIDE DEF t, b
<1>5. Keeps(t)
  BY <1>3, KeepsMore
<1>. QED  BY <1>2, <1>4, <1>5, PushableMore, PushableStep

(* The activations that are pushed at the last frame.                      *)
LEMMA AtLastFacts ==
  ASSUME CountInv, FrameInv
  PROVE  /\ \A s : ThreadOK(s) /\ s.ci = S.ci => AtLast(PcallAct(s))
         /\ \A oah \in BOOLEAN : AtLast(GCTM(oah))
         /\ \A kind \in {"load", "parser", "level", "errormsg"} : AtLast(Kind(kind, Depth))
         /\ Depth > 1 => \A ev \in {"call", "ret", "count"} : AtLast(HookAct(Depth, ev))
<1>1. ASSUME NEW s, ThreadOK(s), s.ci = S.ci PROVE AtLast(PcallAct(s))
  <2>1. PcallAct(s) \in Activation /\ PcallAct(s).kind = "pcall" /\ PcallAct(s).th = Running
    BY <1>1, PcallActOK
  <2>2. PcallAct(s).ci = Depth
    BY <1>1, FrameInvFacts DEF PcallAct
  <2>. QED  BY <2>1, <2>2 DEF AtLast, Bodies
<1>2. ASSUME NEW oah \in BOOLEAN PROVE AtLast(GCTM(oah))
  BY <1>2, FrameInvFacts, RunningFacts DEF GCTM, AtLast, Activation, Bodies
<1>3. ASSUME NEW kind \in {"load", "parser", "level", "errormsg"} PROVE AtLast(Kind(kind, Depth))
  BY <1>3, FrameInvFacts, RunningFacts DEF Kind, AtLast, Activation, Bodies
<1>4. ASSUME Depth > 1, NEW ev \in {"call", "ret", "count"} PROVE AtLast(HookAct(Depth, ev))
  BY <1>4, FrameInvFacts, RunningFacts DEF HookAct, AtLast, Activation, Bodies, ThreadState
<1>. QED  BY <1>1, <1>2, <1>3, <1>4

LEMMA CallKFrames ==
  ASSUME CountInv, FrameInv, NEW k \in BOOLEAN, CallK(k)
  PROVE  FrameInv'
<1>1. CASE k /\ S.nny = 0
  <2>. DEFINE f == [CurrentCI EXCEPT !.k = TRUE]
  <2>1. f \in Frame /\ (f.yp => f.oah)
    BY RunningFrames, FrameInvFacts DEF Frame
  <2>2. DCall(SetFrame(S, f), cstack, FALSE, FALSE)
    BY <1>1 DEF CallK
  <2>3. f.lua = CurrentCI.lua /\ f.fresh = CurrentCI.fresh /\ f.yp = CurrentCI.yp
    BY RunningFrames, FrameInvFacts DEF Frame
  <2>. HIDE DEF f
  <2>4. Keeps(SetFrame(S, f))
    BY <2>1, <2>3, SetFrameKeeps
  <2>. QED  BY <2>2, <2>4, DCallFrames, PushableStack
<1>2. CASE ~(k /\ S.nny = 0)
  <2>1. DCall(S, cstack, TRUE, FALSE)
    BY <1>2 DEF CallK
  <2>. QED  BY <2>1, DCallFrames, PushableStack, KeepsSelf
<1>. QED  BY <1>1, <1>2

LEMMA CallFrames ==
  ASSUME CountInv, FrameInv, Metamethod \/ ApiMetamethod \/ Reader
  PROVE  FrameInv'
<1>1. PICK noyield \in BOOLEAN : DCall(S, cstack, noyield, FALSE)
  BY DEF Metamethod, ApiMetamethod, Reader
<1>. QED  BY <1>1, DCallFrames, PushableStack, KeepsSelf

LEMMA ErrorMsgFrames ==
  ASSUME CountInv, FrameInv, ErrorMsg
  PROVE  FrameInv'
<1>1. CASE S.errfunc = 0
  <2>1. mode' = "ERRRUN" /\ UNCHANGED <<state, cstack>>
    BY <1>1 DEF ErrorMsg
  <2>. QED  BY <2>1 DEF FrameInv
<1>2. CASE S.errfunc /= 0
  <2>1. DCall(S, Append(cstack, Kind("errormsg", Depth)), TRUE, FALSE)
    BY <1>2 DEF ErrorMsg
  <2>2. Pushable(Append(cstack, Kind("errormsg", Depth)))
    BY AtLastFacts, PushableMore, PushableStack
  <2>. QED  BY <2>1, <2>2, DCallFrames, KeepsSelf
<1>. QED  BY <1>1, <1>2

LEMMA PcallKFrames ==
  ASSUME CountInv, FrameInv, NEW k \in BOOLEAN, NEW ef \in Nat, PcallK(k, ef)
  PROVE  FrameInv'
<1>1. Top.kind \in {"host", "cfun", "hook"} /\ (k => Top.kind = "cfun") /\ mode = "run"
  BY DEF PcallK, InC, UserHook, Body
<1>2. CASE k /\ S.nny = 0
  <2>. DEFINE f == [CurrentCI EXCEPT !.k = TRUE, !.yp = TRUE, !.oerr = S.errfunc, !.oah = S.allowhook]
              t == [SetFrame(S, f) EXCEPT !.errfunc = ef]
  <2>1. S.allowhook = TRUE
    BY <1>1, <1>2, YieldableHooks DEF Bodies
  <2>2. f \in Frame /\ (f.yp => f.oah)
    BY <2>1, RunningFrames, RunningFacts, FrameInvFacts DEF Frame, ThreadState
  <2>3. f.lua = CurrentCI.lua /\ f.fresh = CurrentCI.fresh
    BY RunningFrames, FrameInvFacts DEF Frame
  <2>4. DCall(t, cstack, FALSE, TRUE)
    BY <1>2 DEF PcallK
  <2>. HIDE DEF f
  <2>5. Depth > 1 /\ ~CurrentCI.lua
    <3>1. Top.kind = "cfun"
      BY <1>1, <1>2
    <3>2. Top.ci = Depth /\ Top.ci \notin LuaFrames(S.ci) /\ Top.ci > 1
      BY <3>1, FrameInvFacts DEF Place, InOrder, Bodies
    <3>3. Depth \in DOMAIN S.ci
      BY FrameInvFacts, RunningFacts
    <3>. QED  BY <3>2, <3>3 DEF LuaFrames, CurrentCI
  <2>6. Keeps(SetFrame(S, f))
    BY <2>2, <2>3, <2>5, SetFrameKeeps
  <2>7. t \in ThreadState /\ t.ci = SetFrame(S, f).ci
    BY <2>6 DEF Keeps, ThreadState
  <2>. HIDE DEF t
  <2>. QED  BY <2>4, <2>6, <2>7, KeepsMore, DCallFrames, PushableStack
<1>3. CASE ~(k /\ S.nny = 0)
  <2>. DEFINE t == [S EXCEPT !.errfunc = ef, !.armed = @ \/ Top.kind = "host"]
  <2>1. DCall(t, Append(cstack, PcallAct(S)), TRUE, FALSE)
    BY <1>3 DEF PcallK
  <2>2. Pushable(Append(cstack, PcallAct(S)))
    BY AtLastFacts, PushableMore, PushableStack, RunningFacts
  <2>3. t \in ThreadState /\ t.ci = S.ci
    BY RunningFacts DEF ThreadState
  <2>. HIDE DEF t
  <2>. QED  BY <2>1, <2>2, <2>3, SameCi, DCallFrames
<1>. QED  BY <1>2, <1>3

LEMMA CallFinalizerFrames ==
  ASSUME CountInv, FrameInv, CallFinalizer
  PROVE  FrameInv'
<1>. DEFINE s == [S EXCEPT !.allowhook = FALSE]
            t == [s EXCEPT !.errfunc = 0]
            a == GCTM(S.allowhook)
            b == PcallAct(s)
<1>1. s \in ThreadState /\ s.ci = S.ci
  BY RunningFacts DEF ThreadState
<1>2. t \in ThreadState /\ t.ci = S.ci
  BY RunningFacts DEF ThreadState
<1>3. S.allowhook \in BOOLEAN
  BY RunningFacts DEF ThreadState
<1>4. DCall(t, cstack \o <<a, b>>, TRUE, FALSE)
  BY DEF CallFinalizer
<1>. HIDE DEF s, t
<1>5. ThreadOK(s)
  BY <1>1, ThreadUpdate, RunningFacts
<1>6. AtLast(a) /\ AtLast(b)
  BY <1>1, <1>3, <1>5, AtLastFacts
<1>. HIDE DEF a, b
<1>7. Pushable(Append(Append(cstack, a), b))
  BY <1>6, PushableMore, PushableStack
<1>8. cstack \o <<a, b>> = Append(Append(cstack, a), b)
  BY <1>6, Push2, RunningFacts DEF AtLast
<1>. QED  BY <1>2, <1>4, <1>7, <1>8, SameCi, DCallFrames

LEMMA LoadFrames ==
  ASSUME CountInv, FrameInv, Load
  PROVE  FrameInv'
<1>. DEFINE s == [S EXCEPT !.nny = @ + 1]
            a == Kind("load", Depth)
            b == PcallAct(s)
            c == Kind("parser", Depth)
<1>1. s \in ThreadState /\ s.ci = S.ci
  <2>1. S \in ThreadState /\ S.nny + 1 \in Int
    BY RunningFacts
  <2>. QED  BY <2>1 DEF ThreadState
<1>2. Update(s) /\ cstack' = cstack \o <<a, b, c>> /\ mode' = "run"
  BY DEF Load, Body
<1>. HIDE DEF s
<1>3. ThreadOK(s)
  BY <1>1, ThreadUpdate, RunningFacts
<1>4. AtLast(a) /\ AtLast(b) /\ AtLast(c)
  BY <1>1, <1>3, AtLastFacts
<1>. HIDE DEF a, b, c
<1>5. Pushable(Append(Append(Append(cstack, a), b), c))
  BY <1>4, PushableMore, PushableStack
<1>6. cstack \o <<a, b, c>> = Append(Append(Append(cstack, a), b), c)
  BY <1>4, Push3, RunningFacts DEF AtLast
<1>. QED  BY <1>1, <1>2, <1>5, <1>6, SameCi, PushableStep

-----------------------------------------------------------------------------
(* The steps that leave the C stack, or take one activation off it.        *)

LEMMA BodyFrames ==
  ASSUME CountInv, FrameInv, Top.kind \in Bodies \union {"hook"}
  PROVE  Depth > 1 /\ Len(S.ci) > 1
BY FrameInvFacts DEF InOrder

LEMMA SameStateFrames ==
  ASSUME CountInv, FrameInv, UNCHANGED <<state, cstack>>, mode' \notin {"ret", "poscall"}
  PROVE  FrameInv'
BY DEF FrameInv

LEMMA KeepsStep ==
  ASSUME CountInv, FrameInv, NEW t, Keeps(t), Update(t), cstack' = cstack, mode' \notin {"ret", "poscall"}
  PROVE  FrameInv'
BY PushableStack, PushableStep

LEMMA ModeFrames ==
  ASSUME CountInv, FrameInv, OpCall \/ Return \/ Error \/ HandlerDone
  PROVE  FrameInv'
<1>1. CASE Return
  <2>1. Len(S.ci) > 1
    BY <1>1, BodyFrames DEF Return, Body, InLua, Bodies
  <2>2. UNCHANGED <<state, cstack>>
    BY <1>1 DEF Return
  <2>. QED  BY <2>1, <2>2 DEF FrameInv, S, Running, Top
<1>2. CASE OpCall \/ Error \/ HandlerDone
  BY <1>2, SameStateFrames DEF OpCall, Error, HandlerDone
<1>. QED  BY <1>1, <1>2

LEMMA PrecallFailsFrames ==
  ASSUME CountInv, FrameInv, PrecallFails
  PROVE  FrameInv'
<1>. DEFINE t == [S EXCEPT !.big = TRUE]
<1>1. cstack' = cstack /\ mode' \notin {"ret", "poscall"} /\ (state' = state \/ Update(t))
  BY DEF PrecallFails
<1>2. t \in ThreadState /\ t.ci = S.ci
  BY RunningFacts DEF ThreadState
<1>. HIDE DEF t
<1>. QED  BY <1>1, <1>2, SameCi, KeepsStep, SameStateFrames

LEMMA YieldFrames ==
  ASSUME CountInv, FrameInv, NEW k \in BOOLEAN, Yield(k)
  PROVE  FrameInv'
<1>. DEFINE f == [CurrentCI EXCEPT !.k = k]  t == [SetFrame(S, f) EXCEPT !.status = "YIELD"]
<1>1. cstack' = cstack /\ mode' \notin {"ret", "poscall"} /\ (state' = state \/ Update(t))
  BY DEF Yield
<1>2. f \in Frame /\ (f.yp => f.oah)
  BY RunningFrames, FrameInvFacts DEF Frame
<1>3. f.lua = CurrentCI.lua /\ f.fresh = CurrentCI.fresh /\ f.yp = CurrentCI.yp
  BY RunningFrames, FrameInvFacts DEF Frame
<1>. HIDE DEF f
<1>4. Keeps(SetFrame(S, f))
  BY <1>2, <1>3, SetFrameKeeps
<1>5. t \in ThreadState /\ t.ci = SetFrame(S, f).ci
  BY <1>4 DEF Keeps, ThreadState
<1>. HIDE DEF t
<1>. QED  BY <1>1, <1>4, <1>5, KeepsMore, KeepsStep, SameStateFrames

LEMMA SetHookFrames ==
  ASSUME CountInv, FrameInv, NEW h \in {"none", "user"}, SetHook(h)
  PROVE  FrameInv'
<1>. DEFINE t == [S EXCEPT !.hook = h]
<1>1. cstack' = cstack /\ mode' = "run" /\ Update(t)
  BY DEF SetHook, Body
<1>2. t \in ThreadState /\ t.ci = S.ci
  BY RunningFacts DEF ThreadState, Hooks
<1>. HIDE DEF t
<1>. QED  BY <1>1, <1>2, SameCi, KeepsStep

LEMMA LstopFrames ==
  ASSUME CountInv, FrameInv, Lstop
  PROVE  FrameInv'
<1>. DEFINE t == [S EXCEPT !.hook = "none"]
<1>1. cstack' = cstack /\ mode' = "errormsg" /\ Update(t)
  BY DEF Lstop
<1>2. t \in ThreadState /\ t.ci = S.ci
  BY RunningFacts DEF ThreadState, Hooks
<1>. HIDE DEF t
<1>. QED  BY <1>1, <1>2, SameCi, KeepsStep

LEMMA SignalFrames ==
  ASSUME CountInv, FrameInv, Signal
  PROVE  FrameInv'
<1>1. state' = [state EXCEPT ![Main].hook = "lstop", ![Main].armed = FALSE] /\ cstack' = cstack /\ mode' = mode
  BY DEF Signal
<1>2. Main \in Threads /\ state \in [Threads -> ThreadState]
  BY RunningFacts DEF Threads
<1>3. \A L \in Threads : state'[L].ci = state[L].ci /\ state'[L].status = state[L].status
  BY <1>1, <1>2 DEF ThreadState
<1>4. FramesOK(state', cstack')
  <2>1. StackOK(cstack) /\ FramesOK(state, cstack)
    BY RunningFacts, FrameInvFacts
  <2>2. FramesOK(state', cstack)
    BY <1>3, <2>1, SameFrames
  <2>. QED  BY <1>1, <2>2
<1>5. Running' = Running /\ Running \in Threads
  BY <1>1, RunningFacts DEF Running, Top
<1>6. S'.ci = S.ci
  BY <1>3, <1>5 DEF S
<1>. QED  BY <1>1, <1>4, <1>6 DEF FrameInv

LEMMA EnterLevelFrames ==
  ASSUME CountInv, FrameInv, EnterLevel
  PROVE  FrameInv'
<1>. DEFINE t == [S EXCEPT !.nCcalls = @ + 1]
<1>1. cstack' = Append(cstack, Kind("level", Depth)) /\ Update(t) /\ mode' \notin {"ret", "poscall"}
  BY DEF EnterLevel, InParser, Body
<1>2. t \in ThreadState /\ t.ci = S.ci
  <2>1. S \in ThreadState /\ S.nCcalls + 1 \in Int
    BY RunningFacts
  <2>. QED  BY <2>1 DEF ThreadState
<1>. HIDE DEF t
<1>3. Pushable(Append(cstack, Kind("level", Depth)))
  BY AtLastFacts, PushableMore, PushableStack
<1>. QED  BY <1>1, <1>2, <1>3, SameCi, PushableStep

LEMMA ReturnHookFrames ==
  ASSUME CountInv, FrameInv, ReturnHook
  PROVE  FrameInv'
<1>. DEFINE t == [S EXCEPT !.allowhook = FALSE]
<1>1. cstack' = Append(cstack, HookAct(Depth, "ret")) /\ Update(t) /\ mode' = "run" /\ mode = "ret"
  BY DEF ReturnHook
<1>2. t \in ThreadState /\ t.ci = S.ci
  BY RunningFacts DEF ThreadState
<1>. HIDE DEF t
<1>3. Depth > 1
  BY <1>1, FrameInvFacts DEF FrameInv
<1>4. AtLast(HookAct(Depth, "ret"))
  BY <1>3, AtLastFacts
<1>5. Pushable(Append(cstack, HookAct(Depth, "ret")))
  BY <1>4, PushableMore, PushableStack
<1>. QED  BY <1>1, <1>2, <1>5, SameCi, PushableStep

LEMMA CountHookFrames ==
  ASSUME CountInv, FrameInv, CountHook
  PROVE  FrameInv'
<1>1. mode' = "run" /\ Top.kind \in Bodies
  BY DEF CountHook, Body, Bodies
<1>2. CASE CurrentCI.hookyield
  <2>. DEFINE f == [CurrentCI EXCEPT !.hookyield = FALSE]
  <2>1. f \in Frame /\ (f.yp => f.oah)
    BY RunningFrames, FrameInvFacts DEF Frame
  <2>2. f.lua = CurrentCI.lua /\ f.fresh = CurrentCI.fresh /\ f.yp = CurrentCI.yp
    BY RunningFrames, FrameInvFacts DEF Frame
  <2>3. Update(SetFrame(S, f)) /\ cstack' = cstack
    BY <1>2 DEF CountHook
  <2>. HIDE DEF f
  <2>4. Keeps(SetFrame(S, f))
    BY <2>1, <2>2, SetFrameKeeps
  <2>. QED  BY <1>1, <2>3, <2>4, KeepsStep
<1>3. CASE ~CurrentCI.hookyield
  <2>. DEFINE t == [S EXCEPT !.allowhook = FALSE]
  <2>1. cstack' = Append(cstack, HookAct(Depth, "count")) /\ Update(t)
    BY <1>3 DEF CountHook
  <2>2. t \in ThreadState /\ t.ci = S.ci
    BY RunningFacts DEF ThreadState
  <2>. HIDE DEF t
  <2>3. AtLast(HookAct(Depth, "count"))
    BY <1>1, BodyFrames, AtLastFacts
  <2>4. Pushable(Append(cstack, HookAct(Depth, "count")))
    BY <2>3, PushableMore, PushableStack
  <2>. QED  BY <1>1, <2>1, <2>2, <2>4, SameCi, PushableStep
<1>. QED  BY <1>2, <1>3

LEMMA PopKeeps ==
  ASSUME CountInv, FrameInv, NEW t, Keeps(t), Update(t), cstack' = Pop,
         Top.kind \notin Bodies \union {"host", "resume"}, mode' \notin {"ret", "poscall"}
  PROVE  FrameInv'
BY PopFrames, NotReturning

LEMMA PopSame ==
  ASSUME CountInv, FrameInv, NEW t \in ThreadState, t.ci = S.ci, Update(t), cstack' = Pop,
         Top.kind \notin Bodies \union {"host", "resume"}, mode' \notin {"ret", "poscall"}
  PROVE  FrameInv'
BY SameCi, PopKeeps

LEMMA LeaveLevelFrames ==
  ASSUME CountInv, FrameInv, LeaveLevel
  PROVE  FrameInv'
<1>. DEFINE t == [S EXCEPT !.nCcalls = @ - 1]
<1>1. cstack' = Pop /\ Update(t) /\ mode' = "run" /\ Top.kind = "level"
  BY DEF LeaveLevel, Body
<1>2. t \in ThreadState /\ t.ci = S.ci
  <2>1. S \in ThreadState /\ S.nCcalls - 1 \in Int
    BY RunningFacts
  <2>. QED  BY <2>1 DEF ThreadState
<1>. HIDE DEF t
<1>. QED  BY <1>1, <1>2, PopSame DEF Bodies

LEMMA LoadDoneFrames ==
  ASSUME CountInv, FrameInv, LoadDone
  PROVE  FrameInv'
<1>. DEFINE t == [S EXCEPT !.nny = @ - 1]
<1>1. cstack' = Pop /\ Update(t) /\ mode' = "run" /\ Top.kind = "load"
  BY DEF LoadDone, Body
<1>2. t \in ThreadState /\ t.ci = S.ci
  <2>1. S \in ThreadState /\ S.nny - 1 \in Int
    BY RunningFacts
  <2>. QED  BY <2>1 DEF ThreadState
<1>. HIDE DEF t
<1>. QED  BY <1>1, <1>2, PopSame DEF Bodies

LEMMA FinalizerDoneFrames ==
  ASSUME CountInv, FrameInv, FinalizerDone
  PROVE  FrameInv'
<1>. DEFINE t == [S EXCEPT !.allowhook = Top.oah]
<1>1. cstack' = Pop /\ Update(t) /\ mode' = "run" /\ Top.kind = "gctm"
  BY DEF FinalizerDone, Body
<1>2. t \in ThreadState /\ t.ci = S.ci
  <2>1. Top.oah \in BOOLEAN
    BY <1>1, RunningFacts DEF Activation
  <2>. QED  BY <2>1, RunningFacts DEF ThreadState
<1>. HIDE DEF t
<1>. QED  BY <1>1, <1>2, PopSame DEF Bodies

LEMMA PcallDoneFrames ==
  ASSUME CountInv, FrameInv, PcallDone
  PROVE  FrameInv'
<1>. DEFINE t == [S EXCEPT !.errfunc = Top.oerr, !.nCcalls = Top.ncc, !.armed = @ /\ Below.kind /= "host"]
<1>1. cstack' = Pop /\ Update(t) /\ mode' = "run" /\ Top.kind = "pcall"
  BY DEF PcallDone, Body
<1>2. t \in ThreadState /\ t.ci = S.ci
  <2>1. Top.oerr \in Nat /\ Top.ncc \in Int
    BY <1>1, RunningFacts DEF Activation
  <2>. QED  BY <2>1, RunningFacts DEF ThreadState
<1>. HIDE DEF t
<1>. QED  BY <1>1, <1>2, PopSame DEF Bodies

LEMMA ParserEndsFrames ==
  ASSUME CountInv, FrameInv, ParserEnds
  PROVE  FrameInv'
<1>1. CASE Body({"parser"}) /\ cstack' = Pop /\ UNCHANGED mode
  <2>1. state' = [state EXCEPT ![Running] = S]
    BY RunningFacts DEF ParserEnds, S
  <2>. QED  BY <1>1, <2>1, PopSame, RunningFacts DEF Update, Body, Bodies
<1>2. CASE mode' = "ERRSYNTAX" /\ UNCHANGED cstack
  BY <1>2, SameStateFrames DEF ParserEnds
<1>. QED  BY <1>1, <1>2 DEF ParserEnds

LEMMA HookDoneFrames ==
  ASSUME CountInv, FrameInv, HookDone
  PROVE  FrameInv'
<1>. DEFINE t == [S EXCEPT !.allowhook = TRUE]
<1>1. cstack' = Pop /\ Update(t) /\ Top.kind = "hook"
  BY DEF HookDone, UserHook, Body
<1>2. t \in ThreadState /\ t.ci = S.ci
  BY RunningFacts DEF ThreadState
<1>. HIDE DEF t
<1>3. FramesOK(state', cstack') /\ S' = t
  BY <1>1, <1>2, SameCi, PopFrames DEF Bodies
<1>4. Len(S'.ci) > 1
  BY <1>1, <1>2, <1>3, BodyFrames
<1>. QED  BY <1>3, <1>4 DEF FrameInv

LEMMA CallDoneFrames ==
  ASSUME CountInv, FrameInv, CallDone
  PROVE  FrameInv'
<1>. DEFINE e == S.nCcalls - 1
            z == IF Top.noyield THEN S.nny - 1 ELSE S.nny
            s == [S EXCEPT !.nCcalls = e, !.nny = z]
            f == [CurrentCI EXCEPT !.yp = FALSE]
            t == [SetFrame(s, f) EXCEPT !.errfunc = CurrentCI.oerr]
<1>1. mode' = "run" /\ Top.kind = "call" /\ cstack' = Pop /\ (Update(t) \/ Update(s))
  BY DEF CallDone, Body
<1>2. e \in Int /\ z \in Int /\ S \in ThreadState
  BY RunningFacts DEF ThreadState
<1>. HIDE DEF e, z
<1>3. s \in ThreadState /\ s.ci = S.ci
  BY <1>2 DEF ThreadState
<1>4. f \in Frame /\ ~f.yp
  BY RunningFrames, FrameInvFacts DEF Frame
<1>5. f.lua = CurrentCI.lua /\ f.fresh = CurrentCI.fresh /\ CurrentCI.oerr \in Nat
  BY RunningFrames, FrameInvFacts DEF Frame
<1>. HIDE DEF f, s
<1>6. Keeps(SetFrame(S, f))
  BY <1>4, <1>5, SetFrameKeeps
<1>7. t \in ThreadState /\ t.ci = SetFrame(S, f).ci
  <2>1. SetFrame(s, f).ci = SetFrame(S, f).ci
    BY <1>2, <1>3 DEF SetFrame, ThreadState
  <2>2. SetFrame(S, f).ci \in Seq(Frame)
    BY <1>6 DEF Keeps, ThreadState
  <2>3. SetFrame(s, f) \in ThreadState
    BY <1>2, <1>3, <2>1, <2>2 DEF SetFrame, ThreadState
  <2>4. t \in ThreadState /\ t.ci = SetFrame(s, f).ci
    <3>. HIDE DEF SetFrame
    <3>. QED  BY <1>5, <2>3 DEF ThreadState
  <2>. QED  BY <2>1, <2>4
<1>. HIDE DEF t
<1>8. Keeps(t) /\ Keeps(s)
  BY <1>3, <1>6, <1>7, KeepsMore, SameCi
<1>. QED  BY <1>1, <1>8, PopKeeps DEF Bodies

LEMMA YieldInHookFrames ==
  ASSUME CountInv, FrameInv, YieldInHook
  PROVE  FrameInv'
<1>. DEFINE f == [CurrentCI EXCEPT !.hookyield = TRUE]
            t == [SetFrame(S, f) EXCEPT !.status = "YIELD", !.allowhook = TRUE]
<1>1. mode' = "YIELD" /\ Top.kind = "hook" /\ cstack' = Pop /\ Update(t)
  BY DEF YieldInHook, UserHook, Body
<1>2. f \in Frame /\ (f.yp => f.oah)
  BY RunningFrames, FrameInvFacts DEF Frame
<1>3. f.lua = CurrentCI.lua /\ f.fresh = CurrentCI.fresh /\ f.yp = CurrentCI.yp
  BY RunningFrames, FrameInvFacts DEF Frame
<1>. HIDE DEF f
<1>4. Keeps(SetFrame(S, f))
  BY <1>2, <1>3, SetFrameKeeps
<1>5. t \in ThreadState /\ t.ci = SetFrame(S, f).ci
  BY <1>4 DEF Keeps, ThreadState
<1>. HIDE DEF t
<1>. QED  BY <1>1, <1>4, <1>5, KeepsMore, PopKeeps DEF Bodies

-----------------------------------------------------------------------------
(* The steps that enter or leave functions.                                *)

LEMMA PrecallFrames ==
  ASSUME CountInv, FrameInv, Precall
  PROVE  FrameInv'
<1>1. mode = "precall" /\ mode' = "run" /\ Top.kind \in {"call", "exec", "resume"}
  BY RunningFacts DEF Precall, InMode
<1>2. PICK lua \in BOOLEAN :
        LET reentry == lua /\ Top.kind = "exec"
            acts == IF reentry THEN cstack ELSE Append(cstack, Kind(IF lua THEN "exec" ELSE "cfun", Depth + 1))
            s == [S EXCEPT !.ci = Append(@, NewFrame(lua, lua /\ ~reentry))]
        IN IF HookSet THEN /\ cstack' = Append(acts, HookAct(Depth + 1, "call"))
                           /\ Update([s EXCEPT !.allowhook = FALSE])
           ELSE cstack' = acts /\ Update(s)
  BY DEF Precall
<1>. DEFINE reentry == lua /\ Top.kind = "exec"
            fresh == lua /\ ~reentry
            b == Kind(IF lua THEN "exec" ELSE "cfun", Depth + 1)
            h == HookAct(Depth + 1, "call")
            acts == IF reentry THEN cstack ELSE Append(cstack, b)
            s == [S EXCEPT !.ci = Append(@, NewFrame(lua, fresh))]
            t == [s EXCEPT !.allowhook = FALSE]
<1>3. (cstack' = Append(acts, h) /\ Update(t)) \/ (cstack' = acts /\ Update(s))
  BY <1>2
<1>4. Depth + 1 \in Nat /\ Depth + 1 > 1 /\ Depth \in Nat
  BY FrameInvFacts
<1>5. b \in Activation /\ b.kind = (IF lua THEN "exec" ELSE "cfun") /\ b.th = Running /\ b.ci = Depth + 1
  BY <1>4, BodyAct DEF Bodies
<1>6. h \in Activation /\ h.kind = "hook" /\ h.th = Running /\ h.ci = Depth + 1
  BY <1>4, RunningFacts DEF HookAct, Activation, ThreadState
<1>7. fresh \in BOOLEAN
  OBVIOUS
<1>8. s \in ThreadState /\ s.ci = Append(S.ci, NewFrame(lua, fresh))
  BY <1>7, NewFrameOK, RunningFacts DEF ThreadOK
<1>. HIDE DEF b, h, s, fresh
<1>9. t \in ThreadState /\ t.ci = s.ci
  BY <1>8 DEF ThreadState
<1>. HIDE DEF t
<1>10. ASSUME NEW u \in ThreadState, u.ci = s.ci
       PROVE  /\ FramesOK([state EXCEPT ![Running] = u], acts)
              /\ acts \in Seq(Activation) /\ Len(acts) > 0 /\ Last(acts).th = Running
              /\ Len(u.ci) = Depth + 1
  <2>1. /\ FrameOK(u.ci) /\ Len(u.ci) = Depth + 1 /\ Alike(S.ci, u.ci, Depth)
        /\ Depth + 1 \in LuaFrames(u.ci) <=> lua
        /\ Depth + 1 \in FreshFrames(u.ci) <=> fresh
    BY <1>7, <1>8, <1>10, NewFrameFacts
  <2>2. Last(cstack).th = Running /\ Top = Last(cstack) /\ state[Running].ci = S.ci /\ Len(S.ci) = Depth
    BY FrameInvFacts, RunningFacts DEF S
  <2>3. StackOK(cstack) /\ FramesOK(state, cstack) /\ state \in [Threads -> ThreadState]
    BY FrameInvFacts, RunningFacts
  <2>4. CASE reentry
    <3>1. acts = cstack /\ Last(cstack).kind = "exec" /\ ~fresh /\ lua
      BY <2>2, <2>4 DEF fresh
    <3>2. /\ Len(u.ci) = Len(state[Last(cstack).th].ci) + 1
          /\ Alike(state[Last(cstack).th].ci, u.ci, Len(state[Last(cstack).th].ci))
      BY <2>1, <2>2
    <3>3. Len(u.ci) \in LuaFrames(u.ci) /\ Len(u.ci) \notin FreshFrames(u.ci)
      BY <2>1, <3>1
    <3>4. FramesOK([state EXCEPT ![Last(cstack).th] = u], cstack)
      BY <1>10, <2>1, <2>3, <3>1, <3>2, <3>3, GrowExec
    <3>. QED  BY <2>1, <2>2, <3>1, <3>4, RunningFacts
  <2>5. CASE ~reentry
    <3>1. acts = Append(cstack, b) /\ b.kind \in Bodies /\ fresh = lua
      BY <1>5, <2>5 DEF Bodies, fresh
    <3>2. b.th = Last(cstack).th /\ Len(u.ci) = b.ci /\ b.ci > 1 /\ Last(cstack).kind \in {"call", "exec", "resume"}
      BY <1>1, <1>4, <1>5, <2>1, <2>2
    <3>3. b.ci = Len(state[b.th].ci) + 1 /\ Alike(state[b.th].ci, u.ci, Len(state[b.th].ci))
      BY <1>5, <2>1, <2>2
    <3>4. /\ b.kind = "cfun" => b.ci \notin LuaFrames(u.ci)
          /\ b.kind = "exec" => b.ci \in LuaFrames(u.ci) /\ b.ci \in FreshFrames(u.ci)
      BY <1>5, <2>1, <3>1
    <3>5. FramesOK([state EXCEPT ![b.th] = u], Append(cstack, b))
      BY <1>5, <1>10, <2>1, <2>3, <3>1, <3>2, <3>3, <3>4, PushBody
    <3>6. Append(cstack, b) \in Seq(Activation) /\ Len(Append(cstack, b)) > 0 /\ Last(Append(cstack, b)) = b
      BY <1>5, Pushed, RunningFacts DEF Last
    <3>. QED  BY <1>5, <2>1, <3>1, <3>5, <3>6
  <2>. QED  BY <2>4, <2>5
<1>. HIDE DEF acts
<1>11. CASE cstack' = Append(acts, h) /\ Update(t)
  <2>. DEFINE st == [state EXCEPT ![Running] = t]
  <2>1. FramesOK(st, acts) /\ acts \in Seq(Activation) /\ Len(acts) > 0 /\ Last(acts).th = Running
        /\ Len(t.ci) = Depth + 1
    BY <1>9, <1>10
  <2>2. st \in [Threads -> ThreadState] /\ st[Running] = t
    BY <1>9, RunningFacts
  <2>3. h.kind \notin Bodies \union {"host", "resume"} /\ h.th = Last(acts).th /\ h.ci = Len(st[h.th].ci) /\ h.ci > 1
    BY <1>4, <1>6, <2>1, <2>2 DEF Bodies
  <2>4. state' = st
    BY <1>11 DEF Update
  <2>. HIDE DEF st
  <2>5. FramesOK(st, Append(acts, h))
    BY <1>6, <2>1, <2>2, <2>3, PushFrame
  <2>6. FramesOK(state', cstack')
    BY <1>11, <2>4, <2>5
  <2>. QED  BY <1>1, <2>6, NotReturning
<1>12. CASE cstack' = acts /\ Update(s)
  <2>1. FramesOK([state EXCEPT ![Running] = s], acts)
    BY <1>8, <1>10
  <2>2. FramesOK(state', cstack')
    BY <1>12, <2>1 DEF Update
  <2>. QED  BY <1>1, <2>2, NotReturning
<1>. QED  BY <1>3, <1>11, <1>12

LEMMA PoscallFrames ==
  ASSUME CountInv, FrameInv, Poscall
  PROVE  FrameInv'
<1>. DEFINE s == CutFrames(S, Depth - 1)  n == Len(cstack)
<1>1. mode \in {"ret", "poscall"} /\ mode' = "run" /\ Update(s)
      /\ cstack' = (IF Top.kind = "cfun" \/ (Top.kind = "exec" /\ CurrentCI.fresh) THEN Pop ELSE cstack)
  BY DEF Poscall
<1>2. Depth > 1 /\ Depth - 1 \in 1 .. Depth /\ Depth \in Nat /\ Depth = Len(S.ci) /\ Top.ci \in Nat \ {0}
      /\ Top.ci <= Depth
  BY <1>1, FrameInvFacts DEF FrameInv
<1>3. Top.kind \in Bodies \union {"resume"}
  BY <1>1, RunningFacts DEF InMode
<1>4. s \in ThreadState /\ s.ci = SubSeq(S.ci, 1, Depth - 1)
  <2>1. Depth - 1 \in 0 .. Len(S.ci)
    BY <1>2
  <2>. QED  BY <2>1, CutFramesOK, RunningFacts DEF ThreadOK
<1>5. state' = [state EXCEPT ![Running] = s]
  BY <1>1 DEF Update
<1>. HIDE DEF s
<1>6. FrameOK(s.ci) /\ Len(s.ci) = Depth - 1 /\ Alike(S.ci, s.ci, Depth - 1)
  BY <1>2, <1>4, CutFramesFacts
<1>7. n \in 1 .. n /\ cstack[n].th = Running /\ Top = cstack[n] /\ n \in Nat \ {0}
  BY FrameInvFacts, RunningFacts
<1>8. Place(Top, S.ci, Depth)
  BY FrameInvFacts
<1>9. CASE Top.kind = "cfun" \/ (Top.kind = "exec" /\ CurrentCI.fresh)
  <2>1. Top.ci = Depth
    <3>1. CASE Top.kind = "cfun"
      BY <1>8, <3>1 DEF Place
    <3>2. CASE Top.kind = "exec" /\ CurrentCI.fresh
      <4>1. Depth \in FreshFrames(S.ci)
        BY <1>2, <3>2, RunningFacts DEF FreshFrames, CurrentCI
      <4>2. Depth \in Top.ci .. Depth
        BY <1>2
      <4>3. (Top.ci .. Depth) \intersect FreshFrames(S.ci) = {Top.ci}
        BY <1>8, <3>2 DEF Place
      <4>. QED  BY <4>1, <4>2, <4>3
    <3>. QED  BY <1>9, <3>1, <3>2
  <2>2. n > 1
    <3>1. n = 1 => Top = Host
      BY <1>7, RunningFacts DEF StackOK
    <3>2. Host.kind = "host"
      BY DEF Host
    <3>3. Top.kind /= "host"
      BY <1>9
    <3>4. n /= 1
      BY <3>1, <3>2, <3>3
    <3>. QED  BY <1>7, <3>4, SMTT(40)
  <2>. DEFINE m == n - 1
  <2>3. m \in 1 .. n /\ m + 1 = n /\ m /= n /\ n \in 2 .. n
    BY <1>7, <2>2
  <2>4. cstack[m].th = Running
    <3>1. Made(cstack[m], cstack[n])
      BY <2>3, RunningFacts DEF StackOK
    <3>. QED  BY <1>7, <1>9, <3>1 DEF Made
  <2>5. Extent(state, cstack, m) = Depth - 1
    <3>1. cstack[m + 1] = Top /\ Top.kind \in Bodies /\ Top.kind /= "resume"
      BY <1>7, <1>9, <2>3, ZenonT(60) DEF Bodies
    <3>2. Extent(state, cstack, m) = Top.ci - 1
      BY <2>3, <3>1, NextExtent
    <3>. QED  BY <2>1, <3>2, SMTT(40)
  <2>6. cstack' = SubSeq(cstack, 1, m)
    BY <1>1, <1>9 DEF Pop
  <2>. HIDE DEF m, n
  <2>7. m \in 1 .. Len(cstack)
    BY <2>3 DEF n
  <2>8. Len(s.ci) = Extent(state, cstack, m) /\ Alike(S.ci, s.ci, Len(s.ci))
    BY <1>6, <2>5
  <2>9. FramesOK([state EXCEPT ![Running] = s], SubSeq(cstack, 1, m))
    BY <1>4, <1>6, <2>4, <2>7, <2>8, CutAt
  <2>. QED  BY <1>1, <1>5, <2>6, <2>9, NotReturning
<1>10. CASE ~(Top.kind = "cfun" \/ (Top.kind = "exec" /\ CurrentCI.fresh))
  <2>1. cstack' = cstack /\ (Top.kind = "resume" \/ (Top.kind = "exec" /\ ~CurrentCI.fresh))
    BY <1>1, <1>3, <1>10 DEF Bodies
  <2>2. Top.ci <= Depth - 1
    <3>1. CASE Top.kind = "resume"
      <4>1. Top.ci = 1
        BY <1>7, <3>1, FrameInvFacts DEF InOrder
      <4>. QED  BY <1>2, <4>1
    <3>2. CASE Top.kind = "exec" /\ ~CurrentCI.fresh
      <4>1. Depth \notin FreshFrames(S.ci)
        BY <1>2, <3>2, RunningFacts DEF FreshFrames, CurrentCI
      <4>2. (Top.ci .. Depth) \intersect FreshFrames(S.ci) = {Top.ci}
        BY <1>8, <3>2 DEF Place
      <4>3. Top.ci \in FreshFrames(S.ci)
        BY <4>2
      <4>4. Top.ci /= Depth
        BY <4>1, <4>3
      <4>. QED  BY <1>2, <4>4
    <3>. QED  BY <2>1, <3>1, <3>2
  <2>3. Extent(state, cstack, n) = Depth
    <3>1. Extent(state, cstack, n) = Len(Ci(state, cstack, n))
      BY LastExtent
    <3>. QED  BY <1>2, <3>1, FrameInvFacts
  <2>4. /\ cstack[n].th = Last(cstack).th /\ cstack[n].ci <= Len(s.ci)
        /\ cstack[n].kind \notin {"exec", "resume"} => Len(s.ci) = cstack[n].ci
    BY <1>6, <1>7, <2>1, <2>2, FrameInvFacts
  <2>5. Alike(state[cstack[n].th].ci, s.ci, Len(s.ci)) /\ Len(s.ci) <= Extent(state, cstack, n)
    BY <1>2, <1>6, <1>7, <2>3 DEF S
  <2>. HIDE DEF n
  <2>6. FramesOK([state EXCEPT ![cstack[n].th] = s], SubSeq(cstack, 1, n))
    <3>1. n \in 1 .. Len(cstack) /\ FramesOK(state, cstack) /\ StackOK(cstack) /\ state \in [Threads -> ThreadState]
      BY <1>7, FrameInvFacts, RunningFacts DEF n
    <3>. QED  BY <1>4, <1>6, <2>4, <2>5, <3>1, CutFrame
  <2>7. SubSeq(cstack, 1, n) = cstack
    BY RunningFacts DEF n
  <2>8. FramesOK(state', cstack')
    BY <1>5, <1>7, <2>1, <2>6, <2>7
  <2>. QED  BY <1>1, <2>8, NotReturning
<1>. QED  BY <1>9, <1>10

-----------------------------------------------------------------------------
(* Errors.                                                                 *)

LEMMA CatchInPcallFrames ==
  ASSUME CountInv, FrameInv, CatchInPcall
  PROVE  FrameInv'
<1>. DEFINE c == Catcher
            p == cstack[c]
            caller == cstack[c - 1]
            s1 == CutFrames(S, p.ci)
            s2 == [s1 EXCEPT !.allowhook = p.oah, !.nny = p.nny, !.nCcalls = p.ncc,
                             !.errfunc = p.oerr, !.armed = @ /\ caller.kind /= "host"]
            s == ShrinkStack(s2)
            t == [s EXCEPT !.allowhook = caller.oah]
<1>1. Thrown /\ p.kind = "pcall"
  BY DEF CatchInPcall
<1>2. c \in 2 .. Len(cstack) /\ c - 1 \in 1 .. Len(cstack) /\ p \in Activation /\ caller \in Activation
      /\ p.th = Running /\ Made(caller, p) /\ c \in 1 .. Len(cstack) /\ Len(cstack) \in Nat /\ c \in Nat
  BY <1>1, ThrownFacts, RunningFacts
<1>3. caller.th = Running
  BY <1>1, <1>2 DEF Made
<1>4. p.oah \in BOOLEAN /\ p.nny \in Int /\ p.ncc \in Int /\ p.oerr \in Nat /\ p.ci \in Nat
  BY <1>1, <1>2 DEF Activation
<1>5. p.ci \in 1 .. Depth /\ p.ci \in 0 .. Len(S.ci)
  <2>1. p.ci \in 1 .. Len(S.ci)
    BY <1>2, FrameInvFacts DEF FramesExist, S
  <2>. QED  BY <2>1, FrameInvFacts
<1>6. ThreadOK(s1) /\ Counters(s1, S) /\ s1.ci = SubSeq(S.ci, 1, p.ci)
  BY <1>5, CutFramesOK, RunningFacts
<1>7. s2 \in ThreadState /\ s2.ci = s1.ci
  <2>1. s1 \in ThreadState
    BY <1>6 DEF ThreadOK
  <2>. HIDE DEF s1, p
  <2>2. (s1.armed /\ caller.kind /= "host") \in BOOLEAN
    OBVIOUS
  <2>. QED  BY <1>4, <2>1, <2>2 DEF ThreadState
<1>8. ThreadOK(s2)
  BY <1>6, <1>7, ThreadUpdate
<1>9. s \in ThreadState /\ s.ci = SubSeq(S.ci, 1, p.ci)
  BY <1>6, <1>7, <1>8, ShrinkStackOK DEF ThreadOK
<1>10. IF caller.kind = "gctm"
       THEN /\ cstack' = SubSeq(SubSeq(cstack, 1, c - 1), 1, Len(SubSeq(cstack, 1, c - 1)) - 1)
            /\ Update(t)
            /\ mode' = IF mode = "ERRRUN" THEN "ERRGCMM" ELSE mode
       ELSE cstack' = SubSeq(cstack, 1, c - 1) /\ Update(s) /\ mode' = "run"
  BY DEF CatchInPcall
<1>. HIDE DEF s1, s2, s
<1>11. ASSUME NEW u \in ThreadState, u.ci = s.ci
       PROVE  FrameOK(u.ci) /\ Len(u.ci) = p.ci /\ Alike(S.ci, u.ci, p.ci)
  BY <1>5, <1>9, <1>11, CutFramesFacts, ZenonT(60)
<1>12. Extent(state, cstack, c - 1) = p.ci
  <2>1. c - 1 /= Len(cstack) /\ c - 1 + 1 = c
    BY <1>2
  <2>. QED  BY <1>1, <2>1, NextExtent DEF Bodies
<1>. HIDE DEF c
<1>13. CASE caller.kind /= "gctm"
  <2>1. cstack' = SubSeq(cstack, 1, c - 1) /\ Update(s) /\ mode' = "run"
    BY <1>10, <1>13
  <2>2. FrameOK(s.ci) /\ Len(s.ci) = Extent(state, cstack, c - 1) /\ Alike(S.ci, s.ci, Len(s.ci))
    BY <1>9, <1>11, <1>12
  <2>3. FramesOK([state EXCEPT ![Running] = s], SubSeq(cstack, 1, c - 1))
    BY <1>2, <1>3, <1>9, <2>2, CutAt
  <2>. QED  BY <2>1, <2>3, NotReturning DEF Update
<1>14. CASE caller.kind = "gctm"
  <2>1. c - 1 \in 2 .. Len(cstack) /\ c - 1 - 1 = c - 2 /\ c - 2 \in 1 .. Len(cstack) /\ c - 2 /= Len(cstack)
        /\ c - 2 + 1 = c - 1
    <3>1. cstack[1].kind = "host"
      BY RunningFacts DEF StackOK, Host
    <3>2. c /= 2
      BY <1>14, <3>1
    <3>. QED  BY <1>2, <3>2
  <2>2. Made(cstack[c - 2], cstack[c - 1])
    BY <2>1, RunningFacts DEF StackOK
  <2>3. cstack[c - 2].th = Running
    BY <1>3, <1>14, <2>2 DEF Made
  <2>4. Extent(state, cstack, c - 2) = p.ci
    <3>1. Extent(state, cstack, c - 2) = caller.ci
      BY <1>14, <2>1, NextExtent DEF Bodies
    <3>2. Place(caller, Ci(state, cstack, c - 1), Extent(state, cstack, c - 1))
      BY <1>2, FrameFacts, FrameInvFacts, RunningFacts
    <3>3. Extent(state, cstack, c - 1) = caller.ci
      BY <1>14, <3>2 DEF Place
    <3>. QED  BY <1>12, <3>1, <3>3
  <2>5. cstack' = SubSeq(cstack, 1, c - 2)
    <3>1. c - 1 \in 0 .. Len(cstack) /\ c - 2 \in 0 .. Len(cstack)
      BY <1>2, <2>1
    <3>2. Len(SubSeq(cstack, 1, c - 1)) = c - 1
      BY <3>1, Cut, RunningFacts
    <3>3. SubSeq(SubSeq(cstack, 1, c - 1), 1, c - 2) = SubSeq(cstack, 1, c - 2)
      BY <2>1, <3>1, RunningFacts
    <3>. QED  BY <1>10, <1>14, <2>1, <3>2, <3>3
  <2>6. Update(t) /\ mode' \notin {"ret", "poscall"}
    BY <1>1, <1>10, <1>14 DEF Thrown, ErrorStatus
  <2>7. caller.oah \in BOOLEAN
    BY <1>2, <1>14 DEF Activation
  <2>8. t \in ThreadState /\ t.ci = s.ci
    BY <1>9, <2>7 DEF ThreadState
  <2>. HIDE DEF t
  <2>9. FrameOK(t.ci) /\ Len(t.ci) = Extent(state, cstack, c - 2) /\ Alike(S.ci, t.ci, Len(t.ci))
    BY <1>11, <2>4, <2>8
  <2>10. FramesOK([state EXCEPT ![Running] = t], SubSeq(cstack, 1, c - 2))
    BY <2>1, <2>3, <2>8, <2>9, CutAt
  <2>. QED  BY <2>5, <2>6, <2>10, NotReturning DEF Update
<1>. QED  BY <1>13, <1>14

(* A function goes on, after the resume of its thread.                     *)
LEMMA ContinueFrames ==
  ASSUME CountInv, FrameInv, NEW r \in 1 .. Len(cstack), cstack[r].kind = "resume", cstack[r].th = Running,
         NEW t \in ThreadState, FrameOK(t.ci), Len(t.ci) > 1,
         NEW b \in Activation, b.kind \in Bodies, b.th = Running, b.ci = Len(t.ci),
         b.kind = "cfun" => b.ci \notin LuaFrames(t.ci),
         b.kind = "exec" => b.ci \in LuaFrames(t.ci) /\ b.ci \in FreshFrames(t.ci)
  PROVE  FramesOK([state EXCEPT ![Running] = t], Append(SubSeq(cstack, 1, r), b))
<1>. DEFINE cs == SubSeq(cstack, 1, r)  st == [state EXCEPT ![Running] = t]
<1>1. StackOK(cs)
  BY StackCut, RunningFacts
<1>2. Len(cs) = r /\ \A j \in 1 .. r : cs[j] = cstack[j]
  <2>1. r \in 0 .. Len(cstack)
    OBVIOUS
  <2>. QED  BY <2>1, Cut, RunningFacts
<1>3. Last(cs) = cstack[r]
  BY <1>2 DEF Last
<1>4. cstack[r].ci = 1 /\ Len(t.ci) \in Nat
  BY FrameInvFacts DEF InOrder, FrameInv, FramesOK, ThreadState
<1>5. FramesOK(st, cs)
  <2>1. cstack[r].th = Last(cstack).th /\ cstack[r].ci <= Len(t.ci) /\ Running = cstack[r].th
    BY <1>4, FrameInvFacts
  <2>2. /\ cstack[r].kind \notin {"exec", "resume"} => Len(t.ci) = cstack[r].ci
        /\ cstack[r].kind /= "resume" =>
             Alike(state[cstack[r].th].ci, t.ci, Len(t.ci)) /\ Len(t.ci) <= Extent(state, cstack, r)
    OBVIOUS
  <2>. HIDE DEF cs
  <2>3. FramesOK([state EXCEPT ![cstack[r].th] = t], SubSeq(cstack, 1, r))
    BY <2>1, <2>2, CutFrame, FrameInvFacts, RunningFacts
  <2>. QED  BY <2>1, <2>3 DEF cs
<1>6. st \in [Threads -> ThreadState] /\ st = [st EXCEPT ![Running] = t]
  BY RunningFacts
<1>. HIDE DEF cs, st
<1>7. b.th = Last(cs).th /\ Last(cs).kind = "resume" /\ b.ci > 1
  BY <1>3
<1>8. FramesOK([st EXCEPT ![b.th] = t], Append(cs, b))
  BY <1>1, <1>5, <1>6, <1>7, PushBody
<1>. QED  BY <1>6, <1>8 DEF cs, st

LEMMA RecoverFrames ==
  ASSUME CountInv, FrameInv, Recover
  PROVE  FrameInv'
<1>. DEFINE c == Catcher
            i == Max(RecoverPoints)
            s1 == CutFrames(S, i)
            s2 == [s1 EXCEPT !.allowhook = S.ci[i].oah, !.nny = 0, !.nCcalls = cstack[c].ncc]
            s == ShrinkStack(s2)
            t == FinishCcall(s, i)
            b == Kind("cfun", i)
<1>1. Thrown /\ mode /= "YIELD" /\ cstack[c].kind = "resume" /\ Update(t)
      /\ cstack' = Append(SubSeq(cstack, 1, c), b) /\ mode' = "run" /\ RecoverPoints /= {}
  BY DEF Recover, RecoverAt
<1>2. i \in 1 .. Depth /\ S.ci[i].yp
  <2>1. RecoverPoints \in SUBSET (1 .. Depth)
    BY DEF RecoverPoints
  <2>2. i \in RecoverPoints
    BY <1>1, <2>1, LargestMember, RunningFacts
  <2>. QED  BY <2>2 DEF RecoverPoints
<1>. HIDE DEF i
<1>3. i \in DOMAIN S.ci /\ i \in 0 .. Len(S.ci) /\ S.ci[i] \in Frame /\ i > 1 /\ i \notin LuaFrames(S.ci)
  <2>1. i \in DOMAIN S.ci /\ i \in 0 .. Len(S.ci)
    BY <1>2, RunningFacts DEF Depth
  <2>2. i \in Suspended(S.ci)
    BY <1>2, <2>1 DEF Suspended
  <2>. QED  BY <2>1, <2>2, FrameInvFacts, RunningFacts DEF FrameOK
<1>4. c \in 1 .. Len(cstack) /\ cstack[c].th = Running /\ cstack[c].ncc \in Int
  <2>1. c \in 1 .. Len(cstack) /\ cstack[c].th = Running /\ cstack[c] \in Activation
    BY <1>1, ThrownFacts
  <2>. QED  BY <1>1, <2>1 DEF Activation
<1>. HIDE DEF c
<1>5. ThreadOK(s1) /\ s1.ci = SubSeq(S.ci, 1, i)
  BY <1>3, CutFramesOK, RunningFacts
<1>6. s2.ci = s1.ci /\ ThreadOK(s2)
  <2>. DEFINE e == cstack[c].ncc  o == S.ci[i].oah  z == 0
  <2>1. e \in Int /\ z \in Int
    BY <1>4
  <2>2. o \in BOOLEAN
    BY <1>3 DEF Frame
  <2>3. s2 = Restored(s1, o, z, e)
    BY DEF Restored
  <2>. HIDE DEF e, o, z, s1, s2
  <2>. QED  BY <1>5, <2>1, <2>2, <2>3, RestoreOK
<1>7. ThreadOK(s) /\ s.ci = SubSeq(S.ci, 1, i)
  BY <1>5, <1>6, ShrinkStackOK
<1>. HIDE DEF s1, s2, s
<1>8. FrameOK(s.ci) /\ Len(s.ci) = i /\ Alike(S.ci, s.ci, i)
  BY <1>2, <1>7, CutFramesFacts
<1>9. i \in DOMAIN s.ci /\ i \in 1 .. i
  BY <1>2, <1>7, RunningFacts DEF Depth
<1>10. t \in ThreadState
  BY <1>7, <1>9, FinishCcallOK DEF ThreadOK
<1>11. FrameOK(t.ci) /\ Len(t.ci) = i /\ i \notin LuaFrames(t.ci)
  <2>1. i \notin LuaFrames(s.ci)
    BY <1>3, <1>8, <1>9 DEF Alike
  <2>. QED  BY <1>7, <1>8, <1>9, <2>1, FinishFacts
<1>. HIDE DEF t
<1>12. b \in Activation /\ b.kind = "cfun" /\ b.th = Running /\ b.ci = i
  BY <1>2, BodyAct DEF Bodies
<1>. HIDE DEF b
<1>13. FramesOK([state EXCEPT ![Running] = t], Append(SubSeq(cstack, 1, c), b))
  BY <1>1, <1>3, <1>4, <1>10, <1>11, <1>12, ContinueFrames DEF Bodies
<1>. QED  BY <1>1, <1>13, NotReturning DEF Update

LEMMA UnrollFrames ==
  ASSUME CountInv, FrameInv, Unroll
  PROVE  FrameInv'
<1>. DEFINE n == Len(cstack)
<1>1. mode' = "run" /\ Top.kind = "resume" /\ Depth > 1 /\ Depth \in DOMAIN S.ci /\ Depth = Len(S.ci)
      /\ n \in 1 .. Len(cstack) /\ cstack[n].kind = "resume" /\ cstack[n].th = Running /\ Depth \in Nat
  BY FrameInvFacts, RunningFacts DEF Unroll, Body
<1>2. SubSeq(cstack, 1, n) = cstack
  BY RunningFacts
<1>. HIDE DEF n
<1>3. CASE IsLua
  <2>. DEFINE t == Entered(S, Depth)  b == Kind("exec", Depth)
  <2>1. cstack' = Append(cstack, b) /\ state' = [state EXCEPT ![Running] = t]
    BY <1>3 DEF Unroll, Update, Entered
  <2>2. t \in ThreadState
    BY FreshOK, RunningFacts DEF ThreadOK, Entered
  <2>3. FrameOK(t.ci) /\ Len(t.ci) = Depth /\ LuaFrames(t.ci) = LuaFrames(S.ci) /\ Depth \in FreshFrames(t.ci)
    BY <1>1, FreshFacts, RunningFacts, FrameInvFacts
  <2>4. Depth \in LuaFrames(S.ci)
    BY <1>1, <1>3 DEF LuaFrames, IsLua, CurrentCI
  <2>5. b \in Activation /\ b.kind = "exec" /\ b.th = Running /\ b.ci = Depth
    BY <1>1, BodyAct DEF Bodies
  <2>. HIDE DEF t, b
  <2>6. FramesOK([state EXCEPT ![Running] = t], Append(SubSeq(cstack, 1, n), b))
    BY <1>1, <2>2, <2>3, <2>4, <2>5, ContinueFrames DEF Bodies
  <2>. QED  BY <1>1, <1>2, <2>1, <2>6, NotReturning
<1>4. CASE ~IsLua
  <2>. DEFINE t == FinishCcall(S, Depth)  b == Kind("cfun", Depth)
  <2>1. cstack' = Append(cstack, b) /\ state' = [state EXCEPT ![Running] = t]
    BY <1>4 DEF Unroll, Update
  <2>2. t \in ThreadState
    BY <1>1, FinishCcallOK, RunningFacts DEF ThreadOK
  <2>3. FrameOK(t.ci) /\ Len(t.ci) = Depth /\ LuaFrames(t.ci) = LuaFrames(S.ci)
    BY <1>1, FinishFacts, RunningFacts, FrameInvFacts
  <2>4. Depth \notin LuaFrames(S.ci)
    BY <1>1, <1>4 DEF LuaFrames, IsLua, CurrentCI
  <2>5. b \in Activation /\ b.kind = "cfun" /\ b.th = Running /\ b.ci = Depth
    BY <1>1, BodyAct DEF Bodies
  <2>. HIDE DEF t, b
  <2>6. FramesOK([state EXCEPT ![Running] = t], Append(SubSeq(cstack, 1, n), b))
    BY <1>1, <2>2, <2>3, <2>4, <2>5, ContinueFrames DEF Bodies
  <2>. QED  BY <1>1, <1>2, <2>1, <2>6, NotReturning
<1>. QED  BY <1>3, <1>4

-----------------------------------------------------------------------------
(* Coroutines.                                                             *)

LEMMA SuspendedFrames ==
  ASSUME CountInv, FrameInv, S.status = "YIELD"
  PROVE  Len(S.ci) > 1
<1>1. Top.kind \in Bodies
  BY RunningFacts DEF InMode
<1>. QED  BY <1>1, BodyFrames

LEMMA LeaveFrames ==
  ASSUME CountInv, FrameInv, NEW r \in 1 .. Len(cstack), cstack[r].kind = "resume", cstack[r].th = Running,
         NEW s \in ThreadState, s.ci = S.ci, s.status = "YIELD" => Len(S.ci) > 1, ResumeReturns(s, r)
  PROVE  FrameInv'
<1>. DEFINE t == [s EXCEPT !.nny = cstack[r].oldnny, !.nCcalls = cstack[r].ncc - 1]
            ds == SubSeq(cstack, 1, r - 1)
<1>1. Update(t) /\ cstack' = ds /\ mode' = "run"
  BY DEF ResumeReturns
<1>2. cstack[r].oldnny \in Int /\ cstack[r].ncc \in Int
  <2>1. cstack[r] \in Activation
    BY RunningFacts
  <2>. QED  BY <2>1 DEF Activation
<1>3. t \in ThreadState /\ t.ci = s.ci /\ t.status = s.status
  <2>. DEFINE e == cstack[r].ncc - 1  o == cstack[r].oldnny
  <2>1. e \in Int /\ o \in Int
    BY <1>2
  <2>2. t = Left(s, o, e)
    BY DEF Left
  <2>. HIDE DEF e, o, t
  <2>. QED  BY <2>1, <2>2, LeaveOK
<1>. HIDE DEF t
<1>4. r \in 2 .. Len(cstack) /\ r - 1 \in 1 .. Len(cstack)
  <2>1. r /= 1
    BY RunningFacts DEF StackOK, Host
  <2>. QED  BY <2>1, RunningFacts
<1>5. StackOK(ds)
  BY <1>4, StackCut, RunningFacts
<1>6. FramesOK(state, ds) /\ ~Runs(ds, Running)
  <2>1. state[cstack[r].th].status = "YIELD" => Len(state[cstack[r].th].ci) > 1
    BY SuspendedFrames DEF S
  <2>2. cstack[r].th = Last(cstack).th
    BY FrameInvFacts
  <2>. QED  BY <1>4, <2>1, <2>2, PopResume, FrameInvFacts, RunningFacts
<1>. HIDE DEF ds
<1>7. FrameOK(t.ci) /\ (t.status = "YIELD" => Len(t.ci) > 1)
  BY <1>3, FrameInvFacts
<1>8. FramesOK([state EXCEPT ![Running] = t], ds)
  BY <1>3, <1>5, <1>6, <1>7, IdleFrame, RunningFacts
<1>. QED  BY <1>1, <1>8, NotReturning DEF Update

LEMMA DieFrames ==
  ASSUME CountInv, FrameInv, Die
  PROVE  FrameInv'
<1>. DEFINE s == [S EXCEPT !.status = mode]
<1>1. Thrown /\ mode /= "YIELD" /\ cstack[Catcher].kind = "resume" /\ ResumeReturns(s, Catcher)
  BY DEF Die
<1>2. mode \in ErrorStatus
  BY <1>1 DEF Thrown
<1>3. s \in ThreadState /\ s.ci = S.ci /\ s.status = mode
  BY <1>2, RunningFacts DEF ThreadState
<1>. HIDE DEF s
<1>4. Catcher \in 1 .. Len(cstack) /\ cstack[Catcher].th = Running
  BY <1>1, ThrownFacts
<1>. QED  BY <1>1, <1>3, <1>4, LeaveFrames

LEMMA SuspendFrames ==
  ASSUME CountInv, FrameInv, Suspend
  PROVE  FrameInv'
<1>1. Thrown /\ cstack[Catcher].kind = "resume" /\ ResumeReturns(S, Catcher)
  BY DEF Suspend, Thrown
<1>2. Catcher \in 1 .. Len(cstack) /\ cstack[Catcher].th = Running
  BY <1>1, ThrownFacts
<1>. QED  BY <1>1, <1>2, LeaveFrames, SuspendedFrames, RunningFacts

LEMMA FinishFrames ==
  ASSUME CountInv, FrameInv, Finish
  PROVE  FrameInv'
<1>1. Top.kind = "resume" /\ ResumeReturns(S, Len(cstack))
  BY DEF Finish, Body
<1>2. Len(cstack) \in 1 .. Len(cstack) /\ cstack[Len(cstack)].kind = "resume" /\ cstack[Len(cstack)].th = Running
  BY <1>1, RunningFacts
<1>. QED  BY <1>1, <1>2, LeaveFrames, SuspendedFrames, RunningFacts

(* A thread starts, or goes on.                                            *)
LEMMA StartFrames ==
  ASSUME CountInv, FrameInv, Top.kind = "cfun", NEW L \in Coroutines, ~Runs(cstack, L),
         NEW t \in ThreadState, FrameOK(t.ci), t.status = "OK",
         NEW a \in Activation, a.kind = "resume", a.th = L, a.ci = 1, a.ncc = S.nCcalls + 1, a.oldnny = 1
  PROVE  /\ FramesOK([state EXCEPT ![L] = t], Append(cstack, a))
         /\ \A b \in Activation :
              /\ b.kind \in Bodies /\ b.th = L /\ b.ci = Len(t.ci) /\ b.ci > 1
              /\ b.kind = "cfun" => b.ci \notin LuaFrames(t.ci)
              /\ b.kind = "exec" => b.ci \in LuaFrames(t.ci) /\ b.ci \in FreshFrames(t.ci)
              => FramesOK([state EXCEPT ![L] = t], Append(Append(cstack, a), b))
<1>. DEFINE st == [state EXCEPT ![L] = t]  cs == Append(cstack, a)
<1>0. L \in Threads
  BY DEF Threads
<1>1. st \in [Threads -> ThreadState] /\ st = [st EXCEPT ![L] = t]
  BY <1>0, RunningFacts
<1>2. FramesOK(st, cstack)
  BY <1>0, IdleFrame, FrameInvFacts, RunningFacts
<1>3. FramesOK(st, cs)
  <2>1. a.kind = "resume" /\ a.ci = 1 /\ ~Runs(cstack, a.th)
    OBVIOUS
  <2>. HIDE DEF st
  <2>. QED  BY <1>1, <1>2, <2>1, PushResume, RunningFacts
<1>4. StackOK(cs) /\ Last(cs) = a
  BY StackResume, RunningFacts
<1>5. ASSUME NEW b \in Activation, b.kind \in Bodies, b.th = L, b.ci = Len(t.ci), b.ci > 1,
             b.kind = "cfun" => b.ci \notin LuaFrames(t.ci),
             b.kind = "exec" => b.ci \in LuaFrames(t.ci) /\ b.ci \in FreshFrames(t.ci)
      PROVE  FramesOK(st, Append(cs, b))
  <2>1. b.th = Last(cs).th /\ Last(cs).kind = "resume"
    BY <1>4, <1>5
  <2>. HIDE DEF st, cs
  <2>2. FramesOK([st EXCEPT ![b.th] = t], Append(cs, b))
    BY <1>1, <1>3, <1>4, <1>5, <2>1, PushBody
  <2>. QED  BY <1>1, <1>5, <2>2
<1>. QED  BY <1>3, <1>5

LEMMA ResumeFrames ==
  ASSUME CountInv, FrameInv, NEW L \in Coroutines, Resume(L)
  PROVE  FrameInv'
<1>. DEFINE n == S.nCcalls + 1
            l == state[L]
            s == Resumed(l, n)
            act == [kind |-> "resume", th |-> L, ci |-> 1, oldnny |-> l.nny, ncc |-> n]
            k == Len(l.ci)
            body(kind) == [kind |-> kind, th |-> L, ci |-> k]
            Go(t, acts, m) == state' = [state EXCEPT ![L] = t] /\ cstack' = cstack \o acts /\ mode' = m
<1>1. mode = "run" /\ Top.kind = "cfun" /\ L /= Running
  BY DEF Resume, Body
<1>2. l.status = "YIELD" \/ (l.status = "OK" /\ l.body)
  BY SMTT(40) DEF Resume
<1>3. \/ /\ state' = [state EXCEPT ![L] = Refused(l, n)] /\ UNCHANGED <<cstack, mode>>
      \/ Go(s, <<act>>, "precall")
      \/ l.status = "YIELD" /\ l.ci[k].lua /\ Go([s EXCEPT !.ci[k].fresh = TRUE], <<act, body("exec")>>, "run")
      \/ l.status = "YIELD" /\ ~l.ci[k].lua /\ Go(s, <<act, body("cfun")>>, "run")
      \/ l.status = "YIELD" /\ Go(s, <<act>>, "ret")
  BY DEF Resume, Resumed, Refused
<1>4. ~Runs(cstack, L)
  BY <1>1, <1>2, NotActive
<1>5. L \in Threads /\ ThreadOK(l) /\ Idle(l) /\ n \in Int /\ k \in Nat /\ l.nny = 1 /\ l \in ThreadState
      /\ FrameOK(l.ci) /\ DOMAIN l.ci = 1 .. k
  <2>1. L \in Threads /\ ThreadOK(l) /\ Idle(l)
    BY <1>4 DEF CountInv, CountOK, OthersOK, Threads
  <2>2. S.nCcalls \in Int
    BY RunningFacts DEF ThreadState
  <2>3. FrameOK(l.ci)
    BY <2>1 DEF FrameInv, FramesOK
  <2>. QED  BY <2>1, <2>2, <2>3 DEF ThreadOK, ThreadState, Idle
<1>6. l.status = "YIELD" => k > 1 /\ k \in DOMAIN l.ci
  BY <1>4, <1>5 DEF FrameInv, FramesOK
<1>7. s \in ThreadState /\ s.status = "OK" /\ s.ci = l.ci /\ ThreadOK(s)
  BY <1>2, <1>5, ResumedOK, ZenonT(60) DEF ThreadOK
<1>8. act \in Activation /\ act.kind = "resume" /\ act.th = L /\ act.ci = 1 /\ act.ncc = n /\ act.oldnny = 1
  BY <1>5 DEF Activation
<1>9. ASSUME NEW kind \in Bodies
      PROVE  body(kind) \in Activation /\ body(kind).kind = kind /\ body(kind).th = L /\ body(kind).ci = k
  BY <1>5, <1>9 DEF Activation, Bodies
<1>10. cstack \o <<act>> = Append(cstack, act)
  BY <1>8, RunningFacts
<1>11. \A kind \in Bodies : cstack \o <<act, body(kind)>> = Append(Append(cstack, act), body(kind))
  <2>1. ASSUME NEW b \in Activation PROVE cstack \o <<act, b>> = Append(Append(cstack, act), b)
    BY <1>8, RunningFacts, Push2
  <2>. QED  BY <1>9, <2>1
<1>. HIDE DEF act, s
<1>12. CASE state' = [state EXCEPT ![L] = Refused(l, n)] /\ UNCHANGED <<cstack, mode>>
  <2>. DEFINE t == Refused(l, n)
  <2>1. ThreadOK(t) /\ t.ci = l.ci /\ t.status = l.status
    BY <1>5, RefusedOK
  <2>2. t \in ThreadState /\ FrameOK(t.ci) /\ (t.status = "YIELD" => Len(t.ci) > 1)
    BY <1>5, <1>6, <2>1 DEF ThreadOK
  <2>3. state' = [state EXCEPT ![L] = t] /\ cstack' = cstack /\ mode' = "run"
    BY <1>1, <1>12
  <2>. HIDE DEF t, l
  <2>4. FramesOK([state EXCEPT ![L] = t], cstack)
    BY <1>4, <1>5, <2>2, IdleFrame, FrameInvFacts, RunningFacts
  <2>. QED  BY <2>3, <2>4, NotReturning
<1>13. FramesOK([state EXCEPT ![L] = s], Append(cstack, act))
  BY <1>1, <1>4, <1>5, <1>7, <1>8, StartFrames
<1>14. CASE Go(s, <<act>>, "precall")
  BY <1>10, <1>13, <1>14, NotReturning
<1>15. CASE l.status = "YIELD" /\ Go(s, <<act>>, "ret")
  <2>1. FramesOK(state', cstack') /\ Running' = L /\ state'[L] = s
    <3>1. Last(Append(cstack, act)) = act
      BY <1>8, Pushed, RunningFacts DEF Last
    <3>. QED  BY <1>5, <1>8, <1>10, <1>13, <1>15, <3>1, RunningFacts DEF Running, Top, Last
  <2>2. Len(S'.ci) > 1
    BY <1>6, <1>7, <1>15, <2>1 DEF S
  <2>. QED  BY <2>1, <2>2 DEF FrameInv
<1>16. CASE l.status = "YIELD" /\ ~l.ci[k].lua /\ Go(s, <<act, body("cfun")>>, "run")
  <2>. DEFINE b == body("cfun")
  <2>1. b \in Activation /\ b.kind \in Bodies /\ b.kind = "cfun" /\ b.th = L /\ b.ci = Len(s.ci) /\ b.ci > 1
    BY <1>6, <1>7, <1>9, <1>16 DEF Bodies
  <2>2. b.ci \notin LuaFrames(s.ci)
    BY <1>6, <1>7, <1>16 DEF LuaFrames
  <2>3. state' = [state EXCEPT ![L] = s] /\ cstack' = Append(Append(cstack, act), b) /\ mode' = "run"
    BY <1>11, <1>16 DEF Bodies
  <2>. HIDE DEF b
  <2>4. FramesOK([state EXCEPT ![L] = s], Append(Append(cstack, act), b))
    BY <1>1, <1>4, <1>5, <1>7, <1>8, <2>1, <2>2, StartFrames
  <2>. QED  BY <2>3, <2>4, NotReturning
<1>17. CASE l.status = "YIELD" /\ l.ci[k].lua /\ Go([s EXCEPT !.ci[k].fresh = TRUE], <<act, body("exec")>>, "run")
  <2>. DEFINE b == body("exec")  t == Entered(s, k)
  <2>1. b \in Activation /\ b.kind \in Bodies /\ b.kind = "exec" /\ b.th = L /\ b.ci = k /\ b.ci > 1
    BY <1>6, <1>9, <1>17 DEF Bodies
  <2>2. state' = [state EXCEPT ![L] = t] /\ cstack' = Append(Append(cstack, act), b) /\ mode' = "run"
    BY <1>11, <1>17 DEF Bodies, Entered
  <2>3. ThreadOK(t) /\ t.status = "OK" /\ t \in ThreadState
    BY <1>7, FreshOK, SMTT(40) DEF Entered, Counters, ThreadOK
  <2>4. FrameOK(t.ci) /\ Len(t.ci) = k /\ LuaFrames(t.ci) = LuaFrames(l.ci) /\ k \in FreshFrames(t.ci)
    BY <1>5, <1>6, <1>7, <1>17, FreshFacts
  <2>5. k \in LuaFrames(t.ci)
    BY <1>6, <1>17, <2>4 DEF LuaFrames
  <2>. HIDE DEF b, t
  <2>6. FramesOK([state EXCEPT ![L] = t], Append(Append(cstack, act), b))
    BY <1>1, <1>4, <1>5, <1>8, <2>1, <2>3, <2>4, <2>5, StartFrames
  <2>. QED  BY <2>2, <2>6, NotReturning
<1>. QED  BY <1>3, <1>12, <1>14, <1>15, <1>16, <1>17

LEMMA CreateFrames ==
  ASSUME CountInv, FrameInv, NEW L \in Coroutines, Create(L)
  PROVE  FrameInv'
<1>. DEFINE t == NewThread(L, S.hook, state[L].ops)
<1>1. state' = [state EXCEPT ![L] = t] /\ cstack' = cstack /\ mode' = "run"
  BY DEF Create, Body
<1>2. ~Runs(cstack, L)
  BY RunningFacts DEF Create, Runs
<1>3. L \in Threads /\ state[L] \in ThreadState /\ S \in ThreadState
  BY RunningFacts DEF Threads
<1>4. t \in ThreadState /\ t.status = "OK"
  <2>1. S.hook \in Hooks /\ state[L].ops \in SUBSET Operations
    BY <1>3 DEF ThreadState
  <2>. QED  BY <2>1 DEF NewThread, NewFrame, Frame, ThreadState, Hooks
<1>5. FrameOK(t.ci)
  BY DEF NewThread, NewFrame, FrameOK, Suspended
<1>. HIDE DEF t
<1>6. FramesOK([state EXCEPT ![L] = t], cstack)
  BY <1>2, <1>3, <1>4, <1>5, IdleFrame, FrameInvFacts, RunningFacts
<1>. QED  BY <1>1, <1>6, NotReturning

-----------------------------------------------------------------------------
LEMMA InitFrames ==
  ASSUME HooksAvoidMetamethods, Init
  PROVE  FrameInv
<1>1. PICK p \in Programs : state = [L \in Threads |-> NewThread(L, "none", p[L])]
  BY DEF Init
<1>2. cstack = <<Host>> /\ mode = "run" /\ CountInv
  BY InitCounts DEF Init
<1>3. ASSUME NEW L \in Threads
      PROVE  FrameOK(state[L].ci) /\ state[L].status = "OK" /\ Len(state[L].ci) = 1
  <2>. DEFINE f == NewFrame(FALSE, FALSE)
  <2>1. state[L].status = "OK" /\ state[L].ci = <<f>>
    BY <1>1 DEF NewThread
  <2>2. ~f.yp
    BY DEF NewFrame
  <2>. HIDE DEF f
  <2>. QED  BY <2>1, <2>2 DEF FrameOK, Suspended
<1>4. Host.kind = "host" /\ Host.th = Main /\ Host.ci = 1 /\ Main \in Threads
  BY DEF Host, Threads
<1>5. Len(cstack) = 1 /\ cstack[1] = Host
  BY <1>2
<1>6. InOrder(cstack, 1) /\ AtFrame(state, cstack, 1) /\ cstack[1].ci \in 1 .. Len(state[cstack[1].th].ci)
  <2>1. Extent(state, cstack, 1) = Len(Ci(state, cstack, 1))
    BY <1>5, LastExtent
  <2>2. Ci(state, cstack, 1) = state[Main].ci
    BY <1>4, <1>5 DEF Ci
  <2>3. Place(Host, state[Main].ci, 1)
    BY <1>4 DEF Place
  <2>4. AtFrame(state, cstack, 1)
    BY <1>3, <1>4, <1>5, <2>1, <2>2, <2>3, AtPlace
  <2>5. InOrder(cstack, 1)
    BY <1>4, <1>5 DEF InOrder, Bodies
  <2>6. cstack[1].ci = 1 /\ Len(state[cstack[1].th].ci) = 1
    BY <1>3, <1>4, <1>5
  <2>. QED  BY <2>4, <2>5, <2>6
<1>7. FramesOK(state, cstack)
  BY <1>3, <1>5, <1>6 DEF FramesOK, FramesExist, Threads
<1>. QED  BY <1>2, <1>7 DEF FrameInv

LEMMA ApiFrames ==
  ASSUME CountInv, FrameInv, ApiCall
  PROVE  FrameInv'
<1>1. CASE \E k \in BOOLEAN : CallK(k)
  BY <1>1, CallKFrames
<1>2. CASE \E k \in BOOLEAN : Yield(k)
  BY <1>2, YieldFrames
<1>3. CASE \E k \in BOOLEAN : \E ef \in Nat \cap {0, Depth} : PcallK(k, ef)
  BY <1>3, PcallKFrames
<1>4. CASE \E L \in Coroutines : Resume(L)
  BY <1>4, ResumeFrames
<1>5. CASE \E L \in Coroutines : Create(L)
  BY <1>5, CreateFrames
<1>6. CASE \E h \in {"none", "user"} : SetHook(h)
  BY <1>6, SetHookFrames
<1>7. CASE Load
  BY <1>7, LoadFrames
<1>8. CASE ApiMetamethod
  BY <1>8, CallFrames
<1>. QED  BY <1>1, <1>2, <1>3, <1>4, <1>5, <1>6, <1>7, <1>8 DEF ApiCall

(* The second layer is kept by every step, with the first.                 *)
LEMMA FramesInductive ==
  ASSUME CountInv, FrameInv, [Next]_vars
  PROVE  FrameInv'
<1>1. CASE UNCHANGED vars
  BY <1>1 DEF vars, FrameInv, S, Running, Top
<1>2. CASE ApiCall
  BY <1>2, ApiFrames
<1>3. CASE OpCall \/ Return \/ Error \/ HandlerDone
  BY <1>3, ModeFrames
<1>4. CASE Metamethod \/ Reader \/ ErrorMsg
  BY <1>4, CallFrames, ErrorMsgFrames
<1>5. CASE Precall \/ PrecallFails
  BY <1>5, PrecallFrames, PrecallFailsFrames
<1>6. CASE ReturnHook \/ Poscall
  BY <1>6, ReturnHookFrames, PoscallFrames
<1>7. CASE CallDone \/ PcallDone
  BY <1>7, CallDoneFrames, PcallDoneFrames
<1>8. CASE CallFinalizer \/ FinalizerDone
  BY <1>8, CallFinalizerFrames, FinalizerDoneFrames
<1>9. CASE EnterLevel \/ LeaveLevel
  BY <1>9, EnterLevelFrames, LeaveLevelFrames
<1>10. CASE ParserEnds \/ LoadDone
  BY <1>10, ParserEndsFrames, LoadDoneFrames
<1>11. CASE CatchInPcall \/ Recover \/ Die
  BY <1>11, CatchInPcallFrames, RecoverFrames, DieFrames
<1>12. CASE YieldInHook \/ Suspend
  BY <1>12, YieldInHookFrames, SuspendFrames
<1>13. CASE Unroll \/ Finish
  BY <1>13, UnrollFrames, FinishFrames
<1>14. CASE CountHook \/ Lstop \/ HookDone \/ Signal
  BY <1>14, CountHookFrames, LstopFrames, HookDoneFrames, SignalFrames
<1>. QED
  BY <1>1, <1>2, <1>3, <1>4, <1>5, <1>6, <1>7, <1>8, <1>9, <1>10, <1>11, <1>12, <1>13, <1>14 DEF Next

-----------------------------------------------------------------------------
(* The layers give the properties.                                         *)

(* The counters of a thread, where it goes on.                             *)
LEMMA LastCounted ==
  ASSUME CountInv, NEW L \in Threads, Active(L)
  PROVE  /\ LastOf(L) \in 1 .. Len(cstack) /\ cstack[LastOf(L)].th = L
         /\ Counted(state[L], cstack, LastOf(L))
         /\ \A j \in 1 .. Len(cstack) : cstack[j].th = L => j <= LastOf(L)
<1>. DEFINE k == LastOf(L)
<1>1. Runs(cstack, L) /\ StackOK(cstack) /\ DOMAIN cstack = 1 .. Len(cstack)
  BY RunningFacts DEF Active, Activations, Runs
<1>2. /\ k \in 1 .. Len(cstack) /\ cstack[k].th = L /\ \A j \in 1 .. Len(cstack) : cstack[j].th = L => j <= k
      /\ L = Last(cstack).th => k = Len(cstack)
      /\ L /= Last(cstack).th => k \in 1 .. Len(cstack) - 1 /\ cstack[k + 1].kind = "resume"
  BY <1>1, LastActivation DEF LastOf, Activations
<1>. HIDE DEF k
<1>3. Counted(state[L], cstack, k)
  BY <1>2 DEF CountInv, CountOK, OthersOK
<1>. QED  BY <1>2, <1>3 DEF k

LEMMA CountsExact ==
  ASSUME CountInv
  PROVE  CountersExact
<1>. SUFFICES ASSUME NEW L \in Threads, Active(L)
              PROVE  /\ state[L].nCcalls =
                          Cardinality({i \in 1 .. LastOf(L) : cstack[i].kind \in {"call", "resume", "level"}})
                     /\ state[L].nny =
                          (IF L = Main THEN 1 ELSE 0) + Cardinality(Of(L, {"load"}))
                          + Cardinality({i \in Of(L, {"call"}) : cstack[i].noyield})
                     /\ state[L].allowhook = (Of(L, {"hook", "gctm"}) = {})
  BY DEF CountersExact
<1>. DEFINE k == LastOf(L)
<1>1. k \in 1 .. Len(cstack) /\ cstack[k].th = L /\ \A j \in 1 .. Len(cstack) : cstack[j].th = L => j <= k
  BY LastCounted
<1>2. state[L].nCcalls = NC(cstack, k) /\ state[L].nny = NY(cstack, k)
  BY LastCounted DEF Counted
<1>3. state[L].allowhook = HooksOn(cstack, k)
  BY LastCounted DEF Counted
<1>4. DOMAIN cstack = 1 .. Len(cstack) /\ Len(cstack) \in Nat
  BY RunningFacts
<1>. HIDE DEF k
<1>5. ASSUME NEW i PROVE i \in 1 .. k /\ cstack[i].th = L <=> i \in DOMAIN cstack /\ cstack[i].th = L
  BY <1>1, <1>4
<1>6. state[L].nCcalls = Cardinality({i \in 1 .. k : cstack[i].kind \in {"call", "resume", "level"}})
  BY <1>2 DEF NC, CCalls
<1>7. state[L].nny = (IF L = Main THEN 1 ELSE 0) + Cardinality(Of(L, {"load"}))
                     + Cardinality({i \in Of(L, {"call"}) : cstack[i].noyield})
  <2>. DEFINE A == Of(L, {"load"})  B == {i \in Of(L, {"call"}) : cstack[i].noyield}
  <2>1. A \union B = NoYields(cstack, k)
    BY <1>1, <1>5 DEF Of, Activations, NoYields
  <2>2. A \intersect B = {}
    BY DEF Of
  <2>3. IsFiniteSet(1 .. Len(cstack)) /\ A \subseteq 1 .. Len(cstack) /\ B \subseteq 1 .. Len(cstack)
    <3>1. IsFiniteSet(1 .. Len(cstack))
      BY <1>4, FS_Interval
    <3>. QED  BY <1>4, <3>1 DEF Of, Activations
  <2>. HIDE DEF A, B
  <2>4. IsFiniteSet(A) /\ IsFiniteSet(B)
    BY <2>3, FS_Subset
  <2>5. Cardinality(A) \in Nat /\ Cardinality(B) \in Nat /\ Cardinality({}) = 0
    BY <2>4, FS_CardinalityType, FS_EmptySet
  <2>6. Cardinality(A \union B) = Cardinality(A) + Cardinality(B) - Cardinality(A \intersect B)
    BY <2>4, FS_Union
  <2>7. Cardinality(NoYields(cstack, k)) = Cardinality(A) + Cardinality(B)
    <3>1. Cardinality(A \intersect B) = 0
      BY <2>2, <2>5
    <3>2. Cardinality(A \union B) = Cardinality(A) + Cardinality(B)
      BY <2>5, <2>6, <3>1
    <3>. QED  BY <2>1, <3>2
  <2>8. state[L].nny = (IF L = Main THEN 1 ELSE 0) + (Cardinality(A) + Cardinality(B))
    BY <1>1, <1>2, <2>7 DEF NY
  <2>9. state[L].nny = (IF L = Main THEN 1 ELSE 0) + Cardinality(A) + Cardinality(B)
    BY <2>5, <2>8
  <2>. QED  BY <2>9 DEF A, B
<1>8. state[L].allowhook = (Of(L, {"hook", "gctm"}) = {})
  <2>1. HooksOn(cstack, k) <=> Of(L, {"hook", "gctm"}) = {}
    BY <1>1, <1>5 DEF HooksOn, Of, Activations
  <2>2. HooksOn(cstack, k) \in BOOLEAN
    BY DEF HooksOn
  <2>. QED  BY <1>3, <2>1, <2>2
<1>. QED  BY <1>6, <1>7, <1>8 DEF k

(* The two layers hold together in every state: the inductive invariant.   *)
THEOREM LayersInvariant ==
  ASSUME HooksAvoidMetamethods
  PROVE  Spec => [](CountInv /\ FrameInv)
<1>1. Init => CountInv /\ FrameInv
  BY InitCounts, InitFrames
<1>2. CountInv /\ FrameInv /\ [Next]_vars => (CountInv /\ FrameInv)'
  <2>. SUFFICES ASSUME CountInv, FrameInv, [Next]_vars PROVE CountInv' /\ FrameInv'
    OBVIOUS
  <2>1. FramesExist(state, cstack)
    BY FrameInvFacts
  <2>. QED  BY <2>1, CountsInductive, FramesInductive
<1>. QED  BY <1>1, <1>2, PTL DEF Spec

(* The types of the variables, in every state.                             *)
THEOREM CallTypes ==
  ASSUME HooksAvoidMetamethods
  PROVE  Spec => []TypeOK
<1>1. CountInv => TypeOK
  BY DEF CountInv, CountOK, StackOK, TypeOK, Modes
<1>. QED  BY <1>1, LayersInvariant, PTL

(* nCcalls, nny and allowhook of every thread agree with what is on the C  *)
(* stack, whatever errors, yields, hooks and finalizers have cut or        *)
(* rebuilt.                                                                *)
THEOREM CountersAlwaysExact ==
  ASSUME HooksAvoidMetamethods
  PROVE  Spec => []CountersExact
BY CountsExact, LayersInvariant, PTL
=============================================================================
