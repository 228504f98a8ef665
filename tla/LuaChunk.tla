------------------------------ MODULE LuaChunk ------------------------------
(* Precompiled chunks: string.dump writes a prototype (ldump.c), load      *)
(* reads it back (lundump.c) from a reader that delivers it in pieces      *)
(* (lzio.c) and may deliver less, or a chunk of another machine.           *)
(*                                                                         *)
(* A chunk is a sequence of units, each the representation of one value:   *)
(* bytes, integers, instructions, characters.  The loader's nested calls   *)
(* are kept as 'todo', what is still to be read and stored, in order.      *)
EXTENDS Integers, Sequences, SequencesExt, FiniteSets

CONSTANTS Dumps,            (* calls: [f, strip, mode, reader], the reader a *)
                            (* "buffer" or a "function" of the program, *)
                            (* which may step the collector             *)
          MaxPiece,         (* units the reader delivers at once            *)
          ByteMax,          (* 0xFF                                         *)
          LUAI_MAXSHORTLEN

VARIABLES
  dump, dpc,       (* the call; "dump", "load", "done", "text" (what was    *)
                   (* read is a text chunk and compiles), "failed" (the     *)
                   (* writer) or "error" (of the loader)                    *)
  blocks, chunk,   (* still to be written, and what was written             *)
  foreign,         (* the unit of the header that differs, or 0             *)
  cut,             (* has the reader ended before the chunk did?            *)
  zp, zn, got,     (* ZIO: units taken, units in the buffer; units read     *)
  todo,
  objs,            (* prototypes and strings of the loader, by their number *)
  pending,         (* a long string that is being read, or 0                *)
  black, freed     (* objects marked by a collection that runs; and freed   *)

chunkVars == <<dump, dpc, blocks, chunk, foreign, cut, zp, zn, got, todo, objs, pending, black, freed>>
readVars  == <<cut, zp, zn>>
dumpVars  == <<dump, blocks, chunk, foreign>>

NULLStr == <<"NULL">>
Garbage == -1   (* in an array that is not cleared                          *)

-----------------------------------------------------------------------------
(* ldump.c: the blocks given to the writer, one for each DumpBlock.        *)

Block(units) == IF units = <<>> THEN <<>> ELSE <<units>>
DumpByte(n) == <<<<<<"byte", n>>>>>>
DumpInt(n)  == <<<<<<"int", n>>>>>>
DumpEach(op(_), seq) == FoldLeft(LAMBDA acc, x : acc \o op(x), <<>>, seq)
DumpBytes(ns) == DumpEach(DumpByte, ns)
DumpVector(tag, seq) == Block([n \in DOMAIN seq |-> <<tag, seq[n]>>])

DumpString(str) ==
  LET size == Len(str) + 1
  IN IF str = NULLStr THEN DumpByte(0)
     ELSE (IF size < ByteMax THEN DumpByte(size) ELSE DumpByte(ByteMax) \o <<<<<<"size", size>>>>>>)
          \o DumpVector("char", str)

DumpConstant(o) ==
  DumpByte(o[1]) \o CASE o[1] = "nil" -> <<>>
                      [] o[1] = "boolean" -> DumpByte(o[2])
                      [] o[1] = "string" -> DumpString(o[2])
                      [] OTHER -> <<<<o>>>>

DumpUpvalue(u) == DumpByte(u.instack) \o DumpByte(u.idx)
DumpLocvar(v) == DumpString(v.name) \o DumpInt(v.range[1]) \o DumpInt(v.range[2])
DumpName(u) == DumpString(u.name)

DumpDebug(f, strip) ==
  LET kept(seq) == IF strip THEN <<>> ELSE seq
      lines == kept(f.lineinfo)  locs == kept(f.locvars)  ups == kept(f.upvalues)
  IN DumpInt(Len(lines)) \o DumpVector("int", lines)
     \o DumpInt(Len(locs)) \o DumpEach(DumpLocvar, locs)
     \o DumpInt(Len(ups)) \o DumpEach(DumpName, ups)

RECURSIVE DumpFunction(_, _, _)
DumpFunction(f, psource, strip) ==
  LET protos == FoldLeft(LAMBDA acc, g : acc \o DumpFunction(g, f.source, strip), <<>>, f.p)
  IN DumpString(IF strip \/ f.source = psource THEN NULLStr ELSE f.source)
     \o DumpInt(f.lines[1]) \o DumpInt(f.lines[2]) \o DumpBytes(f.header)
     \o DumpInt(Len(f.code)) \o DumpVector("code", f.code)
     \o DumpInt(Len(f.k)) \o DumpEach(DumpConstant, f.k)
     \o DumpInt(Len(f.upvalues)) \o DumpEach(DumpUpvalue, f.upvalues)
     \o DumpInt(Len(f.p)) \o protos
     \o DumpDebug(f, strip)

(* Signature (its first character apart), version, format, LUAC_DATA, the  *)
(* sizes of five types, LUAC_INT and LUAC_NUM.                             *)
Header == <<<<"char", "ESC">>, <<"char", "Lua">>, <<"byte", "53">>, <<"byte", "format">>, <<"char", "data">>,
            <<"byte", "int">>, <<"byte", "size_t">>, <<"byte", "Instruction">>, <<"byte", "lua_Integer">>,
            <<"byte", "lua_Number">>, <<"integer", "0x5678">>, <<"number", "370.5">>>>

luaU_dump(f, strip) ==
  <<SubSeq(Header, 1, 2)>> \o [n \in 1..Len(Header) - 2 |-> <<Header[n + 2]>>] \o DumpByte(Len(f.upvalues)) \o DumpFunction(f, NULLStr, strip)

(* The writer may fail: its status is kept and nothing more is written.    *)
DumpBlock ==
  /\ dpc = "dump" /\ blocks # <<>>
  /\ \/ chunk' = chunk \o Head(blocks) /\ blocks' = Tail(blocks) /\ UNCHANGED dpc
     \/ dpc' = "failed" /\ UNCHANGED <<chunk, blocks>>
  /\ UNCHANGED <<dump, foreign, readVars, got, todo, objs, pending, black, freed>>

-----------------------------------------------------------------------------
(* lzio.c and the collections that a reader may run                        *)

Task(t, n, id, k) == [t |-> t, n |-> n, id |-> id, k |-> k]
Current == Head(todo)
Missing == Current.n - Len(got)
Unit(n) == IF n = foreign THEN <<"other", 0>> ELSE chunk[n]
TaskDone(t) == dpc = "load" /\ todo # <<>> /\ Missing = 0 /\ Current.t = t

(* Parser and lexer read by zgetc, which returns EOZ when there is no more;*)
(* LoadBlock reads blocks, and a short one is an error, "truncated".       *)
EOZ == <<"EOZ", 0>>
ByZgetc == Current.t \in {"first", "text"}

luaZ_fill ==
  /\ dpc = "load" /\ todo # <<>> /\ Missing > 0 /\ zn = 0
  /\ \/ \E size \in 1..MaxPiece :
          size <= Len(chunk) - zp /\ zn' = size /\ UNCHANGED <<dpc, cut, got>>
     \/ /\ cut' = (zp < Len(chunk)) /\ UNCHANGED zn
        /\ \/ ByZgetc /\ got' = <<EOZ>> /\ UNCHANGED dpc
           \/ ~ByZgetc /\ dpc' = "error" /\ UNCHANGED got
  /\ UNCHANGED <<dumpVars, zp, todo, objs, pending, black, freed>>

luaZ_read ==
  LET m == IF Missing <= zn THEN Missing ELSE zn
  IN /\ dpc = "load" /\ todo # <<>> /\ Missing > 0 /\ zn > 0
     /\ got' = got \o [n \in 1..m |-> Unit(zp + n)]
     /\ zp' = zp + m /\ zn' = zn - m
     /\ UNCHANGED <<dumpVars, dpc, cut, todo, objs, pending, black, freed>>

(* The objects a prototype refers to.                                      *)
Refs(o) ==
  IF o.kind = "string" THEN {}
  ELSE ({o.source} \union ToSet(o.p) \union {u.name : u \in ToSet(o.upvalues)}
        \union {v.name : v \in ToSet(o.locvars)} \union {c[2] : c \in {x \in ToSet(o.k) : x[1] = "string"}}) \ {0}
(* The closure is in the stack; it holds the first prototype.              *)
Step(S) == S \union UNION {Refs(objs[n]) : n \in S \cap DOMAIN objs}
Reachable == IF objs = <<>> THEN {} ELSE Step(Step(Step({1})))

(* A reader of the program steps the collector: one step marks what is     *)
(* there, a later one frees what was not marked.                           *)
Propagate ==
  /\ dpc = "load" /\ dump.reader = "function" /\ todo # <<>> /\ Missing > 0 /\ zn = 0 /\ black = {} /\ objs # <<>>
  /\ black' = Reachable
  /\ UNCHANGED <<dumpVars, readVars, dpc, got, todo, objs, pending, freed>>

Sweep ==
  /\ dpc = "load" /\ todo # <<>> /\ Missing > 0 /\ zn = 0 /\ black # {}
  /\ black' = {} /\ freed' = freed \union (DOMAIN objs \ black)
  /\ UNCHANGED <<dumpVars, readVars, dpc, got, todo, objs, pending>>

-----------------------------------------------------------------------------
(* lundump.c                                                               *)

Refused == dpc' = "error" /\ UNCHANGED <<dumpVars, readVars, got, todo, objs, pending, black, freed>>
(* What was read is used, and 'first' is to be read next.                  *)
Continue(first) ==
  /\ todo' = first \o Tail(todo) /\ got' = <<>>
  /\ dpc' = IF first \o Tail(todo) = <<>> THEN "done" ELSE dpc
  /\ UNCHANGED <<dumpVars, readVars, black>>
NoAllocation == UNCHANGED <<pending, freed>>
(* An allocation may fail at first: an emergency collection frees what     *)
(* nothing refers to.                                                      *)
Allocate == \E emergency \in BOOLEAN :
  freed' = IF emergency THEN freed \union (DOMAIN objs \ Reachable) ELSE freed
Read(n) == got[n][2]

Compiled == dpc' = "text" /\ UNCHANGED <<dumpVars, readVars, got, todo, objs, pending, black, freed>>

(* f_parser and checkmode: the first character says whether the chunk is a *)
(* binary one.  Any other character, and EOZ, begins a text chunk; an empty*)
(* text compiles.                                                          *)
f_parser ==
  LET binary == got[1] = Header[1]
      checkmode == dump.mode \in {IF binary THEN "b" ELSE "t", "bt"}
  IN /\ TaskDone("first")
     /\ \/ ~checkmode /\ Refused
        \/ checkmode /\ ~binary /\ got[1] = EOZ /\ Compiled
        \/ /\ checkmode /\ (binary \/ got[1] # EOZ) /\ UNCHANGED objs /\ NoAllocation
           /\ Continue(IF ~binary THEN <<Task("text", 1, 0, 0)>>
                       ELSE [n \in 1..Len(Header) - 1 |-> Task("header", 1, 0, n + 1)] \o <<Task("closure", 1, 0, 0)>>)

(* luaY_parser, given the first character, reads at least one more.  The   *)
(* character alone may be a text (a space, ';') or not.  With the rest of  *)
(* the signature it is none: whatever it is, a name follows or grows, and  *)
(* neither an assignment nor a call.                                       *)
luaY_parser == TaskDone("text") /\ (Refused \/ (got[1] = EOZ /\ Compiled))

checkHeader ==
  /\ TaskDone("header")
  /\ IF got = <<Header[Current.k]>> THEN Continue(<<>>) /\ UNCHANGED objs /\ NoAllocation ELSE Refused

luaF_newproto == [kind |-> "proto", source |-> 0, lines |-> <<>>, header |-> <<>>, code |-> <<>>, k |-> <<>>,
                  upvalues |-> <<>>, p |-> <<>>, lineinfo |-> <<>>, locvars |-> <<>>]

(* What LoadFunction reads of prototype id; its parent is 'par'.           *)
LoadFunction(id, par) ==
  <<Task("string", 1, id, <<"source", par>>), Task("lines", 2, id, 0), Task("bytes", 3, id, 0),
    Task("sizecode", 1, id, 0), Task("sizek", 1, id, 0), Task("sizeupvalues", 1, id, 0), Task("sizep", 1, id, 0),
    Task("sizelineinfo", 1, id, 0), Task("sizelocvars", 1, id, 0), Task("names", 1, id, 0)>>

luaU_undump ==
  /\ TaskDone("closure") /\ Allocate /\ UNCHANGED pending
  /\ objs' = <<luaF_newproto>>
  /\ Continue(LoadFunction(1, 0))

(* A part of prototype id is read as it is.                                *)
Store(field, v) ==
  /\ Continue(<<>>) /\ NoAllocation
  /\ objs' = CASE field = "lines" -> [objs EXCEPT ![Current.id].lines = v]
               [] field = "bytes" -> [objs EXCEPT ![Current.id].header = v]
               [] field = "code"  -> [objs EXCEPT ![Current.id].code = v]
               [] field = "lineinfo" -> [objs EXCEPT ![Current.id].lineinfo = v]
LoadVector == \E t \in {"lines", "bytes", "code", "lineinfo"} : TaskDone(t) /\ Store(t, [n \in DOMAIN got |-> Read(n)])

Items(n, t, len) == [m \in 1..n |-> Task(t, len, Current.id, m)]
Sized(t, first) == TaskDone(t) /\ Allocate /\ UNCHANGED pending /\ Continue(first)
proto == Current.id
n_ == Read(1)

LoadCode == Sized("sizecode", <<Task("code", n_, proto, 0)>>) /\ UNCHANGED objs

(* Fault: the new array is not cleared before the constants are read.      *)
LoadConstantsGarbage ==
  /\ Sized("sizek", Items(n_, "constant", 1))
  /\ objs' = [objs EXCEPT ![proto].k = [m \in 1..n_ |-> <<"string", Garbage>>]]

LoadConstants ==
  /\ Sized("sizek", Items(n_, "constant", 1))
  /\ objs' = [objs EXCEPT ![proto].k = [m \in 1..n_ |-> <<"nil">>]]
LoadUpvalues ==
  /\ Sized("sizeupvalues", Items(n_, "upvalue", 2))
  /\ objs' = [objs EXCEPT ![proto].upvalues = [m \in 1..n_ |-> [instack |-> Garbage, idx |-> Garbage, name |-> 0]]]
LoadProtos == Sized("sizep", Items(n_, "proto", 0)) /\ objs' = [objs EXCEPT ![proto].p = [m \in 1..n_ |-> 0]]
LoadLines == Sized("sizelineinfo", <<Task("lineinfo", n_, proto, 0)>>) /\ UNCHANGED objs
LoadLocvars ==
  /\ Sized("sizelocvars", FlattenSeq([m \in 1..n_ |-> <<Task("string", 1, proto, <<"locvar", m>>), Task("range", 2, proto, m)>>]))
  /\ objs' = [objs EXCEPT ![proto].locvars = [m \in 1..n_ |-> [name |-> 0, range |-> <<>>]]]
LoadNames ==
  /\ TaskDone("names") /\ NoAllocation /\ UNCHANGED objs
  /\ Continue([m \in 1..n_ |-> Task("string", 1, proto, <<"name", m>>)])

LoadConstant ==
  LET set(c) == objs' = [objs EXCEPT ![proto].k[Current.k] = c]
  IN /\ TaskDone("constant") /\ NoAllocation
     /\ CASE n_ = "nil" -> set(<<"nil">>) /\ Continue(<<>>)
          [] n_ = "string" -> UNCHANGED objs /\ Continue(<<Task("string", 1, proto, <<"constant", Current.k>>)>>)
          [] OTHER -> UNCHANGED objs /\ Continue(<<Task("value", 1, proto, <<n_, Current.k>>)>>)
LoadValue ==
  /\ TaskDone("value") /\ NoAllocation /\ Continue(<<>>)
  /\ objs' = [objs EXCEPT ![proto].k[Current.k[2]] = <<Current.k[1], n_>>]
LoadUpvalue ==
  /\ TaskDone("upvalue") /\ NoAllocation /\ Continue(<<>>)
  /\ objs' = [objs EXCEPT ![proto].upvalues[Current.k].instack = n_, ![proto].upvalues[Current.k].idx = Read(2)]
LoadRange ==
  /\ TaskDone("range") /\ NoAllocation /\ Continue(<<>>)
  /\ objs' = [objs EXCEPT ![proto].locvars[Current.k].range = <<n_, Read(2)>>]
LoadProto ==
  LET new == Len(objs) + 1
  IN /\ TaskDone("proto") /\ Allocate /\ UNCHANGED pending
     /\ objs' = Append([objs EXCEPT ![proto].p[Current.k] = new], luaF_newproto)
     /\ Continue(LoadFunction(new, proto))

-----------------------------------------------------------------------------
(* LoadString: a size, then the characters.  A short string is made of     *)
(* them; a long one is created first and read in place.                    *)
Put(os, dst, ref) ==
  CASE dst[1] = "source" -> [os EXCEPT ![proto].source = IF ref = 0 /\ dst[2] # 0 THEN os[dst[2]].source ELSE ref]
    [] dst[1] = "constant" -> [os EXCEPT ![proto].k[dst[2]] = <<"string", ref>>]
    [] dst[1] = "name" -> [os EXCEPT ![proto].upvalues[dst[2]].name = ref]
    [] dst[1] = "locvar" -> [os EXCEPT ![proto].locvars[dst[2]].name = ref]

StringObj(units) == [kind |-> "string", chars |-> [n \in DOMAIN units |-> units[n][2]]]
Sizes == TaskDone("string") \/ TaskDone("size")

LongSize == TaskDone("string") /\ n_ = ByteMax
LoadSize == LongSize /\ Continue(<<Task("size", 1, proto, Current.k)>>) /\ UNCHANGED objs /\ NoAllocation
LoadNull == TaskDone("string") /\ n_ = 0 /\ Continue(<<>>) /\ objs' = Put(objs, Current.k, 0) /\ NoAllocation
LoadShort ==
  /\ Sizes /\ ~LongSize /\ n_ \in 1..LUAI_MAXSHORTLEN + 1 /\ UNCHANGED objs /\ NoAllocation
  /\ Continue(<<Task("chars", n_ - 1, proto, Current.k)>>)
LoadLong ==
  /\ Sizes /\ ~LongSize /\ n_ > LUAI_MAXSHORTLEN + 1 /\ Allocate
  /\ objs' = Append(objs, StringObj(<<>>)) /\ pending' = Len(objs) + 1
  /\ Continue(<<Task("chars", n_ - 1, proto, Current.k)>>)
LoadChars ==
  LET long == pending # 0
      ref == IF long THEN pending ELSE Len(objs) + 1
      os == IF long THEN [objs EXCEPT ![ref] = StringObj(got)] ELSE Append(objs, StringObj(got))
  IN /\ TaskDone("chars") /\ pending' = 0 /\ Continue(<<>>)
     /\ objs' = Put(os, Current.k, ref)
     /\ IF long THEN UNCHANGED freed ELSE Allocate

-----------------------------------------------------------------------------
StartLoad ==
  /\ dpc = "dump" /\ blocks = <<>> /\ dpc' = "load"
  /\ foreign' \in 0..Len(Header)
  /\ todo' = <<Task("first", 1, 0, 0)>>
  /\ UNCHANGED <<dump, blocks, chunk, readVars, got, objs, pending, black, freed>>

ChunkInit(dumps) ==
  /\ dump \in dumps
  /\ dpc = "dump" /\ blocks = luaU_dump(dump.f, dump.strip)
  /\ chunk = <<>> /\ foreign = 0 /\ cut = FALSE /\ zp = 0 /\ zn = 0 /\ got = <<>> /\ todo = <<>>
  /\ objs = <<>> /\ pending = 0 /\ black = {} /\ freed = {}

ChunkIdle ==
  /\ dump = <<>> /\ dpc = "idle" /\ blocks = <<>>
  /\ chunk = <<>> /\ foreign = 0 /\ cut = FALSE /\ zp = 0 /\ zn = 0 /\ got = <<>> /\ todo = <<>>
  /\ objs = <<>> /\ pending = 0 /\ black = {} /\ freed = {}

ChunkNext ==
  \/ DumpBlock \/ StartLoad \/ luaZ_fill \/ luaZ_read \/ Propagate \/ Sweep
  \/ f_parser \/ luaY_parser \/ checkHeader \/ luaU_undump \/ LoadVector \/ LoadCode \/ LoadConstants \/ LoadConstant
  \/ LoadValue \/ LoadUpvalues \/ LoadUpvalue \/ LoadProtos \/ LoadProto \/ LoadLines \/ LoadLocvars
  \/ LoadRange \/ LoadNames \/ LoadSize \/ LoadNull \/ LoadShort \/ LoadLong \/ LoadChars

-----------------------------------------------------------------------------
(* Properties                                                              *)

Contents(ref) == IF ref = 0 THEN NULLStr ELSE objs[ref].chars
RECURSIVE Loaded(_), Stripped(_, _)
Loaded(id) ==
  LET o == objs[id]
  IN [source |-> Contents(o.source), lines |-> o.lines, header |-> o.header, code |-> o.code,
      k |-> [n \in DOMAIN o.k |-> IF o.k[n][1] = "string" THEN <<"string", Contents(o.k[n][2])>> ELSE o.k[n]],
      upvalues |-> [n \in DOMAIN o.upvalues |-> [o.upvalues[n] EXCEPT !.name = Contents(@)]],
      p |-> [n \in DOMAIN o.p |-> Loaded(o.p[n])],
      lineinfo |-> o.lineinfo, locvars |-> [n \in DOMAIN o.locvars |-> [o.locvars[n] EXCEPT !.name = Contents(@)]]]
Stripped(g, strip) ==
  IF ~strip THEN g
  ELSE [g EXCEPT !.source = NULLStr, !.lineinfo = <<>>, !.locvars = <<>>,
                 !.upvalues = [n \in DOMAIN @ |-> [@[n] EXCEPT !.name = NULLStr]],
                 !.p = [n \in DOMAIN @ |-> Stripped(@[n], strip)]]

(* What is loaded as binary is the function that was dumped, without its  *)
(* debug information if that was stripped, whatever pieces the reader      *)
(* delivers; a binary chunk that is cut, of another machine or of a kind   *)
(* that the caller does not want is refused, and no other one is (ldump.c, *)
(* lundump.c and checkmode, ldo.c:796).  Text is compiled only if the mode *)
(* allows it, and nothing of the dump then: there was no input, or no more *)
(* than one character, another than that of a binary chunk (ldo.c:810).    *)
(* No input at all is an error only if text is refused.                    *)
RoundTrip ==
  /\ dpc = "done" /\ freed = {} =>
                     /\ ~cut /\ foreign = 0 /\ dump.mode # "t"
                     /\ zp = Len(chunk) /\ Loaded(1) = Stripped(dump.f, dump.strip)
  /\ dpc = "error" => cut \/ foreign # 0 \/ dump.mode = "t"
  /\ dpc = "error" /\ zp = 0 => dump.mode = "b"
  /\ dpc = "text" => cut /\ dump.mode # "b" /\ objs = <<>> /\ (zp = 0 \/ (zp = 1 /\ foreign = 1))

(* While a chunk is loaded the collector may run: what it can reach is     *)
(* initialised and allocated at all times, and what the loader holds is    *)
(* live (checkliveness, lobject.h:216, asserts it of each value stored).   *)
(* It is not so when the reader is a function of the program: a long       *)
(* string is anchored nowhere while it is read, and nothing is stored with *)
(* a barrier.                                                              *)
CollectorSafe ==
  LET held == Reachable \union ({pending} \ {0})
  IN held \subseteq DOMAIN objs /\ held \cap freed = {}

(* With a reader that does not run the program, as those of lauxlib.c.     *)
BufferSafe == (objs # <<>> /\ dump.reader = "buffer") => CollectorSafe

(* string.dump and load are inverse, and the loader leaves no object half  *)
(* made while the collector may look (lundump.c).                          *)
LoadSound == RoundTrip /\ BufferSafe
=============================================================================
