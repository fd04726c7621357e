-------------------------------- MODULE Vcdiff --------------------------------
(***************************************************************************)
(* The delta decoder of vcdiff.c, as an operator on sequences of bytes: a  *)
(* section that is read is the sequence of the bytes still to read.        *)
(*                                                                         *)
(* The state machine beside it is an encoder: it composes a delta window   *)
(* by window and instruction by instruction, and keeps the text the delta  *)
(* stands for.  It follows RFC 3284, not the decoder.                      *)
(***************************************************************************)
EXTENDS Integers, Sequences, SequencesExt, FiniteSets, FiniteSetsExt, TLC

CONSTANTS Source,       \* the base
          Opcodes,      \* opcodes the encoder uses
          Sizes,        \* sizes it writes behind an opcode that has none
          Letters,      \* bytes it adds
          Indicators,   \* Win_Indicators of its windows
          Starts,       \* positions at which its segments start
          MaxWindows,   \* bound: windows of a delta
          MaxInst,      \* bound: opcodes of a delta
          Capacity,     \* room for the text
          MaxSection    \* bound: bytes of a section of a window

Pow27 == 134217728   \* 2^27: integers stay within four bytes

ASSUME VcdiffAssumption ==
  /\ Source \in Seq(0 .. 255) /\ Letters \subseteq 0 .. 255
  /\ Opcodes \subseteq 0 .. 255 /\ Sizes \subseteq Nat /\ Starts \subseteq Nat
  /\ Indicators \subseteq {0, 1, 2, 4, 5, 6}
  /\ MaxWindows \in Nat /\ MaxInst \in Nat
  /\ Capacity \in Nat /\ Len(Source) + Capacity < Pow27
  /\ MaxSection \in Nat /\ 4 * MaxSection < Pow27

S_NEAR == 4
S_SAME == 3
NUM_MODES == 2 + S_NEAR + S_SAME
Bit(flags, b) == (flags \div b) % 2 = 1     \* b: 1, 2 or 4

-----------------------------------------------------------------------------
(* The code table.                                                         *)

Inst(t, s, m) == [type |-> t, size |-> s, mode |-> m]
NoInst == Inst("NOOP", 0, 0)

Double(first, second) == <<first, second>>
Single(inst) == Double(inst, NoInst)

\* build_code_table, entry by entry.
s_code_table(op) ==
  CASE op \in {0, 255}     -> Single(NoInst)
    [] op \in 1 .. 17      -> Single(Inst("ADD", op - 1, 0))
    [] op = 18             -> Single(Inst("RUN", 0, 0))
    [] op \in 19 .. 162    -> LET k == (op - 19) % 16
                              IN Single(Inst("COPY", IF k = 0 THEN 0 ELSE k + 3, (op - 19) \div 16))
    [] op \in 163 .. 234   -> LET x == op - 163
                              IN Double(Inst("ADD", (x \div 18) + 1, 0), Inst("COPY", (x % 3) + 4, (x % 18) \div 3))
    [] op \in 235 .. 254   -> LET x == op - 235
                              IN Double(Inst("COPY", 4, x \div 4), Inst("ADD", (x % 4) + 1, 0))

\* The default code table of RFC 3284, section 5.6.
Rfc3284Table(op) ==
  CASE op = 0              -> Single(Inst("RUN", 0, 0))
    [] op \in 1 .. 18      -> Single(Inst("ADD", op - 1, 0))
    [] op \in 19 .. 162    -> s_code_table(op)
    [] op \in 163 .. 234   -> LET x == op - 163
                              IN Double(Inst("ADD", ((x % 12) \div 3) + 1, 0), Inst("COPY", (x % 3) + 4, x \div 12))
    [] op \in 235 .. 246   -> LET x == op - 235
                              IN Double(Inst("ADD", (x % 4) + 1, 0), Inst("COPY", 4, (x \div 4) + 6))
    [] op \in 247 .. 255   -> Double(Inst("COPY", 4, op - 247), Inst("ADD", 1, 0))

-----------------------------------------------------------------------------
(* The decoder.                                                            *)

Failed(code) == [err |-> code, out |-> <<>>]

\* read_varint: n bytes read, 0 on truncation or after nine continuations, and the
\* value of these bytes.
VarintLen(s) == Min({k \in 1 .. Min({Len(s), 9}) : s[k] < 128} \cup {10}) % 10
VarintValue(s, n) ==
  LET v[k \in Nat] == IF k = 0 THEN 0 ELSE (v[k - 1] * 128) + (s[k] % 128) IN v[n]
read_varint(s) == [n |-> VarintLen(s), v |-> VarintValue(s, VarintLen(s))]

From(s, n) == SubSeq(s, n + 1, Len(s))

\* Integers in a row: their values, and what follows them.
Unread(s) == [ok |-> TRUE, vals |-> <<>>, rest |-> s]
ReadInt(a) ==
  LET With(r) == [ok |-> a.ok /\ r.n > 0, vals |-> Append(a.vals, r.v), rest |-> From(a.rest, r.n)]
  IN With(read_varint(a.rest))

Cached(cache, k) == IF k \in DOMAIN cache THEN cache[k] ELSE 0

\* The slot of the same cache: uint32_t modulo 768, where 2^32 is 256.
SameSlot(addr) == (IF addr >= 0 THEN addr ELSE addr + 256) % (S_SAME * 256)

\* The address of a COPY, and how many bytes of the section it takes, 0 for a
\* section that is cut off.
CopyAddress(d, mode, here) ==
  IF mode >= 2 + S_NEAR
  THEN IF d.addr = <<>> THEN [n |-> 0, a |-> 0]
       ELSE [n |-> 1, a |-> Cached(d.same, (mode - 2 - S_NEAR) * 256 + d.addr[1])]
  ELSE LET Relative(r) == [n |-> r.n, a |-> CASE mode = 0 -> r.v
                                              [] mode = 1 -> here - r.v
                                              [] OTHER    -> d.near[mode - 2] + r.v]
       IN Relative(read_varint(d.addr))

\* Byte by byte, out of the segment and then of the window that is written. Of a
\* window, win holds the segment, the start in the output and the room.
CopyByte(r, addr, win) ==
  IF r.err # "OK" THEN r
  ELSE IF addr \in 0 .. Len(win.seg) + Len(r.out) - win.start - 1
  THEN [r EXCEPT !.out = Append(@, IF addr < Len(win.seg) THEN win.seg[addr + 1]
                                   ELSE @[win.start + addr - Len(win.seg) + 1])]
  ELSE Failed("INVALID")
CopyBytes(out, addr, size, win) ==
  LET after[k \in Nat] == IF k = 0 THEN [err |-> "OK", out |-> out]
                          ELSE CopyByte(after[k - 1], addr + k - 1, win)
  IN after[size]

CopyFrom(d, c, size, win) ==
  LET Copy(r) == [d EXCEPT !.err = r.err, !.out = r.out, !.addr = From(@, c.n),
                           !.near = [@ EXCEPT ![d.next] = c.a], !.next = (@ + 1) % S_NEAR,
                           !.same = (SameSlot(c.a) :> c.a) @@ @]
  IN IF c.n = 0 THEN [d EXCEPT !.err = "TRUNCATED"]
     ELSE IF Len(d.out) + size > win.cap THEN [d EXCEPT !.err = "OUTPUT_FULL"]
     ELSE Copy(CopyBytes(d.out, c.a, size, win))

\* Mutant of execute_copy: "here" does not count what the window has written.
execute_copy_HereIsSource(d, mode, size, win) ==
  CopyFrom(d, CopyAddress(d, mode, Len(win.seg)), size, win)

execute_copy(d, mode, size, win) ==
  CopyFrom(d, CopyAddress(d, mode, Len(win.seg) + Len(d.out) - win.start), size, win)

\* One half of a code table entry, of the size r.v: the one of the table, or the
\* integer behind the opcode.
ExecuteSized(d, inst, r, win) ==
  IF inst.type = "COPY" THEN execute_copy(d, inst.mode, r.v, win)
  ELSE IF Len(d.data) < (IF inst.type = "ADD" THEN r.v ELSE 1) THEN [d EXCEPT !.err = "INVALID"]
  ELSE IF Len(d.out) + r.v > win.cap THEN [d EXCEPT !.err = "OUTPUT_FULL"]
  ELSE IF inst.type = "ADD"
  THEN [d EXCEPT !.out = @ \o SubSeq(d.data, 1, r.v), !.data = From(@, r.v)]
  ELSE [d EXCEPT !.out = @ \o [i \in 1 .. r.v |-> Head(d.data)], !.data = Tail(@)]

Execute(d, inst, win) ==
  LET Sized(r) == IF inst.size = 0 /\ r.n = 0 THEN [d EXCEPT !.err = "TRUNCATED"]
                  ELSE ExecuteSized([d EXCEPT !.inst = From(@, r.n)], inst, r, win)
  IN IF d.err # "OK" \/ inst.type = "NOOP" THEN d
     ELSE Sized(IF inst.size # 0 THEN [n |-> 0, v |-> inst.size] ELSE read_varint(d.inst))

\* One turn of the loop over the opcodes, n turns, and all of them.
Opcode(d, win) ==
  LET Both(e, pair) == Execute(Execute(e, pair[1], win), pair[2], win)
  IN IF d.err # "OK" \/ d.inst = <<>> THEN d
     ELSE Both([d EXCEPT !.inst = Tail(@)], s_code_table(Head(d.inst)))
OpcodesRun(d, n, win) ==
  LET after[k \in Nat] == IF k = 0 THEN d ELSE Opcode(after[k - 1], win) IN after[n]
Run(d, win) == OpcodesRun(d, Len(d.inst), win)

\* The sections of a window with their lengths lens read, and the address caches
\* cleared.
RunSections(target, lens, v, out, win) ==
  LET Written(d) == IF d.err # "OK" THEN Failed(d.err)
                    ELSE IF Len(d.out) - win.start # target THEN Failed("INVALID")
                    ELSE [err |-> "OK", out |-> d.out]
  IN IF ~lens.ok \/ Len(lens.rest) < v[1] + v[2] + v[3] THEN Failed("TRUNCATED")
     ELSE IF Len(out) + target > win.cap THEN Failed("OUTPUT_FULL")
     ELSE Written(Run([err |-> "OK", out |-> out,
                       data |-> SubSeq(lens.rest, 1, v[1]),
                       inst |-> SubSeq(lens.rest, v[1] + 1, v[1] + v[2]),
                       addr |-> SubSeq(lens.rest, v[1] + v[2] + 1, v[1] + v[2] + v[3]),
                       near |-> [i \in 0 .. S_NEAR - 1 |-> 0], next |-> 0, same |-> << >>], win))

\* The encoded window w of a segment: its header, then its sections.
DecodeWindow(w, seg, out, cap) ==
  LET Sections(target, lens) ==
        RunSections(target, lens, lens.vals, out, [seg |-> seg, start |-> Len(out), cap |-> cap])
      Header(h) ==
        IF ~h.ok \/ h.rest = <<>> THEN Failed("TRUNCATED")
        ELSE IF Head(h.rest) % 8 # 0 THEN Failed("SECONDARY_COMP")
        ELSE Sections(h.vals[1], ReadInt(ReadInt(ReadInt(Unread(Tail(h.rest))))))
  IN Header(ReadInt(Unread(w)))

HasSegment(ind) == Bit(ind, 1) \/ Bit(ind, 2)

\* What the segment of a window is taken from, by its indicator.
SegmentOf(ind, source, out) == IF Bit(ind, 1) THEN source ELSE out

\* The Adler-32 behind a window is skipped, not verified.
ChecksumLen(ind) == IF Bit(ind, 4) THEN 4 ELSE 0

\* Mutant of WholeWindow: the room for the checksum is not tested.
WholeWindow_NoChecksum(rest, len, ind) == Len(rest) >= len

WholeWindow(rest, len, ind) == Len(rest) >= len + ChecksumLen(ind)

\* The window behind the indicator ind of the loop's state r, s the length and the
\* position of a segment and w the length of the window.
DecodeNext(r, ind, s, w, of) ==
  LET len == w.vals[1]
      Next(d) == [err |-> d.err, out |-> d.out, rest |-> From(w.rest, len + ChecksumLen(ind)),
                  source |-> r.source, cap |-> r.cap]
      Stop(code) == [r EXCEPT !.err = code, !.out = <<>>]
  IN IF ~s.ok THEN Stop("TRUNCATED")
     ELSE IF HasSegment(ind) /\ s.vals[2] + s.vals[1] > Len(of) THEN Stop("INVALID")
     ELSE IF ~w.ok \/ ~WholeWindow(w.rest, len, ind) THEN Stop("TRUNCATED")
     ELSE Next(DecodeWindow(SubSeq(w.rest, 1, len),
                            IF HasSegment(ind) THEN SubSeq(of, s.vals[2] + 1, s.vals[2] + s.vals[1])
                            ELSE <<>>,
                            r.out, r.cap))

\* One turn of the loop over the windows, and n turns.
NextWindow(r) ==
  LET Segment(ind, s) == DecodeNext(r, ind, s, ReadInt(Unread(s.rest)),
                                    SegmentOf(ind, r.source, r.out))
      Ints(p) == IF HasSegment(Head(r.rest)) THEN ReadInt(ReadInt(Unread(p))) ELSE Unread(p)
  IN IF r.err # "OK" \/ r.rest = <<>> THEN r ELSE Segment(Head(r.rest), Ints(Tail(r.rest)))
WindowsRun(r, n) ==
  LET after[k \in Nat] == IF k = 0 THEN r ELSE NextWindow(after[k - 1]) IN after[n]
DecodeWindows(source, p, cap) ==
  LET Result(r) == [err |-> r.err, out |-> r.out]
  IN Result(WindowsRun([err |-> "OK", out |-> <<>>, rest |-> p, source |-> source, cap |-> cap],
                       Len(p)))

VCDIFF_MAGIC == <<214, 195, 196, 0>>

\* ably_vcdiff_decode.
ably_vcdiff_decode(source, delta, cap) ==
  IF Len(delta) < 5 THEN Failed("TRUNCATED")
  ELSE IF SubSeq(delta, 1, 4) # VCDIFF_MAGIC THEN Failed("INVALID_MAGIC")
  ELSE IF Bit(delta[5], 1) THEN Failed("SECONDARY_COMP")
  ELSE IF Bit(delta[5], 2) THEN Failed("CUSTOM_TABLE")
  ELSE DecodeWindows(source, From(delta, 5), cap)

-----------------------------------------------------------------------------
(* The encoder.                                                            *)

VARIABLES wins,   \* the windows so far; the last one is open
          text,   \* what the delta stands for
          enc     \* of the open window: where it starts, its segment, its caches

NewCaches(start, seg) ==
  [start |-> start, seg |-> seg, near |-> [i \in 0 .. S_NEAR - 1 |-> 0], next |-> 0,
   same |-> << >>]

EncInit == wins = <<>> /\ text = <<>> /\ enc = NewCaches(0, <<>>)

Vint(v) ==
  LET Digit(k) == (v \div k) % 128
  IN IF v < 128 THEN <<v>>
     ELSE IF v < 16384 THEN <<128 + Digit(128), Digit(1)>>
     ELSE IF v < 2097152 THEN <<128 + Digit(16384), 128 + Digit(128), Digit(1)>>
     ELSE <<128 + Digit(2097152), 128 + Digit(16384), 128 + Digit(128), Digit(1)>>

Concat(ss) ==
  LET upto[n \in Nat] == IF n = 0 THEN <<>> ELSE upto[n - 1] \o ss[n] IN upto[Len(ss)]

InstBytes(prog) == Concat([i \in DOMAIN prog |-> <<prog[i].op>> \o prog[i].sizes])

Insts == FoldLeft(LAMBDA n, w : n + Len(w.prog), 0, wins)

\* A new window: without a segment, with one of the base, or with one of the
\* text so far; with a checksum or not.
OpenWindow ==
  /\ Len(wins) < MaxWindows
  /\ wins # <<>> => Last(wins).prog # <<>>
  /\ \E ind \in Indicators :
     \E pos \in IF ind % 4 = 0 THEN {0} ELSE Starts :
       LET of == CASE ind % 4 = 0 -> <<>> [] ind % 4 = 1 -> Source [] ind % 4 = 2 -> text
           len == Len(of) - pos
       IN /\ ind % 4 # 0 => len > 0
          /\ wins' = Append(wins, [ind |-> ind, len |-> len, pos |-> pos, size |-> 0,
                                   prog |-> <<>>, data |-> <<>>, addr |-> <<>>])
          /\ enc' = NewCaches(Len(text), SubSeq(of, pos + 1, pos + len))
  /\ UNCHANGED text

\* The encoder's state while it writes the two halves of one opcode.
Draft == [e |-> enc, text |-> text, w |-> Last(wins), sizes |-> <<>>]

SizesFor(inst) == IF inst.size = 0 THEN Sizes ELSE {inst.size}
Sized(q, inst, n) == IF inst.size = 0 THEN [q EXCEPT !.sizes = @ \o Vint(n)] ELSE q
Writing(q, bytes) == [q EXCEPT !.text = @ \o bytes, !.w.size = @ + Len(bytes)]

\* The ways to write an address in a mode.
Addresses(e, mode, addr, here) ==
  CASE mode = 0 -> {Vint(addr)}
    [] mode = 1 -> {Vint(here - addr)}
    [] mode \in 2 .. 1 + S_NEAR -> IF addr >= e.near[mode - 2] THEN {Vint(addr - e.near[mode - 2])} ELSE {}
    [] mode >= 2 + S_NEAR -> {<<b>> : b \in {b \in {addr % 256} :
                                 Cached(e.same, (mode - 2 - S_NEAR) * 256 + b) = addr}}

\* What a COPY stands for: size letters of the segment and the window behind it,
\* of which the copy itself may write some.
Copied(seg, win, addr, size) ==
  LET all == seg \o win
      period == Len(all) - addr
  IN [i \in 1 .. size |-> all[addr + 1 + ((i - 1) % period)]]

\* The ways to write one half, by its type.
AddHalf(q, inst, bs) == [Writing(Sized(q, inst, Len(bs)), bs) EXCEPT !.w.data = @ \o bs]
AddHalves(q, inst) ==
  {AddHalf(q, inst, bs) : bs \in UNION {[1 .. n -> Letters] : n \in SizesFor(inst)}}

RunHalf(q, inst, n, b) ==
  [Writing(Sized(q, inst, n), [i \in 1 .. n |-> b]) EXCEPT !.w.data = Append(@, b)]
RunHalves(q, inst) == {RunHalf(q, inst, n, b) : n \in SizesFor(inst), b \in Letters}

\* The caches behind an address: the slot of the near cache that is next, and the
\* address's own slot of the same cache.
UpdatedCaches(e, addr) ==
  [e EXCEPT !.near = [@ EXCEPT ![e.next] = addr], !.next = (@ + 1) % S_NEAR,
            !.same = (addr % (S_SAME * 256) :> addr) @@ @]
CopyHalf(q, inst, n, addr, code) ==
  [Writing(Sized(q, inst, n), Copied(q.e.seg, From(q.text, q.e.start), addr, n)) EXCEPT
     !.w.addr = @ \o code, !.e = UpdatedCaches(@, addr)]
Here(q) == Len(q.e.seg) + Len(From(q.text, q.e.start))
CopiesOf(q, inst, n, addr) ==
  {CopyHalf(q, inst, n, addr, code) : code \in Addresses(q.e, inst.mode, addr, Here(q))}
CopyHalves(q, inst) == UNION {CopiesOf(q, inst, n, addr) : n \in SizesFor(inst), addr \in 0 .. Here(q) - 1}

Halves(q, inst) ==
  CASE inst.type = "NOOP" -> {q}
    [] inst.type = "ADD"  -> AddHalves(q, inst)
    [] inst.type = "RUN"  -> RunHalves(q, inst)
    [] inst.type = "COPY" -> CopyHalves(q, inst)

\* One more opcode in the open window.
Emit(op) ==
  /\ wins # <<>> /\ Insts < MaxInst
  /\ \E h1 \in Halves(Draft, s_code_table(op)[1]) :
       \E h2 \in Halves(h1, s_code_table(op)[2]) :
         /\ Len(h2.text) <= Capacity /\ Len(h2.w.data) <= MaxSection
         /\ Len(h2.w.addr) <= MaxSection
         /\ Len(InstBytes(Last(wins).prog)) + Len(h2.sizes) < MaxSection
         /\ enc' = h2.e /\ text' = h2.text
         /\ wins' = [wins EXCEPT ![Len(wins)] =
                       [h2.w EXCEPT !.prog = Append(@, [op |-> op, sizes |-> h2.sizes])]]

EncNext == OpenWindow \/ \E op \in Opcodes : Emit(op)
EncSpec == EncInit /\ [][EncNext]_<<wins, text, enc>>

-----------------------------------------------------------------------------
(* The bytes of the delta.                                                 *)

\* The code of an instruction pair in the table of the RFC.
Rfc3284Code(pair) == CHOOSE op \in 0 .. 255 : Rfc3284Table(op) = pair

Body(w, inst) ==
  Vint(w.size) \o <<0>> \o Vint(Len(w.data)) \o Vint(Len(inst)) \o Vint(Len(w.addr))
    \o w.data \o inst \o w.addr

WindowBytes(w, inst) ==
  LET Framed(body) == <<w.ind>> \o (IF w.ind % 4 # 0 THEN Vint(w.len) \o Vint(w.pos) ELSE <<>>)
       \o Vint(Len(body)) \o body \o [i \in 1 .. ChecksumLen(w.ind) |-> 0]
  IN Framed(Body(w, inst))

Delta == VCDIFF_MAGIC \o <<0>> \o
  Concat([k \in DOMAIN wins |->
            WindowBytes(wins[k], InstBytes(wins[k].prog))])

\* The same instructions in the codes of RFC 3284.
Rfc3284Delta == VCDIFF_MAGIC \o <<0>> \o
  Concat([k \in DOMAIN wins |->
            WindowBytes(wins[k], Concat([i \in DOMAIN wins[k].prog |->
              <<Rfc3284Code(s_code_table(wins[k].prog[i].op))>> \o wins[k].prog[i].sizes]))])

\* A delta the encoder wrote decodes to the text it stands for, whichever address
\* modes, double instructions, segments and checksums it uses.
DeltaDecodes == ably_vcdiff_decode(Source, Delta, Capacity) = [err |-> "OK", out |-> text]

Refuses(case) == ably_vcdiff_decode(case.base, case.delta, Capacity).err # "OK"

\* The deltas that are cut off in their last window.
CutOff(delta, last) ==
  {[base |-> Source, delta |-> SubSeq(delta, 1, n)] :
     n \in (Len(delta) - Len(WindowBytes(last, InstBytes(last.prog)))) + 1 .. Len(delta) - 1}

\* The bases that are shorter than what the delta refers to, or missing.
ShortBase(delta) ==
  {[base |-> SubSeq(Source, 1, n), delta |-> delta] :
     n \in {n \in 0 .. Len(Source) - 1 : \E k \in DOMAIN wins : Bit(wins[k].ind, 1)}}

\* Bytes that are not a whole delta made for the base at hand are no message:
\* neither a part of the text nor the text of the windows before is taken for it,
\* and after a reset of the delta state a delta is not mistaken for one of the new
\* sequence.
UnfitRefused ==
  wins # <<>> => LET Unfit(delta) == CutOff(delta, Last(wins)) \cup ShortBase(delta)
                 IN \A case \in Unfit(Delta) : Refuses(case)

-----------------------------------------------------------------------------
(* What the repository says and the code does not do.                      *)

\* vcdiff.h:18, "Minimal RFC 3284 VCDIFF decoder. Supports: standard default code
\* table": the instructions, in the codes of that table, decode to the same text.
StandardDeltaDecodes ==
  ably_vcdiff_decode(Source, Rfc3284Delta, Capacity) = [err |-> "OK", out |-> text]
=============================================================================
