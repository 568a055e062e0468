--------------------------- MODULE MCNylinkImage ---------------------------
(* Links for TLC: one object's sections and symbols, fixed relocations that *)
(* use the PLT, the GOT and dynamic relocations, and one that is any type   *)
(* against any symbol.                                                      *)
EXTENDS NylinkImage

N(base) == <<"", base>>

Section(kind, size, align) == [kind |-> kind, size |-> size, align |-> align]
Symbol(name, bind, def, dyn, func, sec, value) ==
    [name |-> name, bind |-> bind, def |-> def, dyn |-> dyn, func |-> func,
     sec |-> sec, value |-> value, default |-> TRUE]
Defined(name, bind, func, sec, value) == Symbol(name, bind, TRUE, FALSE, func, sec, value)
Undefined(name, bind) == Symbol(name, bind, FALSE, FALSE, FALSE, 0, 0)
Shared(name, func) == Symbol(name, "global", TRUE, TRUE, func, 0, 0)
Reloc(type, sec, off, sym, addend) ==
    [type |-> type, sec |-> sec, off |-> off, sym |-> sym, addend |-> addend]

Job == [format |-> "elf", coff |-> FALSE, machine |-> "x86_64", mode |-> "executable",
        base |-> 0, entry |-> Unnamed, soname |-> Unnamed, rpath |-> Unnamed,
        interp |-> Unnamed, needed |-> {}, shared_input |-> FALSE, exports |-> {},
        imports |-> <<>>, dlls |-> <<>>, sections |-> <<>>, symbols |-> <<>>,
        relocs |-> <<>>]

(* ELF.  Section 1 is code of 64 bytes, 2 code that may fill a page, 3      *)
(* data, 4 constants, 5 zero-initialised data or more data.                 *)
ElfSections(code, bss) ==
    <<Section("text", 64, 16), Section("text", code, 4), Section("data", 60, 8),
      Section("rodata", 21, 1), Section(bss, 16, 32)>>

Own == <<Defined(N("main"), "global", TRUE, 1, 16), Defined(Unnamed, "local", FALSE, 3, 0),
         Defined(N("x"), "global", FALSE, 3, 40), Defined(N("h"), "weak", TRUE, 1, 32),
         Defined(N("h"), "global", TRUE, 2, 4), Undefined(N("w"), "weak"),
         Defined(N("b"), "global", FALSE, 5, 8)>>
Referenced == <<Undefined(N("f"), "global"), Undefined(N("g"), "global")>>
Library == <<Shared(N("f"), TRUE), Shared(N("g"), FALSE)>>

Types(machine) ==
    IF machine = "aarch64" THEN {"abs64", "call26", "adrp", "add_lo12", "ldst32_lo12",
                                    "ldst64_lo12", "none"}
    ELSE {"abs64", "pc32", "plt32", "gotpcrel", "none"}

FixedX86 == <<Reloc("plt32", 1, 4, 8, -4), Reloc("gotpcrel", 1, 8, 9, -4),
              Reloc("gotpcrel", 1, 12, 9, -4), Reloc("abs64", 3, 8, 3, 4),
              Reloc("abs64", 3, 16, 8, 0), Reloc("plt32", 1, 20, 9, -4)>>
FixedA64 == <<Reloc("call26", 1, 4, 8, 0), Reloc("adrp", 1, 8, 3, 4),
              Reloc("add_lo12", 1, 12, 3, 4), Reloc("abs64", 3, 8, 3, 0)>>

Free(machine, symbols) ==
    {Reloc(t, s, o, y, IF t \in {"abs64", "call26", "adrp"} THEN 0 ELSE -4) :
        t \in Types(machine), s \in {1, 3}, o \in {24, 60}, y \in 0..symbols}
      \cup {Reloc("abs64", 4, 8, y, 0) : y \in {3, symbols}}

Elf(machine, mode, code, bss, with) ==
    LET symbols == Own \o (IF with = "alone" THEN <<>> ELSE Referenced)
                       \o (IF with = "library" THEN Library ELSE <<>>)
        fixed == IF with = "alone" THEN <<>>
                 ELSE IF machine = "aarch64" THEN FixedA64 ELSE FixedX86
    IN {[Job EXCEPT !.machine = machine, !.mode = mode, !.symbols = symbols,
                    !.sections = ElfSections(code, bss),
                    !.relocs = Append(fixed, x),
                    !.shared_input = (with = "library"),
                    !.needed = IF with = "library" THEN {N("lib")} ELSE {}]
          : x \in Free(machine, IF with = "alone" THEN Len(Own) ELSE Len(Own) + 2)}

ElfJobs ==
    UNION {Elf(m, mode, 24, bss, "library")
             : m \in {"x86_64", "aarch64"}, mode \in {"executable", "pie", "shared"},
               bss \in {"bss", "data"}}
    \cup UNION {Elf(m, mode, 4090, "bss", "alone")
                  : m \in {"x86_64", "aarch64"}, mode \in {"executable", "pie"}}
    \cup UNION {Elf(m, "shared", 4090, "bss", "undefined") : m \in {"x86_64", "aarch64"}}

(* Other entries, names and strings.                                        *)
NamedJobs ==
    LET some == {j \in Elf("x86_64", "executable", 24, "bss", "library") \cup
                       Elf("x86_64", "pie", 24, "bss", "library") \cup
                       Elf("x86_64", "shared", 24, "bss", "library") \cup
                       Elf("x86_64", "pie", 24, "bss", "alone")
                   : \A k \in DOMAIN j.relocs : j.relocs[k].off # 60}
    IN {[j EXCEPT !.soname = so, !.rpath = rp, !.interp = so, !.entry = e] :
           j \in {k \in some : k.relocs[Len(k.relocs)].type \in {"abs64", "gotpcrel"}},
           so, rp \in {Unnamed, N("string")}, e \in {N("main"), N("h"), N("x"), N("none")}}
       \cup {[j EXCEPT !.coff = TRUE] : j \in Elf("x86_64", "pie", 24, "bss", "alone")}
       \cup {[j EXCEPT !.base = 16777216] : j \in Elf("x86_64", "executable", 24, "bss", "alone")}

(* PE.  The code ends just before a page, so that thunks may cross it.      *)
PeSections(code) ==
    <<Section("text", code, 16), Section("rodata", 12, 8), Section("data", 40, 8),
      Section("bss", 16, 8)>>

PeSymbols ==
    <<Defined(N("main"), "global", TRUE, 1, 16), Defined(N("x"), "global", FALSE, 3, 16),
      Defined(N("b"), "global", FALSE, 4, 8), Undefined(N("f"), "global"),
      Shared(N("f"), TRUE), Shared(<<"__imp_", "f">>, FALSE),
      Shared(N("v"), FALSE), Shared(<<"__imp_", "v">>, FALSE),
      Shared(N("k"), TRUE), Shared(<<"__imp_", "k">>, FALSE),
      Defined(<<".refptr.", "v">>, "global", FALSE, 2, 0),
      Defined(N("d"), "global", FALSE, 0, 4)>>

PeImports == <<[name |-> N("f"), dll |-> 1], [name |-> N("v"), dll |-> 2],
               [name |-> N("k"), dll |-> 1]>>

PeJobs ==
    {[Job EXCEPT !.format = "pe", !.coff = TRUE, !.mode = mode,
                 !.soname = IF mode = "dll" THEN N("string") ELSE Unnamed,
                 !.exports = exports, !.imports = PeImports,
                 !.dlls = <<N("lib"), N("string")>>,
                 !.sections = PeSections(code), !.symbols = PeSymbols,
                 !.relocs = <<Reloc("abs64", 3, 0, 2, 8), Reloc("pc32", 1, 0, 9, -4),
                              Reloc("pc32", 1, 8, 6, -4), x>>]
       : mode \in {"executable", "dll"}, code \in {48, 4060, 4090},
         exports \in {{}, {N("x")}, {N("main"), N("x"), N("b"), N("d"), N("none")}},
         x \in {Reloc(t, s, 24, y, IF t = "abs64" THEN 0 ELSE -4) :
                  t \in {"abs64", "pc32"}, s \in {1, 3}, y \in 1..Len(PeSymbols)}}

(* The entry point is an import, a word of data or in no section.           *)
EntryJobs ==
    {[j EXCEPT !.entry = e] :
        j \in {k \in PeJobs : k.mode = "executable" /\ k.exports = {}
                              /\ Last(k.relocs) = Reloc("pc32", 1, 24, 4, -4)},
        e \in {N("f"), N("k"), N("v"), N("x"), N("d"), <<".refptr.", "v">>}}

(* PE images with a base of their own.                                      *)
BasedJobs ==
    {[j EXCEPT !.base = 65536] :
        j \in {k \in PeJobs : k.exports = {N("x")} /\ Last(k.relocs).sec = 1}}

RunJobs == ElfJobs \cup NamedJobs \cup PeJobs \cup EntryJobs \cup BasedJobs
AloneJobs == Elf("x86_64", "pie", 24, "bss", "alone")

Names == {"", "__imp_", ".refptr."} \X
         {"", "main", "_start", "x", "h", "w", "b", "f", "g", "v", "k", "d", "none", "lib",
          "string", "interp", "output.dll"}
(* Page-aligned as the real ones, within the reach of TLC's integers.        *)
RunPeBase == [executable |-> 131072, dll |-> 196608]
RunLength == [n \in Names |-> CASE n[2] = "string" -> 11 [] n[2] = "interp" -> 27
                                [] n[2] = "lib" -> 6 [] n[2] = "output.dll" -> 10
                                [] OTHER -> 4]
(* Names that share buckets.                                                *)
RunHash == [n \in Names |-> CASE n[2] \in {"x", "h", "f"} -> 12 [] n[2] \in {"main", "g"} -> 7
                              [] OTHER -> 3]
=============================================================================
