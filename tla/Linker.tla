------------------------------- MODULE Linker -------------------------------
(***************************************************************************)
(* paideia-link (paideia-as-linker): parse, resolve, relocate and emit, as *)
(* the link driver chains them.                                            *)
(*                                                                         *)
(* A name hash is a number, as the relocator stores it in the code.  A     *)
(* section's content is a sequence of cells, one per byte: <<-1, b>> for a *)
(* byte b of the input, <<v, k>> for the k-th byte of a relocated word v.  *)
(* A table that does not decode has the effect of an absent one, and both  *)
(* are represented by an empty one.                                        *)
(***************************************************************************)
EXTENDS Integers, Sequences, Functions

CONSTANTS
    File,        \* what an input path may hold
    MaxInputs,   \* bound on the number of inputs of a link
    WordSize,    \* bytes of a relocated word (8)
    Words      \* the words there are (2^64)

HeaderSize == 96

(* An input with its tables decoded and its sections sliced out.  Opening  *)
(* it may be an error, or a panic where the header places the section      *)
(* table behind the end of the file; beyond has the types of the sections  *)
(* that start there, whose content cannot be sliced out either.            *)
SymEntry == [hash : Nat, binding : {"Local", "Global", "Weak"}, defined : BOOLEAN]
RelocKind == {"Abs64", "Pc32", "GotPc32", "PltPc32", "CapBind"}
RelocEntry == [kind : RelocKind, offset : Nat, symbol_index : Nat, addend : Int]
Cell == Int \X Nat
SectionType == {"Symtab", "Exports", "Imports", "Other"}
ParsedPax ==
    [opens : {"parsed", "error", "panic"}, beyond : SUBSET SectionType, symtab : Seq(SymEntry),
     exports : Seq(Nat), imports : Seq(Nat), relocs : Seq(RelocEntry), sections : Seq(Seq(Cell)), table_offset : Nat]

ASSUME LinkerAssumption ==
    /\ File \subseteq ParsedPax
    /\ MaxInputs \in Nat
    /\ WordSize \in Nat \ {0}
    /\ Words \in Nat \ {0}

VARIABLES
    phase,         \* the phase of the link driver
    inputs,        \* the parsed inputs, Vec<ParsedPax>
    reading,        \* <<pax_index, local_idx>>: the next entry to index
    by_hash,       \* GlobalSymbolTable::by_hash
    bindings,      \* GlobalSymbolTable::bindings
    provided,      \* GlobalCapabilityTable::provided
    diagnostics,   \* the B1700 and B1701 diagnostics emitted, a set
    relocated,     \* RelocatedLink: the section contents per input
    output         \* the file written, a sequence of at most one

linkVars == <<phase, inputs, reading, by_hash, bindings, provided, diagnostics, relocated, output>>

(* HashMap::insert.                                                        *)
Put(f, k, v) == [x \in DOMAIN f \union {k} |-> IF x = k THEN v ELSE f[x]]

LinkInit ==
    /\ phase = "parse"
    /\ inputs = <<>>
    /\ reading = <<1, 1>>
    /\ by_hash = <<>>
    /\ bindings = <<>>
    /\ provided = <<>>
    /\ diagnostics = {}
    /\ relocated = <<>>
    /\ output = <<>>

-----------------------------------------------------------------------------
(* Phase 1: parse_inputs stops at the first path that cannot be parsed.    *)
parse_pax(f) ==
    /\ phase = "parse"
    /\ Len(inputs) < MaxInputs
    /\ \/ f.opens = "parsed" /\ inputs' = Append(inputs, f) /\ UNCHANGED phase
       \/ f.opens = "error" /\ phase' = "failed" /\ UNCHANGED inputs
       \/ f.opens = "panic" /\ phase' = "panicked" /\ UNCHANGED inputs
    /\ UNCHANGED <<reading, by_hash, bindings, provided, diagnostics, relocated, output>>

Parsed ==
    /\ phase = "parse"
    /\ phase' = "index"
    /\ UNCHANGED <<inputs, reading, by_hash, bindings, provided, diagnostics, relocated, output>>

-----------------------------------------------------------------------------
(* section_content: what slicing out a section of these types of these     *)
(* inputs does where it starts behind the end of the file.                 *)
Panics(types, pax_indices) == \E i \in pax_indices : inputs[i].beyond \intersect types # {}

Panic ==
    /\ \/ /\ phase = "index" /\ reading[1] <= Len(inputs)
          /\ Panics({"Symtab"}, {reading[1]})
       \/ /\ phase = "index" /\ reading[1] > Len(inputs)
          /\ Panics({"Exports"}, DOMAIN inputs)
       \/ phase = "imports" /\ Panics({"Imports"}, DOMAIN inputs)
       \/ /\ phase = "relocate" /\ Len(relocated) < Len(inputs)
          /\ Panics(SectionType, {Len(relocated) + 1})
    /\ phase' = "panicked"
    /\ UNCHANGED <<inputs, reading, by_hash, bindings, provided, diagnostics, relocated, output>>

-----------------------------------------------------------------------------
(* Phase 2: resolve_inputs.                                                *)

(* The definition a new one replaces: none, or a weak one if the new one   *)
(* is not weak.                                                            *)

(* Mutant: a later strong definition replaces an earlier one.              *)
Replaces_last_strong(e) ==
    \/ e.hash \notin DOMAIN bindings
    \/ e.binding # "Weak"

Replaces(e) ==
    \/ e.hash \notin DOMAIN bindings
    \/ bindings[e.hash] = "Weak" /\ e.binding # "Weak"

IndexSymbol ==
    /\ phase = "index"
    /\ reading[1] <= Len(inputs)
    /\ ~Panics({"Symtab"}, {reading[1]})
    /\ reading[2] <= Len(inputs[reading[1]].symtab)
    /\ LET e == inputs[reading[1]].symtab[reading[2]]
       IN IF e.defined /\ Replaces(e)
          THEN /\ by_hash' = Put(by_hash, e.hash, reading)
               /\ bindings' = Put(bindings, e.hash, e.binding)
          ELSE UNCHANGED <<by_hash, bindings>>
    /\ reading' = <<reading[1], reading[2] + 1>>
    /\ UNCHANGED <<phase, inputs, provided, diagnostics, relocated, output>>

NextSymtab ==
    /\ phase = "index"
    /\ reading[1] <= Len(inputs)
    /\ ~Panics({"Symtab"}, {reading[1]})
    /\ reading[2] > Len(inputs[reading[1]].symtab)
    /\ reading' = <<reading[1] + 1, 1>>
    /\ UNCHANGED <<phase, inputs, by_hash, bindings, provided, diagnostics, relocated, output>>

(* The exports of all inputs; a later input's export replaces an earlier   *)
(* one's.                                                                  *)
IndexExports ==
    /\ phase = "index"
    /\ reading[1] > Len(inputs)
    /\ ~Panics({"Exports"}, DOMAIN inputs)
    /\ provided' =
          [h \in UNION {Range(inputs[i].exports) : i \in DOMAIN inputs} |->
              CHOOSE i \in DOMAIN inputs :
                  /\ h \in Range(inputs[i].exports)
                  /\ \A k \in DOMAIN inputs : h \in Range(inputs[k].exports) => k <= i]
    /\ phase' = "symbols"
    /\ UNCHANGED <<inputs, reading, by_hash, bindings, diagnostics, relocated, output>>

(* A diagnostic for what an input asks for and nothing provides.           *)
Report(code, asked, found) ==
    UNION {{<<code, i, h>> : h \in asked[i] \ found} : i \in DOMAIN inputs}

Undefined(pax) == {e.hash : e \in {x \in Range(pax.symtab) : ~x.defined}}

CheckSymbols ==
    /\ phase = "symbols"
    /\ diagnostics' = diagnostics \union
          Report(1700, [i \in DOMAIN inputs |-> Undefined(inputs[i])], DOMAIN by_hash)
    /\ phase' = "imports"
    /\ UNCHANGED <<inputs, reading, by_hash, bindings, provided, relocated, output>>

(* Mutant: an import is also satisfied by a symbol of that name.           *)
CheckImports_by_symbol ==
    /\ phase = "imports"
    /\ ~Panics({"Imports"}, DOMAIN inputs)
    /\ diagnostics' = diagnostics \union
          Report(1701, [i \in DOMAIN inputs |-> Range(inputs[i].imports)],
                 DOMAIN provided \union DOMAIN by_hash)
    /\ phase' = IF diagnostics' = {} THEN "relocate" ELSE "failed"
    /\ UNCHANGED <<inputs, reading, by_hash, bindings, provided, relocated, output>>

CheckImports ==
    /\ phase = "imports"
    /\ ~Panics({"Imports"}, DOMAIN inputs)
    /\ diagnostics' = diagnostics \union
          Report(1701, [i \in DOMAIN inputs |-> Range(inputs[i].imports)], DOMAIN provided)
    /\ phase' = IF diagnostics' = {} THEN "relocate" ELSE "failed"
    /\ UNCHANGED <<inputs, reading, by_hash, bindings, provided, relocated, output>>

-----------------------------------------------------------------------------
(* Phase 3: relocate_inputs, one input after the other.  symbol_mapping    *)
(* has the hash of every entry of the input's own symbol table.            *)
SymbolId(pax, r) ==
    IF r.symbol_index + 1 \in DOMAIN pax.symtab
    THEN pax.symtab[r.symbol_index + 1].hash
    ELSE r.symbol_index

(* Mutant: the bounds check forgets the width of the word.                 *)
apply_reloc_narrow(sections, r, pax) ==
    IF \/ r.kind # "Abs64"
       \/ sections = <<>>
       \/ r.offset + 1 > Len(sections[1])
    THEN sections
    ELSE [sections EXCEPT ![1] =
             [p \in DOMAIN @ |->
                 IF p - 1 - r.offset \in 0..(WordSize - 1)
                 THEN <<(SymbolId(pax, r) + r.addend) % Words, p - 1 - r.offset>>
                 ELSE @[p]]]

apply_reloc(sections, r, pax) ==
    IF \/ r.kind # "Abs64"
       \/ sections = <<>>
       \/ r.offset + WordSize > Len(sections[1])
    THEN sections
    ELSE [sections EXCEPT ![1] =
             [p \in DOMAIN @ |->
                 IF p - 1 - r.offset \in 0..(WordSize - 1)
                 THEN <<(SymbolId(pax, r) + r.addend) % Words, p - 1 - r.offset>>
                 ELSE @[p]]]

Relocated(pax) ==
    LET after[n \in 0..Len(pax.relocs)] ==
          IF n = 0 THEN pax.sections ELSE apply_reloc(after[n - 1], pax.relocs[n], pax)
    IN after[Len(pax.relocs)]

relocate_input ==
    /\ phase = "relocate"
    /\ Len(relocated) < Len(inputs)
    /\ ~Panics(SectionType, {Len(relocated) + 1})
    /\ relocated' = Append(relocated, Relocated(inputs[Len(relocated) + 1]))
    /\ UNCHANGED <<phase, inputs, reading, by_hash, bindings, provided, diagnostics, output>>

-----------------------------------------------------------------------------
(* Phase 4: emit_final_pax.  The section table is the first input's, and   *)
(* so is the number of sections; the hash is taken before the offset of    *)
(* the section table is set.  The hash is represented by what it covers.   *)
Sizes(sections) == [k \in DOMAIN sections |-> Len(sections[k])]

(* The empty vector extended by one part after the other.                  *)
extend_from_slice(parts) ==
    LET v[n \in 0..Len(parts)] == IF n = 0 THEN <<>> ELSE v[n - 1] \o parts[n]
    IN v[Len(parts)]

MergedSection(k) ==
    extend_from_slice([i \in DOMAIN relocated |->
        IF k \in DOMAIN relocated[i] THEN relocated[i][k] ELSE <<>>])

ContentHash(offset, table, contents) == <<offset, table, extend_from_slice(contents)>>

emit_minimal_pax ==
    [offset |-> HeaderSize, table |-> <<>>, contents |-> <<>>,
     hash |-> ContentHash(HeaderSize, <<>>, <<>>)]

emit_final_pax ==
    LET first == inputs[1]
        table == Sizes(first.sections)
        merged == [k \in DOMAIN first.sections |-> MergedSection(k)]
    IN [offset |-> HeaderSize, table |-> table, contents |-> merged,
        hash |-> ContentHash(first.table_offset, table, merged)]

(* link writes the file once every phase has succeeded; the write can fail *)
(* and then leaves no link.                                                *)
Emit ==
    /\ phase = "relocate"
    /\ Len(relocated) = Len(inputs)
    /\ \/ /\ output' = <<IF inputs = <<>> THEN emit_minimal_pax ELSE emit_final_pax>>
          /\ phase' = "done"
       \/ phase' = "failed" /\ UNCHANGED output
    /\ UNCHANGED <<inputs, reading, by_hash, bindings, provided, diagnostics, relocated>>

LinkDone == phase \in {"done", "failed", "panicked"}

Stop == LinkDone /\ UNCHANGED linkVars

Step ==
    \/ Parsed
    \/ IndexSymbol \/ NextSymtab \/ IndexExports \/ CheckSymbols \/ CheckImports
    \/ relocate_input
    \/ Emit
    \/ Panic

LinkNext == (\E f \in File : parse_pax(f)) \/ Step \/ Stop

LinkSpec == LinkInit /\ [][LinkNext]_linkVars

-----------------------------------------------------------------------------
Before(c, d) == c[1] < d[1] \/ (c[1] = d[1] /\ c[2] < d[2])

EntryAt(c) == inputs[c[1]].symtab[c[2]]

DefinitionsBefore(c) ==
    UNION {{<<i, n>> : n \in {m \in DOMAIN inputs[i].symtab :
                                 Before(<<i, m>>, c) /\ inputs[i].symtab[m].defined}} :
           i \in DOMAIN inputs}

(* The global symbol table, at every moment of the indexing: a name that   *)
(* has a strong definition among the entries read is bound to the first of *)
(* them in input order, another one to its first weak definition, and a    *)
(* name without a definition is not bound.  This is what resolve.rs does   *)
(* ("Otherwise keep the existing one"); paideia-link.md has it the other   *)
(* way round for two Globals, see LastGlobalWins.                          *)
FirstStrongestWins ==
    /\ \A h \in DOMAIN by_hash :
          by_hash[h] \in DefinitionsBefore(reading) /\ EntryAt(by_hash[h]).hash = h
    /\ \A c \in DefinitionsBefore(reading) :
          LET h == EntryAt(c).hash IN
          /\ h \in DOMAIN by_hash
          /\ EntryAt(c).binding # "Weak" => EntryAt(by_hash[h]).binding # "Weak"
          /\ (EntryAt(c).binding = "Weak") = (EntryAt(by_hash[h]).binding = "Weak")
                => ~Before(c, by_hash[h])

(* paideia-link.md: "Two Global definitions are an error (PR-future;       *)
(* current behaviour is last-wins)": once everything is indexed, a name is *)
(* not bound to a Global definition that another one follows.              *)
LastGlobalWins ==
    phase \in {"symbols", "imports", "relocate", "done"} =>
        \A c, d \in {x \in DefinitionsBefore(reading) : EntryAt(x).binding = "Global"} :
            EntryAt(c).hash = EntryAt(d).hash /\ Before(c, d) => by_hash[EntryAt(c).hash] # c

(* A file is written only for inputs that need nothing from outside: every *)
(* undefined symbol has a definition and every imported capability an      *)
(* export in some input; and inputs that need nothing are not rejected for *)
(* it.                                                                     *)
Resolvable ==
    /\ \A i \in DOMAIN inputs : \A h \in Undefined(inputs[i]) :
          \E k \in DOMAIN inputs : \E n \in DOMAIN inputs[k].symtab :
              inputs[k].symtab[n].hash = h /\ inputs[k].symtab[n].defined
    /\ \A i \in DOMAIN inputs : \A h \in Range(inputs[i].imports) :
          \E k \in DOMAIN inputs : h \in Range(inputs[k].exports)

WrittenOnlyIfResolved ==
    /\ phase \in {"relocate", "done"} => Resolvable
    /\ diagnostics # {} /\ phase = "failed" => ~Resolvable

(* In the written file, the code section of each input lies behind those   *)
(* of the inputs before it, and each of its bytes is the one the last      *)
(* in-bounds relocation that covers it demands, or else the input's own.   *)
SizeOf(i, k) == IF k \in DOMAIN inputs[i].sections THEN Len(inputs[i].sections[k]) ELSE 0

Base(i, k) ==
    LET end[n \in 0..Len(inputs)] == IF n = 0 THEN 0 ELSE end[n - 1] + SizeOf(n, k)
    IN end[i - 1]

Covers(pax, n, p) ==
    LET r == pax.relocs[n] IN
    /\ r.kind = "Abs64"
    /\ r.offset + WordSize <= Len(pax.sections[1])
    /\ p - 1 \in r.offset..(r.offset + WordSize - 1)

RelocatedByte(pax, p) ==
    IF \E n \in DOMAIN pax.relocs : Covers(pax, n, p)
    THEN LET n == CHOOSE n \in DOMAIN pax.relocs :
                     Covers(pax, n, p) /\ \A m \in DOMAIN pax.relocs : Covers(pax, m, p) => m <= n
         IN <<(SymbolId(pax, pax.relocs[n]) + pax.relocs[n].addend) % Words,
              p - 1 - pax.relocs[n].offset>>
    ELSE pax.sections[1][p]

OutputPlacesInputs ==
    \A o \in Range(output) : inputs # <<>> =>
        \A k \in DOMAIN inputs[1].sections :
            \A i \in DOMAIN inputs : k \in DOMAIN inputs[i].sections =>
                \A p \in DOMAIN inputs[i].sections[k] :
                    /\ Base(i, k) + p \in DOMAIN o.contents[k]
                    /\ o.contents[k][Base(i, k) + p] =
                          IF k = 1 THEN RelocatedByte(inputs[i], p) ELSE inputs[i].sections[k][p]

(* What a reader of the file finds in its sections: the section table      *)
(* gives their sizes, and the contents follow it in order.                 *)
ReadBack(o) ==
    LET end[k \in 0..Len(o.table)] == IF k = 0 THEN 0 ELSE end[k - 1] + o.table[k]
    IN [k \in DOMAIN o.table |->
           SubSeq(extend_from_slice(o.contents), end[k - 1] + 1, end[k])]

(* paideia-link.md: "A verifier can recompute the hash from the on-disk    *)
(* bytes and compare" (section table offset, table and section contents).  *)
OutputVerifies ==
    \A o \in Range(output) : o.hash = ContentHash(o.offset, o.table, ReadBack(o))

=============================================================================
