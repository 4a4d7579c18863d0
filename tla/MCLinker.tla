------------------------------ MODULE MCLinker ------------------------------
(* Inputs for the linker.  MCSymbolFile varies the symbol table: up to two *)
(* entries for a name the inputs share, or one that refers to or defines   *)
(* another.  MCLayoutFile varies the sections and the relocations.         *)
EXTENDS Linker, SequencesExt

MCFile(symtab, exports, imports, relocs, sections, offset) ==
    [opens |-> "parsed", beyond |-> {}, symtab |-> symtab, exports |-> exports, imports |-> imports,
     relocs |-> relocs, sections |-> sections, table_offset |-> offset]

MCEmptyFile == MCFile(<<>>, <<>>, <<>>, <<>>, <<>>, HeaderSize)

MCBadFile ==
    {[MCEmptyFile EXCEPT !.opens = o] : o \in {"error", "panic"}} \union
    {[MCEmptyFile EXCEPT !.beyond = {t}] : t \in SectionType}

Sym(h, b, d) == [hash |-> h, binding |-> b, defined |-> d]

MCEntry ==
    {Sym(1, "Local", TRUE), Sym(1, "Global", TRUE), Sym(1, "Weak", TRUE), Sym(1, "Global", FALSE)}

MCSymtab ==
    BoundedSeq(MCEntry, 2) \union
    {<<Sym(2, "Global", FALSE)>>, <<Sym(2, "Weak", TRUE), Sym(1, "Global", FALSE)>>}

MCSymbolFile ==
    {MCFile(t, <<>>, <<>>, <<>>, <<>>, HeaderSize) : t \in MCSymtab} \union
    {MCFile(<<>>, e, i, <<>>, <<>>, HeaderSize) : e, i \in {<<>>, <<1>>, <<2, 1>>}} \union
    MCBadFile

Bytes(n, b) == [k \in 1..n |-> <<-1, b>>]

Reloc(k, o, s, a) == [kind |-> k, offset |-> o, symbol_index |-> s, addend |-> a]

MCRelocs ==
    {<<>>} \union
    {<<Reloc("Abs64", o, 0, 1)>> : o \in 0..2} \union
    {<<Reloc("Abs64", o, 0, -8), Reloc("Abs64", p, 5, 2)>> : o \in 0..1, p \in 0..1} \union
    {<<Reloc("Pc32", 0, 0, 0), Reloc("Abs64", 1, 0, 15)>>}

MCSections ==
    {<<>>, <<Bytes(3, 1)>>, <<Bytes(2, 2), Bytes(1, 3)>>, <<<<>>, Bytes(2, 4)>>}

MCLayoutFile ==
    {MCFile(<<Sym(7, "Global", TRUE)>>, <<>>, <<>>, r, s, HeaderSize) :
        r \in MCRelocs, s \in MCSections}

MCFiles == MCSymbolFile \union MCLayoutFile
=============================================================================
