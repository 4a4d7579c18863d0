---------------------------- MODULE LinkerProofs ----------------------------
(***************************************************************************)
(* Proofs about the linker, for any number of inputs, any tables, sections *)
(* and relocations, and any width of a word.                               *)
(***************************************************************************)
EXTENDS Linker, WellFoundedInduction, TLAPS

(***************************************************************************)
(* Induction for what the recursive definitions compute: over a set of     *)
(* numbers rather than over a predicate, and with the step of a recursion  *)
(* as a function.                                                          *)
(***************************************************************************)

(* A set of naturals has a least element.                                  *)
LEMMA LeastNat ==
  ASSUME NEW T, T \subseteq Nat, T # {}
  PROVE  \E x \in T : \A y \in T : x <= y
<1> DEFINE R == {ss \in Nat \X Nat : ss[1] < ss[2]}
<1>1. IsWellFoundedOn(R, Nat)
  BY NatLessThanWellFounded DEF OpToRel
<1>2. \A x, y \in Nat : y < x => <<y, x>> \in R
  OBVIOUS
<1> HIDE DEF R
<1>3. PICK x \in T : \A y \in T : <<y, x>> \notin R
  BY <1>1, WFMin, Zenon
<1>4. ASSUME NEW y \in T PROVE x <= y
  <2>1. x \in Nat /\ y \in Nat
    BY <1>3
  <2>2. ~(y < x)
    BY <1>2, <1>3, <2>1, Zenon
  <2> QED  BY <2>1, <2>2
<1> QED  BY <1>4

(* A set with 0 and, with each number below N, the next one has them all.  *)
LEMMA UpTo ==
  ASSUME NEW N \in Nat, NEW S, 0 \in S,
         \A n \in 0..(N - 1) : n \in S => n + 1 \in S
  PROVE  \A n \in 0..N : n \in S
<1> DEFINE T == {n \in 0..N : n \notin S}
<1> SUFFICES ASSUME T # {} PROVE FALSE
  OBVIOUS
<1>1. PICK x \in T : \A y \in T : x <= y
  <2>1. T \subseteq Nat
    OBVIOUS
  <2> HIDE DEF T
  <2> QED  BY <2>1, LeastNat, Zenon
<1>2. x - 1 \in 0..(N - 1) /\ x - 1 \in S
  BY <1>1
<1> QED  BY <1>1, <1>2

(* g starts from base and takes the step F N times.                        *)
Iterates(g, N, X, base, F) ==
  /\ g \in [0..N -> X]
  /\ g[0] = base
  /\ \A n \in 1..N : g[n] = F[<<g[n - 1], n>>]

(* Such a function exists.                                                 *)
LEMMA Recursion ==
  ASSUME NEW N, N \in Nat, NEW X, NEW base, base \in X, NEW F, F \in [X \X (1..N) -> X]
  PROVE  \E g : Iterates(g, N, X, base, F)
<1> DEFINE Runs(k, g) == /\ g \in [0..k -> X]
                         /\ g[0] = base
                         /\ \A n \in 1..k : g[n] = F[<<g[n - 1], n>>]
           S == {k \in 0..N : \E g : Runs(k, g)}
<1>1. 0 \in S
  <2>1. Runs(0, [n \in 0..0 |-> base])
    OBVIOUS
  <2> HIDE DEF Runs
  <2> QED  BY <2>1
<1>2. ASSUME NEW k \in 0..(N - 1), k \in S
      PROVE  k + 1 \in S
  <2>1. PICK g : Runs(k, g)
    BY <1>2
  <2> DEFINE h == [n \in 0..(k + 1) |-> IF n = k + 1 THEN F[<<g[k], k + 1>>] ELSE g[n]]
  <2>2. g[k] \in X /\ F[<<g[k], k + 1>>] \in X
    BY <2>1
  <2>3. h \in [0..(k + 1) -> X] /\ h[0] = base
    BY <2>1, <2>2
  <2>4. ASSUME NEW n \in 1..(k + 1)
        PROVE  h[n] = F[<<h[n - 1], n>>]
    <3>1. h[n - 1] = g[n - 1]
      OBVIOUS
    <3>2. CASE n = k + 1
      <4>1. h[n] = F[<<g[k], k + 1>>] /\ n - 1 = k
        BY <3>2
      <4> HIDE DEF h
      <4> QED  BY <3>1, <3>2, <4>1
    <3>3. CASE n # k + 1
      <4>1. n \in 1..k /\ h[n] = g[n]
        BY <3>3
      <4> QED  BY <2>1, <3>1, <4>1
    <3> QED  BY <3>2, <3>3
  <2>5. Runs(k + 1, h)
    BY <2>3, <2>4, Zenon
  <2> HIDE DEF Runs, h
  <2> QED  BY <2>5
<1> HIDE DEF S
<1>3. N \in S
  BY <1>1, <1>2, UpTo
<1> QED  BY <1>3 DEF S, Iterates

-----------------------------------------------------------------------------

(* The places in the symbol tables: an input and an entry of it.           *)
Place == (Nat \ {0}) \X (Nat \ {0})

(* The state before and while the symbols are indexed.                     *)
LinkTypeOK ==
    /\ inputs \in Seq(File)
    /\ reading \in Place
    /\ DOMAIN bindings = DOMAIN by_hash
    /\ phase = "parse" => reading = <<1, 1>> /\ DOMAIN by_hash = {}

(* FirstStrongestWins of the files, the definitions read and the index.    *)
EntryIn(files, c) == files[c[1]].symtab[c[2]]

Strongest(files, read, bound) ==
    /\ \A h \in DOMAIN bound : bound[h] \in read /\ EntryIn(files, bound[h]).hash = h
    /\ \A c \in read :
          LET h == EntryIn(files, c).hash IN
          /\ h \in DOMAIN bound
          /\ EntryIn(files, c).binding # "Weak" => EntryIn(files, bound[h]).binding # "Weak"
          /\ (EntryIn(files, c).binding = "Weak") = (EntryIn(files, bound[h]).binding = "Weak")
                => ~Before(c, bound[h])

(* The binding kept beside a name is the one of the definition it has.     *)
BindingsMatch == \A h \in DOMAIN by_hash : bindings[h] = EntryAt(by_hash[h]).binding

SymbolsInv == LinkTypeOK /\ BindingsMatch /\ FirstStrongestWins

-----------------------------------------------------------------------------
(* What the readers return has its types.                                  *)
LEMMA InputTyped ==
    ASSUME inputs \in Seq(File), NEW i \in DOMAIN inputs
    PROVE  /\ i \in Nat \ {0} /\ inputs[i] \in File
           /\ inputs[i].symtab \in Seq(SymEntry)
           /\ inputs[i].exports \in Seq(Nat) /\ inputs[i].imports \in Seq(Nat)
           /\ inputs[i].relocs \in Seq(RelocEntry)
           /\ inputs[i].sections \in Seq(Seq(Cell))
<1>1. i \in Nat \ {0} /\ inputs[i] \in File
  OBVIOUS
<1>2. inputs[i] \in ParsedPax
  BY <1>1, LinkerAssumption
<1> QED  BY <1>1, <1>2 DEF ParsedPax

(* What it takes to be a definition read before c.                         *)
LEMMA DefinitionBefore ==
    ASSUME NEW c, NEW d
    PROVE  d \in DefinitionsBefore(c) <=>
             /\ d = <<d[1], d[2]>>
             /\ d[1] \in DOMAIN inputs
             /\ d[2] \in DOMAIN inputs[d[1]].symtab
             /\ Before(d, c)
             /\ EntryAt(d).defined
<1> DEFINE Rows(i) == {<<i, n>> : n \in {m \in DOMAIN inputs[i].symtab :
                                 Before(<<i, m>>, c) /\ inputs[i].symtab[m].defined}}
<1>1. ASSUME NEW i \in DOMAIN inputs, d \in Rows(i)
      PROVE  /\ d = <<d[1], d[2]>>
             /\ d[1] \in DOMAIN inputs
             /\ d[2] \in DOMAIN inputs[d[1]].symtab
             /\ Before(d, c)
             /\ EntryAt(d).defined
  <2>1. PICK n \in DOMAIN inputs[i].symtab :
           d = <<i, n>> /\ Before(<<i, n>>, c) /\ inputs[i].symtab[n].defined
    BY <1>1
  <2>2. d[1] = i /\ d[2] = n
    BY <2>1
  <2> QED  BY <2>1, <2>2 DEF EntryAt
<1>2. ASSUME d = <<d[1], d[2]>>, d[1] \in DOMAIN inputs,
             d[2] \in DOMAIN inputs[d[1]].symtab, Before(d, c), EntryAt(d).defined
      PROVE  d \in Rows(d[1])
  <2>1. Before(<<d[1], d[2]>>, c) /\ inputs[d[1]].symtab[d[2]].defined
    BY <1>2 DEF EntryAt
  <2> QED  BY <1>2, <2>1
<1> HIDE DEF Rows
<1>3. DefinitionsBefore(c) = UNION {Rows(i) : i \in DOMAIN inputs}
  BY DEF DefinitionsBefore, Rows
<1> QED  BY <1>1, <1>2, <1>3

(* Nothing is read at the start.                                           *)
LEMMA NothingBefore ==
    ASSUME inputs \in Seq(File)
    PROVE  DefinitionsBefore(<<1, 1>>) = {}
<1>1. ASSUME NEW d \in DefinitionsBefore(<<1, 1>>) PROVE FALSE
  <2>1. /\ d[1] \in DOMAIN inputs /\ d[2] \in DOMAIN inputs[d[1]].symtab
        /\ Before(d, <<1, 1>>)
    BY DefinitionBefore
  <2>2. d[1] \in Nat \ {0} /\ inputs[d[1]].symtab \in Seq(SymEntry)
    BY <2>1, InputTyped
  <2>3. d[2] \in Nat \ {0}
    BY <2>1, <2>2
  <2> QED  BY <2>1, <2>3 DEF Before
<1> QED  BY <1>1

(* The order of reading is asymmetric.                                     *)
LEMMA BeforeAsymmetric ==
    ASSUME NEW c \in Place, NEW d \in Place
    PROVE  ~(Before(c, d) /\ Before(d, c))
BY DEF Before, Place

(* Reading the next entry adds it, if it is a definition.                  *)
LEMMA ReadOne ==
    ASSUME inputs \in Seq(File), reading \in Place, reading[1] \in DOMAIN inputs,
           reading[2] \in DOMAIN inputs[reading[1]].symtab
    PROVE  DefinitionsBefore(<<reading[1], reading[2] + 1>>) =
             DefinitionsBefore(reading) \union (IF EntryAt(reading).defined THEN {reading} ELSE {})
<1> DEFINE next == <<reading[1], reading[2] + 1>>
<1>1. reading = <<reading[1], reading[2]>> /\ reading[1] \in Nat /\ reading[2] \in Nat
      /\ next[1] = reading[1] /\ next[2] = reading[2] + 1
  BY DEF Place
<1> HIDE DEF next
<1>2. ASSUME NEW d, d = <<d[1], d[2]>>, d[1] \in DOMAIN inputs,
                    d[2] \in DOMAIN inputs[d[1]].symtab
      PROVE  Before(d, next) <=> Before(d, reading) \/ d = reading
  <2>1. d[1] \in Nat /\ inputs[d[1]].symtab \in Seq(SymEntry)
    BY <1>2, InputTyped
  <2>2. d[2] \in Nat
    BY <1>2, <2>1
  <2>3. d = reading <=> d[1] = reading[1] /\ d[2] = reading[2]
    BY <1>1, <1>2
  <2> QED  BY <1>1, <2>1, <2>2, <2>3 DEF Before
<1>3. ASSUME NEW d
      PROVE  d \in DefinitionsBefore(next) <=>
               d \in DefinitionsBefore(reading) \/ (d = reading /\ EntryAt(reading).defined)
  <2>1. CASE /\ d = <<d[1], d[2]>> /\ d[1] \in DOMAIN inputs
             /\ d[2] \in DOMAIN inputs[d[1]].symtab
    BY <1>2, <2>1, DefinitionBefore
  <2>2. CASE ~(/\ d = <<d[1], d[2]>> /\ d[1] \in DOMAIN inputs
               /\ d[2] \in DOMAIN inputs[d[1]].symtab)
    BY <1>1, <2>2, DefinitionBefore
  <2> QED  BY <2>1, <2>2
<1> QED  BY <1>3 DEF next

(* At the end of a table nothing is added by turning to the next one.      *)
LEMMA ReadTable ==
    ASSUME inputs \in Seq(File), reading \in Place, reading[1] \in DOMAIN inputs,
           reading[2] > Len(inputs[reading[1]].symtab)
    PROVE  DefinitionsBefore(<<reading[1] + 1, 1>>) = DefinitionsBefore(reading)
<1> DEFINE next == <<reading[1] + 1, 1>>
<1>1. reading[1] \in Nat /\ reading[2] \in Nat /\ next[1] = reading[1] + 1 /\ next[2] = 1
  BY DEF Place
<1> HIDE DEF next
<1>2. ASSUME NEW d, d[1] \in DOMAIN inputs, d[2] \in DOMAIN inputs[d[1]].symtab
      PROVE  Before(d, next) <=> Before(d, reading)
  <2>1. d[1] \in Nat /\ inputs[d[1]].symtab \in Seq(SymEntry)
    BY <1>2, InputTyped
  <2>2. d[2] \in Nat \ {0} /\ d[2] <= Len(inputs[d[1]].symtab)
    BY <1>2, <2>1
  <2>3. d[1] = reading[1] => d[2] < reading[2]
    BY <1>1, <2>2
  <2>4. ~(d[2] < next[2]) /\ (d[1] < next[1] <=> d[1] <= reading[1])
    BY <1>1, <2>1, <2>2
  <2>5. Before(d, next) <=> d[1] <= reading[1]
    BY <2>4 DEF Before
  <2>6. d[1] <= reading[1] <=> d[1] < reading[1] \/ d[1] = reading[1]
    BY <1>1, <2>1
  <2>7. Before(d, reading) <=> d[1] <= reading[1]
    BY <2>3, <2>6 DEF Before
  <2> QED  BY <2>5, <2>7
<1>3. ASSUME NEW d
      PROVE  d \in DefinitionsBefore(next) <=> d \in DefinitionsBefore(reading)
  BY <1>2, DefinitionBefore, Zenon
<1> QED  BY <1>3, Zenon DEF next

(* Indexing one entry.                                                     *)
LEMMA IndexSymbolKeeps ==
    ASSUME SymbolsInv, IndexSymbol
    PROVE  SymbolsInv'
<1> DEFINE e == EntryAt(reading)
           Read == DefinitionsBefore(reading)
           ReadNext == DefinitionsBefore(<<reading[1], reading[2] + 1>>)
           Replacing == e.defined /\ Replaces(e)
<1> HIDE DEF e, Read, ReadNext, Replacing
<1>1. /\ inputs \in Seq(File) /\ reading \in Place /\ DOMAIN bindings = DOMAIN by_hash
      /\ reading[1] \in Nat \ {0} /\ reading[2] \in Nat \ {0}
      /\ reading[1] <= Len(inputs) /\ reading[2] <= Len(inputs[reading[1]].symtab)
  BY DEF SymbolsInv, LinkTypeOK, IndexSymbol, Place
<1>2. reading[1] \in DOMAIN inputs
  BY <1>1
<1>3. reading[2] \in DOMAIN inputs[reading[1]].symtab
  BY <1>1, <1>2, InputTyped
<1>4. ReadNext = Read \union (IF e.defined THEN {reading} ELSE {})
  BY <1>1, <1>2, <1>3, ReadOne, Zenon DEF e, Read, ReadNext
<1>5. /\ phase = "index" /\ phase' = "index" /\ inputs' = inputs
      /\ reading' = <<reading[1], reading[2] + 1>>
      /\ Replacing => /\ by_hash' = Put(by_hash, e.hash, reading)
                      /\ bindings' = Put(bindings, e.hash, e.binding)
      /\ ~Replacing => by_hash' = by_hash /\ bindings' = bindings
  BY DEF IndexSymbol, EntryAt, e, Replacing
<1>6. DefinitionsBefore(reading)' = ReadNext /\ \A c : EntryAt(c)' = EntryAt(c)
  BY <1>5 DEF DefinitionsBefore, EntryAt, ReadNext
<1>7. \A d \in Read : d \in Place /\ Before(d, reading)
  <2> SUFFICES ASSUME NEW d \in Read PROVE d \in Place /\ Before(d, reading)
    OBVIOUS
  <2>1. /\ d = <<d[1], d[2]>> /\ d[1] \in DOMAIN inputs
        /\ d[2] \in DOMAIN inputs[d[1]].symtab /\ Before(d, reading)
    BY DefinitionBefore DEF Read
  <2>2. d[1] \in Nat \ {0} /\ inputs[d[1]].symtab \in Seq(SymEntry)
    BY <1>1, <2>1, InputTyped
  <2> QED  BY <2>1, <2>2 DEF Place
<1>8. \A h \in DOMAIN by_hash : /\ by_hash[h] \in Read /\ EntryAt(by_hash[h]).hash = h
                                /\ bindings[h] = EntryAt(by_hash[h]).binding
  BY DEF SymbolsInv, BindingsMatch, FirstStrongestWins, Read
<1>9. \A c \in Read :
        /\ EntryAt(c).hash \in DOMAIN by_hash
        /\ EntryAt(c).binding # "Weak" => EntryAt(by_hash[EntryAt(c).hash]).binding # "Weak"
        /\ (EntryAt(c).binding = "Weak") = (EntryAt(by_hash[EntryAt(c).hash]).binding = "Weak")
                => ~Before(c, by_hash[EntryAt(c).hash])
  BY DEF SymbolsInv, FirstStrongestWins, Read
<1>10. LinkTypeOK'
  <2>1. reading' \in Place
    BY <1>1, <1>5 DEF Place
  <2>2. DOMAIN bindings' = DOMAIN by_hash'
    BY <1>1, <1>5 DEF Put
  <2> QED  BY <1>1, <1>5, <2>1, <2>2 DEF LinkTypeOK
<1>11. \A h \in DOMAIN by_hash' : /\ by_hash'[h] \in ReadNext /\ EntryAt(by_hash'[h]).hash = h
                                  /\ bindings'[h] = EntryAt(by_hash'[h]).binding
  <2>1. CASE Replacing
    <3> SUFFICES ASSUME NEW h \in DOMAIN by_hash'
                 PROVE  /\ by_hash'[h] \in ReadNext /\ EntryAt(by_hash'[h]).hash = h
                        /\ bindings'[h] = EntryAt(by_hash'[h]).binding
      OBVIOUS
    <3>1. h = e.hash => by_hash'[h] = reading /\ bindings'[h] = e.binding
      BY <1>1, <1>5, <2>1 DEF Put
    <3>2. h # e.hash => /\ h \in DOMAIN by_hash /\ by_hash'[h] = by_hash[h]
                        /\ bindings'[h] = bindings[h]
      BY <1>1, <1>5, <2>1 DEF Put
    <3> QED  BY <1>4, <1>8, <2>1, <3>1, <3>2 DEF e, Replacing
  <2>2. CASE ~Replacing
    <3> QED  BY <1>4, <1>5, <1>8, <2>2
  <2> QED  BY <2>1, <2>2
<1>12. ASSUME NEW c \in ReadNext, NEW h, h = EntryAt(c).hash
       PROVE  /\ h \in DOMAIN by_hash'
              /\ EntryAt(c).binding # "Weak" => EntryAt(by_hash'[h]).binding # "Weak"
              /\ (EntryAt(c).binding = "Weak") = (EntryAt(by_hash'[h]).binding = "Weak")
                    => ~Before(c, by_hash'[h])
  <2>1. CASE Replacing /\ h = e.hash
    <3>1. h \in DOMAIN by_hash' /\ by_hash'[h] = reading
      BY <1>5, <2>1 DEF Put
    <3>2. ~Before(reading, reading)
      BY <1>1 DEF Before
    <3>3. ASSUME c \in Read
          PROVE  EntryAt(c).binding = "Weak" /\ e.binding # "Weak"
      <4>1. h \in DOMAIN by_hash /\ h \in DOMAIN bindings
        BY <1>1, <1>9, <1>12, <3>3
      <4>2. bindings[h] = "Weak" /\ e.binding # "Weak"
        BY <2>1, <4>1 DEF Replaces, Replacing
      <4> QED  BY <1>8, <1>9, <1>12, <3>3, <4>1, <4>2
    <3>4. c \in Read \/ c = reading
      BY <1>4
    <3> QED  BY <3>1, <3>2, <3>3, <3>4 DEF e
  <2>2. CASE Replacing /\ h # e.hash
    <3>1. c \in Read
      BY <1>4, <1>12, <2>2 DEF e
    <3>2. h \in DOMAIN by_hash
      BY <1>9, <1>12, <3>1
    <3>3. h \in DOMAIN by_hash' /\ by_hash'[h] = by_hash[h]
      BY <1>5, <2>2, <3>2 DEF Put
    <3> QED  BY <1>9, <1>12, <3>1, <3>3
  <2>3. CASE ~Replacing /\ c \in Read
    BY <1>5, <1>9, <1>12, <2>3
  <2>4. CASE ~Replacing /\ c \notin Read
    <3>1. c = reading /\ e.defined /\ h = e.hash
      BY <1>4, <1>12, <2>4 DEF e
    <3>2. h \in DOMAIN by_hash /\ (e.binding = "Weak" \/ bindings[h] # "Weak")
      BY <1>1, <2>4, <3>1 DEF Replaces, Replacing
    <3>3. by_hash[h] \in Place /\ Before(by_hash[h], reading)
      BY <1>7, <1>8, <3>2
    <3>4. ~Before(reading, by_hash[h])
      BY <1>1, <3>3, BeforeAsymmetric
    <3> QED  BY <1>5, <1>8, <2>4, <3>1, <3>2, <3>4 DEF e
  <2> QED  BY <2>1, <2>2, <2>3, <2>4
<1>13. BindingsMatch'
  BY <1>5, <1>11 DEF BindingsMatch, EntryAt
<1>14. FirstStrongestWins'
  <2>1. Strongest(inputs, ReadNext, by_hash')
    BY <1>11, <1>12, Zenon DEF Strongest, EntryAt, EntryIn
  <2>2. FirstStrongestWins' <=> Strongest(inputs', DefinitionsBefore(reading)', by_hash')
    BY Zenon DEF FirstStrongestWins, Strongest, EntryAt, EntryIn
  <2>3. inputs' = inputs /\ DefinitionsBefore(reading)' = ReadNext
    BY <1>5, <1>6
  <2> QED  BY <2>1, <2>2, <2>3
<1> QED  BY <1>10, <1>13, <1>14 DEF SymbolsInv

(* A step that leaves the tables and what was read of the inputs alone.    *)
LEMMA SameRead ==
    ASSUME SymbolsInv, LinkTypeOK', inputs' = inputs, by_hash' = by_hash, bindings' = bindings,
           DefinitionsBefore(reading)' = DefinitionsBefore(reading)
    PROVE  SymbolsInv'
<1>1. BindingsMatch'
  BY Zenon DEF SymbolsInv, BindingsMatch, EntryAt
<1>2. FirstStrongestWins <=> Strongest(inputs, DefinitionsBefore(reading), by_hash)
  BY Zenon DEF FirstStrongestWins, Strongest, EntryAt, EntryIn
<1>3. FirstStrongestWins' <=> Strongest(inputs', DefinitionsBefore(reading)', by_hash')
  BY Zenon DEF FirstStrongestWins, Strongest, EntryAt, EntryIn
<1>4. FirstStrongestWins'
  BY <1>2, <1>3, Zenon DEF SymbolsInv
<1> QED  BY <1>1, <1>4 DEF SymbolsInv

LEMMA SymbolsInvInit == LinkInit => SymbolsInv
<1> SUFFICES ASSUME LinkInit PROVE SymbolsInv
  OBVIOUS
<1>1. LinkTypeOK /\ DOMAIN by_hash = {}
  BY DEF LinkInit, LinkTypeOK, Place
<1>2. DefinitionsBefore(reading) = {}
  BY NothingBefore DEF LinkInit
<1> QED  BY <1>1, <1>2 DEF SymbolsInv, BindingsMatch, FirstStrongestWins

LEMMA SymbolsInvStep == SymbolsInv /\ [LinkNext]_linkVars => SymbolsInv'
<1> SUFFICES ASSUME SymbolsInv, [LinkNext]_linkVars PROVE SymbolsInv'
  OBVIOUS
<1>1. ASSUME NEW f \in File, parse_pax(f) PROVE SymbolsInv'
  <2>1. /\ inputs \in Seq(File) /\ reading = <<1, 1>> /\ DOMAIN by_hash = {}
        /\ DOMAIN bindings = DOMAIN by_hash
    BY <1>1 DEF SymbolsInv, LinkTypeOK, parse_pax
  <2>2. /\ inputs' \in Seq(File) /\ reading' = reading /\ by_hash' = by_hash
        /\ bindings' = bindings
    BY <1>1, <2>1 DEF parse_pax
  <2>3. LinkTypeOK'
    BY <2>1, <2>2 DEF LinkTypeOK, Place
  <2>4. (inputs \in Seq(File) => DefinitionsBefore(<<1, 1>>) = {})'
    BY NothingBefore, PTL
  <2>5. DefinitionsBefore(reading)' = {}
    BY <2>1, <2>2, <2>4
  <2> QED  BY <2>1, <2>2, <2>3, <2>5 DEF SymbolsInv, BindingsMatch, FirstStrongestWins
<1>2. CASE IndexSymbol
  BY <1>2, IndexSymbolKeeps
<1>3. CASE NextSymtab
  <2>1. inputs \in Seq(File) /\ reading \in Place /\ DOMAIN bindings = DOMAIN by_hash
    BY DEF SymbolsInv, LinkTypeOK
  <2>2. /\ reading[1] <= Len(inputs) /\ reading[2] > Len(inputs[reading[1]].symtab)
        /\ reading' = <<reading[1] + 1, 1>> /\ inputs' = inputs /\ by_hash' = by_hash
        /\ bindings' = bindings /\ phase' = "index"
    BY <1>3 DEF NextSymtab
  <2>3. reading[1] \in DOMAIN inputs /\ reading' \in Place
    BY <2>1, <2>2 DEF Place
  <2>4. DefinitionsBefore(<<reading[1] + 1, 1>>) = DefinitionsBefore(reading)
    BY <2>1, <2>2, <2>3, ReadTable
  <2>5. DefinitionsBefore(reading)' = DefinitionsBefore(<<reading[1] + 1, 1>>)
    BY <2>2 DEF DefinitionsBefore
  <2>6. LinkTypeOK'
    BY <2>1, <2>2, <2>3 DEF LinkTypeOK
  <2> QED  BY <2>2, <2>4, <2>5, <2>6, SameRead
<1>4. ASSUME UNCHANGED <<inputs, reading, by_hash, bindings>>,
             phase' = "parse" => phase = "parse"
      PROVE  SymbolsInv'
  <2>1. LinkTypeOK'
    BY <1>4 DEF SymbolsInv, LinkTypeOK
  <2>2. DefinitionsBefore(reading)' = DefinitionsBefore(reading)
    BY <1>4 DEF DefinitionsBefore
  <2> QED  BY <1>4, <2>1, <2>2, SameRead
<1>5. CASE Parsed
  BY <1>4, <1>5 DEF Parsed
<1>6. CASE IndexExports
  BY <1>4, <1>6 DEF IndexExports
<1>7. CASE CheckSymbols
  BY <1>4, <1>7 DEF CheckSymbols
<1>8. CASE CheckImports
  BY <1>4, <1>8 DEF CheckImports
<1>9. CASE relocate_input
  BY <1>4, <1>9 DEF relocate_input
<1>10. CASE Emit
  BY <1>4, <1>10 DEF Emit
<1>11. CASE Stop \/ UNCHANGED linkVars
  BY <1>4, <1>11 DEF Stop, linkVars
<1>12. CASE Panic
  BY <1>4, <1>12 DEF Panic
<1> QED  BY <1>1, <1>2, <1>3, <1>5, <1>6, <1>7, <1>8, <1>9, <1>10, <1>11, <1>12 DEF LinkNext, Step

(* resolve_inputs, for any inputs: a name is bound to its first strong     *)
(* definition among the entries read so far, or else to its first weak     *)
(* one, and to nothing if it has none.                                     *)
THEOREM SymbolResolution == LinkSpec => []FirstStrongestWins
<1>1. LinkSpec => []SymbolsInv
  BY SymbolsInvInit, SymbolsInvStep, PTL DEF LinkSpec
<1>2. SymbolsInv => FirstStrongestWins
  BY DEF SymbolsInv
<1> QED  BY <1>1, <1>2, PTL

-----------------------------------------------------------------------------
(* What the driver knows in each phase.                                    *)
Exported == UNION {Range(inputs[i].exports) : i \in DOMAIN inputs}

Wanted == Report(1700, [i \in DOMAIN inputs |-> Undefined(inputs[i])], DOMAIN by_hash)

Missing ==
    Report(1701, [i \in DOMAIN inputs |-> Range(inputs[i].imports)], DOMAIN provided)

ResolveInv ==
    /\ phase \in {"parse", "index", "symbols", "relocate", "done"} => diagnostics = {}
    /\ phase \in {"symbols", "imports"} =>
          reading[1] > Len(inputs) /\ DOMAIN provided = Exported
    /\ phase = "imports" => diagnostics = Wanted
    /\ WrittenOnlyIfResolved

(* A check reports nothing exactly if all that is asked for is found.      *)
LEMMA ReportNothing ==
    ASSUME NEW code, NEW asked, NEW found
    PROVE  Report(code, asked, found) = {} <=> \A i \in DOMAIN inputs : asked[i] \subseteq found
<1> DEFINE Row(i) == {<<code, i, h>> : h \in asked[i] \ found}
<1>1. ASSUME NEW i PROVE Row(i) = {} <=> asked[i] \subseteq found
  <2>1. ASSUME NEW h \in asked[i] \ found PROVE <<code, i, h>> \in Row(i)
    OBVIOUS
  <2>2. ASSUME NEW r \in Row(i) PROVE \E h : h \in asked[i] /\ h \notin found
    OBVIOUS
  <2> HIDE DEF Row
  <2>3. ASSUME Row(i) = {}, NEW h \in asked[i] PROVE h \in found
    BY <2>1, <2>3
  <2>4. ASSUME Row(i) # {} PROVE ~(asked[i] \subseteq found)
    BY <2>2, <2>4
  <2> QED  BY <2>3, <2>4
<1>2. Report(code, asked, found) = UNION {Row(i) : i \in DOMAIN inputs}
  BY DEF Report
<1> HIDE DEF Row
<1> QED  BY <1>1, <1>2

(* When every table is read, the bound names are the defined ones.         *)
LEMMA AllIndexed ==
    ASSUME SymbolsInv, reading[1] > Len(inputs), NEW h
    PROVE  h \in DOMAIN by_hash <=>
             \E k \in DOMAIN inputs : \E n \in DOMAIN inputs[k].symtab :
                 inputs[k].symtab[n].hash = h /\ inputs[k].symtab[n].defined
<1>1. inputs \in Seq(File) /\ reading[1] \in Nat
  BY DEF SymbolsInv, LinkTypeOK, Place
<1>2. ASSUME NEW k \in DOMAIN inputs, NEW n \in DOMAIN inputs[k].symtab,
             inputs[k].symtab[n].hash = h, inputs[k].symtab[n].defined
      PROVE  h \in DOMAIN by_hash
  <2> DEFINE d == <<k, n>>
  <2>1. d = <<d[1], d[2]>> /\ d[1] = k /\ d[2] = n /\ EntryAt(d) = inputs[k].symtab[n]
    BY DEF EntryAt
  <2> HIDE DEF d
  <2>2. Before(d, reading)
    <3>1. k <= Len(inputs) /\ k \in Nat
      BY <1>1
    <3> QED  BY <1>1, <2>1, <3>1 DEF Before
  <2>3. d \in DefinitionsBefore(reading)
    BY <1>2, <2>1, <2>2, DefinitionBefore
  <2> QED  BY <1>2, <2>1, <2>3 DEF SymbolsInv, FirstStrongestWins
<1>3. ASSUME h \in DOMAIN by_hash
      PROVE  \E k \in DOMAIN inputs : \E n \in DOMAIN inputs[k].symtab :
                 inputs[k].symtab[n].hash = h /\ inputs[k].symtab[n].defined
  <2> DEFINE d == by_hash[h]
  <2>1. d \in DefinitionsBefore(reading) /\ EntryAt(d).hash = h
    BY <1>3 DEF SymbolsInv, FirstStrongestWins
  <2> HIDE DEF d
  <2>2. d[1] \in DOMAIN inputs /\ d[2] \in DOMAIN inputs[d[1]].symtab /\ EntryAt(d).defined
    BY <2>1, DefinitionBefore
  <2> QED  BY <2>1, <2>2 DEF EntryAt
<1> QED  BY <1>2, <1>3

(* Both checks together report nothing exactly if the inputs are           *)
(* resolvable.                                                             *)
LEMMA ReportsExact ==
    ASSUME SymbolsInv, reading[1] > Len(inputs), DOMAIN provided = Exported
    PROVE  Wanted \union Missing = {} <=> Resolvable
<1> DEFINE Undef == [i \in DOMAIN inputs |-> Undefined(inputs[i])]
           Imports == [i \in DOMAIN inputs |-> Range(inputs[i].imports)]
           Met(i) == \A h \in Range(inputs[i].imports) :
                        \E k \in DOMAIN inputs : h \in Range(inputs[k].exports)
<1>1. Wanted = {} <=> \A i \in DOMAIN inputs : Undef[i] \subseteq DOMAIN by_hash
  <2>1. Wanted = Report(1700, Undef, DOMAIN by_hash)
    BY DEF Wanted
  <2> HIDE DEF Undef
  <2> QED  BY <2>1, ReportNothing
<1>2. Missing = {} <=> \A i \in DOMAIN inputs : Imports[i] \subseteq DOMAIN provided
  <2>1. Missing = Report(1701, Imports, DOMAIN provided)
    BY DEF Missing
  <2> HIDE DEF Imports
  <2> QED  BY <2>1, ReportNothing
<1>3. Wanted = {} <=>
        \A i \in DOMAIN inputs : \A h \in Undefined(inputs[i]) :
          \E k \in DOMAIN inputs : \E n \in DOMAIN inputs[k].symtab :
              inputs[k].symtab[n].hash = h /\ inputs[k].symtab[n].defined
  BY <1>1, AllIndexed
<1>4. Missing = {} <=> \A i \in DOMAIN inputs : Met(i)
  <2>1. \A h : h \in Exported <=> \E k \in DOMAIN inputs : h \in Range(inputs[k].exports)
    BY DEF Exported
  <2>2. ASSUME NEW i \in DOMAIN inputs
        PROVE  Imports[i] \subseteq DOMAIN provided <=> Met(i)
    <3>1. Imports[i] = Range(inputs[i].imports)
      OBVIOUS
    <3> HIDE DEF Imports
    <3> QED  BY <2>1, <3>1
  <2> HIDE DEF Imports, Met
  <2> QED  BY <1>2, <2>2
<1>5. Wanted \union Missing = {} <=> Wanted = {} /\ Missing = {}
  OBVIOUS
<1> HIDE DEF Undef, Imports
<1> QED  BY <1>3, <1>4, <1>5, Zenon DEF Resolvable

LEMMA ResolveInvStep == SymbolsInv /\ ResolveInv /\ [LinkNext]_linkVars => ResolveInv'
<1> SUFFICES ASSUME SymbolsInv, ResolveInv, [LinkNext]_linkVars PROVE ResolveInv'
  OBVIOUS
<1>1. ASSUME NEW f \in File, parse_pax(f) PROVE ResolveInv'
  BY <1>1 DEF parse_pax, ResolveInv, WrittenOnlyIfResolved
<1>2. CASE Parsed
  BY <1>2 DEF Parsed, ResolveInv, WrittenOnlyIfResolved
<1>3. CASE IndexSymbol
  BY <1>3 DEF IndexSymbol, ResolveInv, WrittenOnlyIfResolved
<1>4. CASE NextSymtab
  BY <1>4 DEF NextSymtab, ResolveInv, WrittenOnlyIfResolved
<1>5. CASE IndexExports
  <2>1. DOMAIN provided' = Exported /\ Exported' = Exported
    BY <1>5 DEF IndexExports, Exported
  <2> QED  BY <1>5, <2>1 DEF IndexExports, ResolveInv, WrittenOnlyIfResolved
<1>6. CASE CheckSymbols
  <2>1. Exported' = Exported /\ Wanted' = Wanted
    BY <1>6 DEF CheckSymbols, Exported, Wanted, Report, Undefined
  <2>2. diagnostics' = Wanted
    BY <1>6 DEF CheckSymbols, Wanted, ResolveInv
  <2> QED  BY <1>6, <2>1, <2>2 DEF CheckSymbols, ResolveInv, WrittenOnlyIfResolved
<1>7. CASE CheckImports
  <2>1. Resolvable' <=> Resolvable
    BY <1>7 DEF CheckImports, Resolvable, Undefined
  <2>2. diagnostics' = Wanted \union Missing
    BY <1>7 DEF CheckImports, ResolveInv, Missing
  <2>3. Wanted \union Missing = {} <=> Resolvable
    BY <1>7, ReportsExact DEF CheckImports, ResolveInv
  <2>4. diagnostics' = {} <=> Resolvable
    BY <2>2, <2>3
  <2>5. phase' = IF diagnostics' = {} THEN "relocate" ELSE "failed"
    BY <1>7 DEF CheckImports
  <2> QED  BY <2>1, <2>4, <2>5 DEF ResolveInv, WrittenOnlyIfResolved
<1>8. ASSUME UNCHANGED <<inputs, reading, by_hash, provided, diagnostics>>,
             \/ phase' = phase
             \/ phase = "relocate" /\ phase' \in {"done", "failed"}
      PROVE  ResolveInv'
  <2>1. Resolvable' = Resolvable
    BY <1>8 DEF Resolvable, Undefined
  <2>2. Exported' = Exported /\ Wanted' = Wanted
    BY <1>8 DEF Exported, Wanted, Report, Undefined
  <2> QED  BY <1>8, <2>1, <2>2 DEF ResolveInv, WrittenOnlyIfResolved
<1>9. CASE relocate_input
  BY <1>8, <1>9 DEF relocate_input
<1>10. CASE Emit
  BY <1>8, <1>10 DEF Emit
<1>11. CASE Stop \/ UNCHANGED linkVars
  BY <1>8, <1>11 DEF Stop, linkVars
<1>12. CASE Panic
  BY <1>12 DEF Panic, ResolveInv, WrittenOnlyIfResolved
<1> QED  BY <1>1, <1>2, <1>3, <1>4, <1>5, <1>6, <1>7, <1>9, <1>10, <1>11, <1>12 DEF LinkNext, Step

(* The driver relocates and writes exactly what is resolvable: with a      *)
(* symbol or a capability missing it stops, and it never stops at          *)
(* resolution for inputs that need nothing.                                *)
THEOREM ResolutionDecides == LinkSpec => []WrittenOnlyIfResolved
<1>1. LinkSpec => []SymbolsInv
  BY SymbolsInvInit, SymbolsInvStep, PTL DEF LinkSpec
<1>2. LinkInit => ResolveInv
  BY DEF LinkInit, ResolveInv, WrittenOnlyIfResolved
<1>3. ResolveInv => WrittenOnlyIfResolved
  BY DEF ResolveInv
<1> QED  BY <1>1, <1>2, <1>3, ResolveInvStep, PTL DEF LinkSpec

-----------------------------------------------------------------------------
(* The inputs' parts of a section follow one another.                      *)
LEMMA BaseAdds ==
    ASSUME inputs \in Seq(File), NEW k
    PROVE  /\ Base(1, k) = 0
           /\ \A i \in DOMAIN inputs :
                /\ Base(i, k) \in Nat /\ SizeOf(i, k) \in Nat
                /\ Base(i + 1, k) = Base(i, k) + SizeOf(i, k)
<1> DEFINE N == Len(inputs)
           F == [s \in Nat \X (1..N) |-> s[1] + SizeOf(s[2], k)]
           Ends(f) == f = [n \in 0..N |-> IF n = 0 THEN 0 ELSE f[n - 1] + SizeOf(n, k)]
           end == CHOOSE f : Ends(f)
<1>1. \A i \in DOMAIN inputs : SizeOf(i, k) \in Nat
  <2> SUFFICES ASSUME NEW i \in DOMAIN inputs PROVE SizeOf(i, k) \in Nat
    OBVIOUS
  <2>1. inputs[i].sections \in Seq(Seq(Cell))
    BY InputTyped
  <2> HIDE DEF Cell
  <2> QED  BY <2>1 DEF SizeOf
<1>2. N \in Nat /\ DOMAIN inputs = 1..N
  OBVIOUS
<1>3. \A i : Base(i, k) = end[i - 1]
  BY DEF Base
<1> HIDE DEF N
<1>4. F \in [Nat \X (1..N) -> Nat]
  BY <1>1, <1>2
<1>5. PICK g : Iterates(g, N, Nat, 0, F)
  <2> HIDE DEF F
  <2>1. N \in Nat /\ 0 \in Nat
    BY <1>2
  <2> QED  BY <1>4, <2>1, Recursion, Zenon
<1>6. Ends(g)
  <2>1. ASSUME NEW n \in 1..N PROVE g[n] = g[n - 1] + SizeOf(n, k)
    <3>1. n \in Nat /\ n - 1 \in 0..N
      BY <1>2
    <3>2. g[n - 1] \in Nat
      BY <1>5, <3>1 DEF Iterates
    <3>3. F[<<g[n - 1], n>>] = g[n - 1] + SizeOf(n, k)
      BY <3>2
    <3> HIDE DEF F
    <3> QED  BY <1>5, <3>3 DEF Iterates
  <2> QED  BY <1>2, <1>5, <2>1 DEF Iterates
<1> HIDE DEF F
<1>7. Ends(end)
  <2> HIDE DEF Ends
  <2> QED  BY <1>6, Zenon
<1> HIDE DEF end
<1>8. end[0] = 0 /\ \A n \in 1..N : end[n] = end[n - 1] + SizeOf(n, k)
  BY <1>2, <1>7
<1>9. \A n \in 0..N : end[n] \in Nat
  <2> DEFINE S == {n \in 0..N : end[n] \in Nat}
  <2>1. 0 \in S
    BY <1>2, <1>8
  <2>2. ASSUME NEW n \in 0..(N - 1), n \in S
        PROVE  n + 1 \in S
    <3> DEFINE m == n + 1
    <3>1. m \in 1..N /\ m - 1 = n /\ m \in 0..N
      BY <1>2
    <3> HIDE DEF m
    <3>2. end[m] = end[m - 1] + SizeOf(m, k)
      BY <1>8, <3>1
    <3>3. SizeOf(m, k) \in Nat
      BY <1>1, <1>2, <3>1
    <3> QED  BY <2>2, <3>1, <3>2, <3>3 DEF m
  <2>3. N \in Nat
    BY <1>2
  <2> HIDE DEF S
  <2>4. \A n \in 0..N : n \in S
    BY <2>1, <2>2, <2>3, UpTo, Zenon
  <2> QED  BY <2>4 DEF S
<1>10. ASSUME NEW i \in DOMAIN inputs
       PROVE  Base(i, k) \in Nat /\ Base(i + 1, k) = Base(i, k) + SizeOf(i, k)
  <2>1. i \in 1..N /\ i - 1 \in 0..N /\ (i + 1) - 1 = i
    BY <1>2
  <2> QED  BY <1>3, <1>8, <1>9, <2>1
<1> QED  BY <1>1, <1>3, <1>8, <1>10

(* A list of sequences over T; the steps in which extend_from_slice joins  *)
(* it; the ends of its parts; and its parts put behind one another.        *)
IsParts(parts, T) == parts \in Seq(Seq(T))

Joins(f, parts) ==
    /\ extend_from_slice(parts) = f[Len(parts)]
    /\ f[0] = <<>>
    /\ \A n \in 1..Len(parts) : f[n] = f[n - 1] \o parts[n]

Ends(off, parts) ==
    /\ off \in [0..Len(parts) -> Nat]
    /\ off[0] = 0
    /\ \A n \in 1..Len(parts) : off[n] = off[n - 1] + Len(parts[n])

Placed(parts, off) ==
    \A n \in 1..Len(parts) : \A p \in 1..Len(parts[n]) :
        /\ off[n - 1] + p \in DOMAIN extend_from_slice(parts)
        /\ extend_from_slice(parts)[off[n - 1] + p] = parts[n][p]

(* The recursion in extend_from_slice.                                     *)
LEMMA ExtendRecursion ==
    ASSUME NEW T, NEW parts, IsParts(parts, T)
    PROVE  \E f : Joins(f, parts)
<1> DEFINE N == Len(parts)
           Join(a, b) == a \o b
           F == [s \in Seq(T) \X (1..N) |-> Join(s[1], parts[s[2]])]
           Nth(f, n) == IF n = 0 THEN <<>> ELSE Join(f[n - 1], parts[n])
           Runs(f) == f = [n \in 0..N |-> Nth(f, n)]
           v == CHOOSE f : Runs(f)
<1>1. N \in Nat /\ <<>> \in Seq(T) /\ \A i \in 1..N : parts[i] \in Seq(T)
  BY DEF IsParts
<1>2. extend_from_slice(parts) = v[N]
  BY DEF extend_from_slice
<1> HIDE DEF N
<1>3. ASSUME NEW n \in 1..N, NEW s \in Seq(T) PROVE Join(s, parts[n]) \in Seq(T)
  <2>1. parts[n] \in Seq(T)
    BY <1>1
  <2> QED  BY <2>1
<1> HIDE DEF Join
<1>4. F \in [Seq(T) \X (1..N) -> Seq(T)]
  BY <1>3
<1>5. PICK g : Iterates(g, N, Seq(T), <<>>, F)
  <2> HIDE DEF F
  <2> QED  BY <1>1, <1>4, Recursion, Zenon
<1>6. Runs(g)
  <2>1. ASSUME NEW n \in 0..N PROVE g[n] = Nth(g, n)
    <3>1. CASE n = 0
      BY <1>5, <3>1 DEF Iterates
    <3>2. CASE n # 0
      <4>1. n \in 1..N /\ n - 1 \in 0..N
        BY <1>1, <3>2
      <4>2. g \in [0..N -> Seq(T)]
        BY <1>5 DEF Iterates
      <4>3. g[n - 1] \in Seq(T)
        BY <4>1, <4>2
      <4>4. F[<<g[n - 1], n>>] = Join(g[n - 1], parts[n])
        BY <4>1, <4>3
      <4> HIDE DEF F
      <4>5. g[n] = F[<<g[n - 1], n>>]
        BY <1>5, <4>1 DEF Iterates
      <4> QED  BY <3>2, <4>4, <4>5
    <3> QED  BY <3>1, <3>2
  <2> HIDE DEF Nth
  <2>2. g \in [0..N -> Seq(T)]
    BY <1>5 DEF Iterates
  <2> QED  BY <2>1, <2>2
<1> HIDE DEF F
<1>7. Runs(v)
  <2> HIDE DEF Runs
  <2> QED  BY <1>6, Zenon
<1> HIDE DEF v
<1>8. ASSUME NEW n \in 0..N PROVE v[n] = Nth(v, n)
  <2> DEFINE whole == [i \in 0..N |-> Nth(v, i)]
  <2>1. v = whole
    BY <1>7, Zenon
  <2> HIDE DEF Nth
  <2>2. whole[n] = Nth(v, n)
    OBVIOUS
  <2> HIDE DEF whole
  <2> QED  BY <2>1, <2>2
<1>9. v[0] = <<>>
  BY <1>1, <1>8
<1>10. ASSUME NEW n \in 1..N PROVE v[n] = Join(v[n - 1], parts[n])
  <2>1. n \in 0..N /\ n # 0
    BY <1>1
  <2> QED  BY <1>8, <2>1
<1>11. Joins(v, parts)
  BY <1>2, <1>9, <1>10, Zenon DEF Joins, N, Join
<1> QED  BY <1>11

(* Two sequences joined.                                                   *)
LEMMA Joined ==
    ASSUME NEW T, NEW a, a \in Seq(T), NEW b, b \in Seq(T)
    PROVE  /\ a \o b \in Seq(T) /\ Len(a \o b) = Len(a) + Len(b)
           /\ \A x \in 1..Len(a) : (a \o b)[x] = a[x]
           /\ \A q \in 1..Len(b) : (a \o b)[Len(a) + q] = b[q]
<1>1. ASSUME NEW q \in 1..Len(b) PROVE (a \o b)[Len(a) + q] = b[q]
  OBVIOUS
<1> QED  BY <1>1

(* A place of a part is one of what the part ends in.                      *)
LEMMA Inside ==
  ASSUME NEW start, NEW size, NEW stop, NEW end, NEW q,
         start \in Nat, size \in Nat, stop \in Nat, end \in Nat, q \in 1..size,
         stop = start + size, stop <= end
  PROVE  start + q \in 1..end
OBVIOUS

(* extend_from_slice puts the n-th part behind those before it.            *)
LEMMA ExtendPlaces ==
    ASSUME NEW T, NEW parts, IsParts(parts, T), NEW off, Ends(off, parts)
    PROVE  Placed(parts, off)
<1> DEFINE N == Len(parts)
           L(i) == Len(parts[i])
           Join(a, b) == a \o b
<1>1. PICK f : Joins(f, parts)
  BY ExtendRecursion
<1>2. N \in Nat /\ \A i \in 1..N : parts[i] \in Seq(T) /\ L(i) \in Nat
  BY DEF IsParts
<1> HIDE DEF N, L
<1>3. ASSUME NEW i \in 0..N PROVE off[i] \in Nat
  BY DEF N, Ends
<1>4. ASSUME NEW i \in 1..N PROVE off[i] = off[i - 1] + L(i)
  BY DEF N, L, Ends
<1>5. ASSUME NEW i \in 1..N PROVE f[i] = Join(f[i - 1], parts[i])
  BY <1>1, Zenon DEF Joins, N
<1> HIDE DEF Join
<1> DEFINE In(k, m) == /\ off[m] <= off[k]
                       /\ \A q \in 1..L(m) : f[k][off[m - 1] + q] = parts[m][q]
           J(k) == /\ f[k] \in Seq(T) /\ Len(f[k]) = off[k]
                   /\ \A m \in 1..k : In(k, m)
           S == {k \in 0..N : J(k)}
<1>6. J(0)
  <2>1. off[0] = 0 /\ f[0] = <<>> /\ \A m \in 1..0 : FALSE
    BY <1>1 DEF Ends, Joins
  <2>2. <<>> \in Seq(T) /\ Len(<<>>) = 0
    OBVIOUS
  <2> HIDE DEF In
  <2> QED  BY <2>1, <2>2
<1>7. ASSUME NEW k \in 0..(N - 1), J(k) PROVE J(k + 1)
  <2> DEFINE l == k + 1
  <2>1. /\ l \in 1..N /\ l - 1 = k /\ k \in 0..N
        /\ l \in 0..N /\ \A m \in 1..l : m \in 1..k \/ m = l
    BY <1>2
  <2> HIDE DEF l
  <2>2. f[l] = Join(f[k], parts[l])
    <3>1. f[l] = Join(f[l - 1], parts[l])
      BY <1>5, <2>1
    <3> QED  BY <2>1, <3>1
  <2>3. off[l] = off[k] + L(l)
    <3>1. off[l] = off[l - 1] + L(l)
      BY <1>4, <2>1
    <3> QED  BY <2>1, <3>1
  <2>4. off[k] \in Nat /\ off[l] \in Nat /\ L(l) \in Nat /\ parts[l] \in Seq(T)
    BY <1>2, <1>3, <2>1
  <2>5. f[k] \in Seq(T) /\ Len(f[k]) = off[k] /\ Len(parts[l]) = L(l)
    BY <1>7 DEF L
  <2>6. /\ f[l] \in Seq(T) /\ Len(f[l]) = off[k] + L(l)
        /\ \A x \in 1..off[k] : f[l][x] = f[k][x]
        /\ \A q \in 1..L(l) : f[l][off[k] + q] = parts[l][q]
    <3> DEFINE a == f[k]
               b == parts[l]
    <3>1. a \in Seq(T) /\ b \in Seq(T)
      BY <2>4, <2>5
    <3> HIDE DEF a, b
    <3>2. /\ Join(a, b) \in Seq(T) /\ Len(Join(a, b)) = Len(a) + Len(b)
          /\ \A x \in 1..Len(a) : Join(a, b)[x] = a[x]
          /\ \A q \in 1..Len(b) : Join(a, b)[Len(a) + q] = b[q]
      BY <3>1, Joined DEF Join
    <3>3. Len(a) = off[k] /\ Len(b) = L(l) /\ f[l] = Join(a, b)
      BY <2>2, <2>5 DEF a, b
    <3>4. /\ f[l] \in Seq(T) /\ Len(f[l]) = off[k] + L(l)
          /\ \A x \in 1..off[k] : f[l][x] = a[x]
          /\ \A q \in 1..L(l) : f[l][off[k] + q] = b[q]
      BY <3>2, <3>3, Zenon
    <3> QED  BY <3>4, Zenon DEF a, b
  <2>10. ASSUME NEW m \in 1..k PROVE In(l, m)
    <3>1. m \in 1..N /\ m \in 0..N /\ m - 1 \in 0..N
      BY <1>2, <2>1
    <3>2. off[m] \in Nat /\ off[m - 1] \in Nat /\ L(m) \in Nat /\ off[m] = off[m - 1] + L(m)
      BY <1>2, <1>3, <1>4, <3>1
    <3>3. off[m] <= off[k] /\ \A q \in 1..L(m) : f[k][off[m - 1] + q] = parts[m][q]
      BY <1>7
    <3>4. off[m] <= off[l]
      BY <2>3, <2>4, <3>2, <3>3
    <3>5. ASSUME NEW q \in 1..L(m) PROVE f[l][off[m - 1] + q] = parts[m][q]
      <4> DEFINE x == off[m - 1] + q
      <4>1. x \in 1..off[k]
        BY <2>4, <3>2, <3>3, Inside, Zenon
      <4>2. f[k][x] = parts[m][q]
        BY <3>3
      <4> HIDE DEF x
      <4>3. f[l][x] = parts[m][q]
        BY <2>6, <4>1, <4>2, Zenon
      <4> QED  BY <4>3 DEF x
    <3> QED  BY <3>4, <3>5
  <2>11. In(l, l)
    <3>1. off[l - 1] = off[k] /\ off[l] <= off[l]
      BY <2>1, <2>4
    <3> QED  BY <2>6, <3>1
  <2> HIDE DEF In
  <2>12. \A m \in 1..l : In(l, m)
    BY <2>1, <2>10, <2>11
  <2> QED  BY <2>3, <2>6, <2>12 DEF l
<1> HIDE DEF J
<1>8. J(N)
  <2>1. 0 \in S
    BY <1>2, <1>6
  <2>2. ASSUME NEW k \in 0..(N - 1), k \in S PROVE k + 1 \in S
    <3>1. k + 1 \in 0..N
      BY <1>2
    <3>2. J(k)
      BY <2>2
    <3> QED  BY <1>7, <3>1, <3>2
  <2>3. N \in Nat /\ N \in 0..N
    BY <1>2
  <2> HIDE DEF S
  <2>4. \A k \in 0..N : k \in S
    BY <2>1, <2>2, <2>3, UpTo, Zenon
  <2> QED  BY <2>3, <2>4 DEF S
<1>9. ASSUME NEW n \in 1..N, NEW p \in 1..L(n)
      PROVE  off[n - 1] + p \in 1..off[N] /\ f[N][off[n - 1] + p] = parts[n][p]
  <2>1. n \in 0..N /\ n - 1 \in 0..N /\ N \in 0..N
    BY <1>2
  <2>2. /\ off[n] \in Nat /\ off[n - 1] \in Nat /\ off[N] \in Nat /\ L(n) \in Nat
        /\ off[n] = off[n - 1] + L(n)
    BY <1>2, <1>3, <1>4, <2>1
  <2>3. off[n] <= off[N] /\ f[N][off[n - 1] + p] = parts[n][p]
    BY <1>8 DEF J
  <2>4. off[n - 1] + p \in 1..off[N]
    BY <2>2, <2>3, Inside, Zenon
  <2> QED  BY <2>3, <2>4
<1>10. extend_from_slice(parts) = f[N] /\ DOMAIN f[N] = 1..off[N]
  <2>1. f[N] \in Seq(T) /\ Len(f[N]) = off[N]
    BY <1>8 DEF J
  <2>2. DOMAIN f[N] = 1..off[N]
    BY <2>1
  <2> QED  BY <1>1, <2>2 DEF Joins, N
<1> QED  BY <1>9, <1>10 DEF N, L, Placed

-----------------------------------------------------------------------------
(* What the n-th relocation stores at p, what p holds after the first n of *)
(* them, and what the sections are then.                                   *)
Word(pax, n, p) ==
    <<(SymbolId(pax, pax.relocs[n]) + pax.relocs[n].addend) % Words,
      p - 1 - pax.relocs[n].offset>>

ByteAfter(pax, n, p, b) ==
    \/ (\A m \in 1..n : ~Covers(pax, m, p)) /\ b = pax.sections[1][p]
    \/ \E m \in 1..n : /\ Covers(pax, m, p)
                       /\ \A l \in 1..n : Covers(pax, l, p) => l <= m
                       /\ b = Word(pax, m, p)

SectionsAfter(pax, n, s) ==
    /\ s \in Seq(Seq(Cell)) /\ Len(s) = Len(pax.sections)
    /\ \A k \in 1..Len(s) : /\ Len(s[k]) = Len(pax.sections[k])
                            /\ k # 1 => s[k] = pax.sections[k]
    /\ Len(s) # 0 => \A p \in 1..Len(s[1]) : ByteAfter(pax, n, p, s[1][p])

LEMMA ByteKept ==
    ASSUME NEW pax, NEW n \in Nat \ {0}, NEW p, NEW b, ByteAfter(pax, n - 1, p, b),
           ~Covers(pax, n, p)
    PROVE  ByteAfter(pax, n, p, b)
<1>1. \A m \in 1..n : m \in 1..(n - 1) \/ m = n
  OBVIOUS
<1>2. \A m \in 1..(n - 1) : m \in 1..n
  OBVIOUS
<1>3. CASE (\A m \in 1..(n - 1) : ~Covers(pax, m, p)) /\ b = pax.sections[1][p]
  BY <1>1, <1>3, Zenon DEF ByteAfter
<1>4. CASE \E m \in 1..(n - 1) : /\ Covers(pax, m, p)
                                 /\ \A l \in 1..(n - 1) : Covers(pax, l, p) => l <= m
                                 /\ b = Word(pax, m, p)
  <2>1. PICK m \in 1..(n - 1) : /\ Covers(pax, m, p)
                                /\ \A l \in 1..(n - 1) : Covers(pax, l, p) => l <= m
                                /\ b = Word(pax, m, p)
    BY <1>4
  <2>2. m \in 1..n /\ \A l \in 1..n : Covers(pax, l, p) => l <= m
    BY <1>1, <1>2, <2>1
  <2> QED  BY <2>1, <2>2, Zenon DEF ByteAfter
<1> QED  BY <1>3, <1>4, Zenon DEF ByteAfter

LEMMA ByteStored ==
    ASSUME NEW pax, NEW n \in Nat \ {0}, NEW p, Covers(pax, n, p)
    PROVE  ByteAfter(pax, n, p, Word(pax, n, p))
<1>1. n \in 1..n /\ \A l \in 1..n : l <= n
  OBVIOUS
<1> QED  BY <1>1, Zenon DEF ByteAfter

LEMMA ByteAtLast ==
    ASSUME NEW pax, pax.relocs \in Seq(RelocEntry), NEW p, NEW b,
           ByteAfter(pax, Len(pax.relocs), p, b)
    PROVE  b = RelocatedByte(pax, p)
<1> DEFINE D == DOMAIN pax.relocs
           Last(m) == Covers(pax, m, p) /\ \A l \in D : Covers(pax, l, p) => l <= m
<1>1. D = 1..Len(pax.relocs) /\ D \subseteq Nat
  OBVIOUS
<1> HIDE DEF D
<1>2. RelocatedByte(pax, p) =
        IF \E m \in D : Covers(pax, m, p)
        THEN Word(pax, CHOOSE m \in D : Last(m), p)
        ELSE pax.sections[1][p]
  BY DEF RelocatedByte, Word, D
<1>3. CASE (\A m \in D : ~Covers(pax, m, p)) /\ b = pax.sections[1][p]
  BY <1>2, <1>3
<1>4. ASSUME NEW m \in D, Last(m), b = Word(pax, m, p)
      PROVE  b = RelocatedByte(pax, p)
  <2> DEFINE c == CHOOSE x \in D : Last(x)
  <2>1. c \in D /\ Last(c)
    <3> HIDE DEF Last
    <3> QED  BY <1>4
  <2> HIDE DEF c
  <2>2. c <= m /\ m <= c /\ c \in Nat /\ m \in Nat
    BY <1>1, <1>4, <2>1
  <2>3. c = m
    BY <2>2
  <2>4. RelocatedByte(pax, p) = Word(pax, c, p)
    BY <1>2, <1>4 DEF c
  <2> QED  BY <1>4, <2>3, <2>4
<1>5. \/ (\A m \in D : ~Covers(pax, m, p)) /\ b = pax.sections[1][p]
      \/ \E m \in D : Last(m) /\ b = Word(pax, m, p)
  BY <1>1 DEF ByteAfter
<1> HIDE DEF Last
<1> QED  BY <1>3, <1>4, <1>5

(* What a relocation stores is a cell.                                     *)
LEMMA WordTyped ==
    ASSUME NEW pax \in ParsedPax, NEW n \in 1..Len(pax.relocs), NEW p \in Nat,
           p - 1 - pax.relocs[n].offset \in 0..(WordSize - 1)
    PROVE  Word(pax, n, p) \in Cell
<1>1. pax.symtab \in Seq(SymEntry) /\ pax.relocs \in Seq(RelocEntry)
  BY DEF ParsedPax
<1>2. pax.relocs[n] \in RelocEntry
  BY <1>1
<1> DEFINE r == pax.relocs[n]
<1>3. r.symbol_index \in Nat /\ r.addend \in Int /\ r.offset \in Nat
  BY <1>2 DEF RelocEntry
<1> HIDE DEF r
<1>4. SymbolId(pax, r) \in Int
  <2>1. CASE r.symbol_index + 1 \in DOMAIN pax.symtab
    <3>1. pax.symtab[r.symbol_index + 1] \in SymEntry
      BY <1>1, <2>1
    <3>2. pax.symtab[r.symbol_index + 1].hash \in Nat
      BY <3>1 DEF SymEntry
    <3> QED  BY <2>1, <3>2 DEF SymbolId
  <2>2. CASE r.symbol_index + 1 \notin DOMAIN pax.symtab
    BY <1>3, <2>2 DEF SymbolId
  <2> QED  BY <2>1, <2>2
<1>5. (SymbolId(pax, r) + r.addend) % Words \in Int
  BY <1>3, <1>4, LinkerAssumption
<1>6. p - 1 - r.offset \in Nat
  BY LinkerAssumption DEF r
<1> QED  BY <1>5, <1>6 DEF Word, Cell, r

(* A function on the first n numbers is a sequence.                        *)
LEMMA FunctionIsSeq ==
    ASSUME NEW T, NEW n, n \in Nat, NEW f, f \in [1..n -> T]
    PROVE  f \in Seq(T)
OBVIOUS

(* The bytes of a word at o.                                               *)
LEMMA WordRange ==
    ASSUME NEW o \in Nat, NEW w \in Nat \ {0}, NEW p \in Int
    PROVE  p - 1 \in o..(o + w - 1) <=> p - 1 - o \in 0..(w - 1)
OBVIOUS

(* One relocation, for sections of any content.                            *)
LEMMA ApplyRelocTyped ==
    ASSUME NEW pax \in ParsedPax, NEW n \in 1..Len(pax.relocs), NEW s, s \in Seq(Seq(Cell))
    PROVE  apply_reloc(s, pax.relocs[n], pax) \in Seq(Seq(Cell))
<1> DEFINE r == pax.relocs[n]
           Kept == \/ r.kind # "Abs64" \/ s = <<>> \/ r.offset + WordSize > Len(s[1])
           B(p) == IF p - 1 - r.offset \in 0..(WordSize - 1) THEN Word(pax, n, p) ELSE s[1][p]
           code == [p \in DOMAIN s[1] |-> B(p)]
<1>1. apply_reloc(s, r, pax) = IF Kept THEN s ELSE [s EXCEPT ![1] = code]
  BY DEF apply_reloc, Word
<1>2. ASSUME ~Kept PROVE [s EXCEPT ![1] = code] \in Seq(Seq(Cell))
  <2>1. s # <<>>
    BY <1>2
  <2>2. 1 \in DOMAIN s /\ s[1] \in Seq(Cell)
    BY <2>1
  <2>3. ASSUME NEW p \in DOMAIN s[1] PROVE B(p) \in Cell
    <3>1. p \in Nat /\ s[1][p] \in Cell
      BY <2>2
    <3> HIDE DEF Cell
    <3> QED  BY <3>1, WordTyped
  <2>4. code \in Seq(Cell)
    <3> HIDE DEF B
    <3>1. DOMAIN s[1] = 1..Len(s[1]) /\ Len(s[1]) \in Nat
      BY <2>2
    <3>2. code \in [1..Len(s[1]) -> Cell]
      BY <2>3, <3>1
    <3> HIDE DEF code
    <3> QED  BY <3>1, <3>2, FunctionIsSeq, Zenon
  <2> HIDE DEF code, Kept
  <2> QED  BY <2>2, <2>4
<1> HIDE DEF Kept, code
<1> QED  BY <1>1, <1>2 DEF r

(* One relocation, after n - 1 others.                                     *)
LEMMA ApplyRelocAfter ==
    ASSUME NEW pax \in ParsedPax, NEW n \in 1..Len(pax.relocs), NEW s,
           SectionsAfter(pax, n - 1, s)
    PROVE  SectionsAfter(pax, n, apply_reloc(s, pax.relocs[n], pax))
<1> DEFINE r == pax.relocs[n]
           Kept == \/ r.kind # "Abs64" \/ s = <<>> \/ r.offset + WordSize > Len(s[1])
           B(p) == IF p - 1 - r.offset \in 0..(WordSize - 1) THEN Word(pax, n, p) ELSE s[1][p]
           code == [p \in DOMAIN s[1] |-> B(p)]
           t == [s EXCEPT ![1] = code]
           L == Len(pax.sections[1])
<1>1. apply_reloc(s, r, pax) = IF Kept THEN s ELSE t
  BY DEF apply_reloc, Word
<1>2. /\ s \in Seq(Seq(Cell)) /\ Len(s) = Len(pax.sections)
      /\ \A k \in 1..Len(s) : /\ Len(s[k]) = Len(pax.sections[k])
                              /\ k # 1 => s[k] = pax.sections[k]
      /\ Len(s) # 0 => \A p \in 1..Len(s[1]) : ByteAfter(pax, n - 1, p, s[1][p])
  BY DEF SectionsAfter
<1>3. n \in Nat \ {0} /\ pax.relocs \in Seq(RelocEntry)
  BY DEF ParsedPax
<1>4. r \in RelocEntry
  BY <1>3
<1>5. r.offset \in Nat /\ WordSize \in Nat \ {0}
  BY <1>4, LinkerAssumption DEF RelocEntry
<1>6. \A p : Covers(pax, n, p) <=> /\ r.kind = "Abs64" /\ r.offset + WordSize <= L
                                   /\ p - 1 \in r.offset..(r.offset + WordSize - 1)
  BY DEF Covers
<1>7. ASSUME Kept PROVE SectionsAfter(pax, n, s)
  <2>1. ASSUME Len(s) # 0, NEW p \in 1..Len(s[1]) PROVE ByteAfter(pax, n, p, s[1][p])
    <3>1. 1 \in 1..Len(s) /\ s # <<>>
      BY <1>2, <2>1
    <3>2. Len(s[1]) = L /\ L \in Nat
      BY <1>2, <3>1
    <3>3. r.kind # "Abs64" \/ r.offset + WordSize > L
      BY <1>7, <3>1, <3>2
    <3> HIDE DEF r, L
    <3>5. ~(r.offset + WordSize > L /\ r.offset + WordSize <= L)
      BY <1>5, <3>2
    <3>6. ~Covers(pax, n, p)
      BY <1>6, <3>3, <3>5, Zenon
    <3>4. ByteAfter(pax, n - 1, p, s[1][p])
      BY <1>2, <2>1
    <3> QED  BY <1>3, <3>4, <3>6, ByteKept
  <2> QED  BY <1>2, <2>1 DEF SectionsAfter
<1>8. ASSUME ~Kept PROVE SectionsAfter(pax, n, t)
  <2>1. s # <<>> /\ r.kind = "Abs64" /\ ~(r.offset + WordSize > Len(s[1]))
    BY <1>8
  <2>2. 1 \in 1..Len(s) /\ 1 \in DOMAIN s /\ Len(s) # 0 /\ s[1] \in Seq(Cell)
    BY <1>2, <2>1
  <2>3. Len(s[1]) = L /\ L \in Nat /\ DOMAIN s[1] = 1..L
    BY <1>2, <2>2
  <2>4. t \in Seq(Seq(Cell))
    <3>1. apply_reloc(s, r, pax) \in Seq(Seq(Cell))
      BY <1>2, ApplyRelocTyped
    <3> HIDE DEF t, Kept
    <3> QED  BY <1>1, <1>8, <3>1
  <2>5. DOMAIN t = DOMAIN s /\ t[1] = code /\ \A k \in DOMAIN s : k # 1 => t[k] = s[k]
    <3> HIDE DEF code
    <3> QED  BY <1>2, <2>2
  <2> HIDE DEF t
  <2>6. Len(t) = Len(s)
    BY <1>2, <2>4, <2>5
  <2>7. DOMAIN code = 1..L /\ \A p \in 1..L : code[p] = B(p)
    <3> HIDE DEF B
    <3> QED  BY <2>3
  <2> HIDE DEF code
  <2>8. Len(t[1]) = L
    BY <2>2, <2>3, <2>4, <2>5, <2>6, <2>7
  <2>9. ASSUME NEW p \in 1..L PROVE ByteAfter(pax, n, p, t[1][p])
    <3>1. t[1][p] = B(p) /\ p \in Int
      BY <2>5, <2>7
    <3>2. Covers(pax, n, p) <=> p - 1 - r.offset \in 0..(WordSize - 1)
      <4>1. r.offset + WordSize <= L
        BY <1>5, <2>1, <2>3
      <4>2. p - 1 \in r.offset..(r.offset + WordSize - 1) <=> p - 1 - r.offset \in 0..(WordSize - 1)
        BY <1>5, <3>1, WordRange
      <4> HIDE DEF r, L
      <4> QED  BY <1>6, <2>1, <4>1, <4>2, Zenon
    <3>3. CASE Covers(pax, n, p)
      <4>1. t[1][p] = Word(pax, n, p)
        BY <3>1, <3>2, <3>3
      <4> QED  BY <1>3, <3>3, <4>1, ByteStored
    <3>4. CASE ~Covers(pax, n, p)
      <4>1. t[1][p] = s[1][p]
        BY <3>1, <3>2, <3>4
      <4>2. ByteAfter(pax, n - 1, p, s[1][p])
        BY <1>2, <2>2, <2>3
      <4>3. ByteAfter(pax, n, p, s[1][p])
        BY <1>3, <3>4, <4>2, ByteKept
      <4> QED  BY <4>1, <4>3
    <3> QED  BY <3>3, <3>4
  <2>10. ASSUME NEW k \in 1..Len(t)
         PROVE  Len(t[k]) = Len(pax.sections[k]) /\ (k # 1 => t[k] = pax.sections[k])
    <3>1. k \in 1..Len(s) /\ k \in DOMAIN s
      BY <1>2, <2>6
    <3> QED  BY <1>2, <2>5, <2>8, <3>1
  <2>11. \A p \in 1..Len(t[1]) : ByteAfter(pax, n, p, t[1][p])
    BY <2>8, <2>9
  <2> QED  BY <1>2, <2>4, <2>6, <2>10, <2>11, Zenon DEF SectionsAfter
<1> HIDE DEF Kept, t
<1> QED  BY <1>1, <1>7, <1>8 DEF r

(* All the relocations of an input.                                        *)
LEMMA RelocatedSections ==
    ASSUME NEW pax \in ParsedPax
    PROVE  SectionsAfter(pax, Len(pax.relocs), Relocated(pax))
<1> DEFINE N == Len(pax.relocs)
           X == Seq(Seq(Cell))
           F == [c \in X \X (1..N) |-> apply_reloc(c[1], pax.relocs[c[2]], pax)]
           Nth(f, n) == IF n = 0 THEN pax.sections
                        ELSE apply_reloc(f[n - 1], pax.relocs[n], pax)
           Runs(f) == f = [n \in 0..N |-> Nth(f, n)]
           after == CHOOSE f : Runs(f)
<1>1. Relocated(pax) = after[N]
  BY DEF Relocated
<1>2. N \in Nat /\ pax.sections \in X
  BY DEF ParsedPax
<1>3. ASSUME NEW n \in 1..N, NEW s \in X PROVE apply_reloc(s, pax.relocs[n], pax) \in X
  BY ApplyRelocTyped
<1>4. ASSUME NEW n \in 1..N, NEW s, SectionsAfter(pax, n - 1, s)
      PROVE  SectionsAfter(pax, n, apply_reloc(s, pax.relocs[n], pax))
  BY <1>4, ApplyRelocAfter
<1> HIDE DEF N
<1>5. F \in [X \X (1..N) -> X]
  <2> HIDE DEF X
  <2> QED  BY <1>3
<1>6. PICK g : Iterates(g, N, X, pax.sections, F)
  <2> HIDE DEF F, X
  <2> QED  BY <1>2, <1>5, Recursion, Zenon
<1> HIDE DEF X
<1>7. Runs(g)
  <2>1. ASSUME NEW n \in 0..N PROVE g[n] = Nth(g, n)
    <3>1. CASE n = 0
      BY <1>6, <3>1 DEF Iterates
    <3>2. CASE n # 0
      <4>1. n \in 1..N /\ n - 1 \in 0..N
        BY <1>2, <3>2
      <4>2. g \in [0..N -> X]
        BY <1>6 DEF Iterates
      <4>3. g[n - 1] \in X
        BY <4>1, <4>2
      <4>4. F[<<g[n - 1], n>>] = apply_reloc(g[n - 1], pax.relocs[n], pax)
        BY <4>1, <4>3
      <4> HIDE DEF F
      <4>5. g[n] = F[<<g[n - 1], n>>]
        BY <1>6, <4>1 DEF Iterates
      <4> QED  BY <3>2, <4>4, <4>5
    <3> QED  BY <3>1, <3>2
  <2> HIDE DEF Nth
  <2>2. g \in [0..N -> X]
    BY <1>6 DEF Iterates
  <2> QED  BY <2>1, <2>2
<1> HIDE DEF F
<1>8. Runs(after)
  <2> HIDE DEF Runs
  <2> QED  BY <1>7, Zenon
<1> HIDE DEF after
<1>9. ASSUME NEW n \in 0..N PROVE after[n] = Nth(after, n)
  <2> DEFINE whole == [i \in 0..N |-> Nth(after, i)]
  <2>1. after = whole
    BY <1>8, Zenon
  <2> HIDE DEF Nth
  <2>2. whole[n] = Nth(after, n)
    OBVIOUS
  <2> HIDE DEF whole
  <2> QED  BY <2>1, <2>2
<1> DEFINE S == {n \in 0..N : SectionsAfter(pax, n, after[n])}
<1>10. 0 \in S
  <2>1. after[0] = pax.sections /\ 0 \in 0..N
    BY <1>2, <1>9
  <2>2. pax.sections \in Seq(Seq(Cell))
    BY DEF ParsedPax
  <2>3. \A p, b : b = pax.sections[1][p] => ByteAfter(pax, 0, p, b)
    BY DEF ByteAfter
  <2>4. SectionsAfter(pax, 0, pax.sections)
    BY <2>2, <2>3 DEF SectionsAfter
  <2> QED  BY <2>1, <2>4
<1>11. ASSUME NEW n \in 0..(N - 1), n \in S PROVE n + 1 \in S
  <2> DEFINE m == n + 1
  <2>1. m \in 1..N /\ m \in 0..N /\ m - 1 = n /\ m # 0
    BY <1>2
  <2>2. SectionsAfter(pax, n, after[n])
    BY <1>11
  <2> HIDE DEF m
  <2>3. after[m] = apply_reloc(after[m - 1], pax.relocs[m], pax)
    BY <1>9, <2>1
  <2>4. SectionsAfter(pax, m, apply_reloc(after[m - 1], pax.relocs[m], pax))
    BY <1>4, <2>1, <2>2
  <2>5. m \in S
    BY <2>1, <2>3, <2>4
  <2> QED  BY <2>5 DEF m
<1>12. N \in S
  <2>1. N \in 0..N
    BY <1>2
  <2> HIDE DEF S
  <2> QED  BY <1>2, <1>10, <1>11, <2>1, UpTo, Zenon
<1> QED  BY <1>1, <1>12 DEF N

-----------------------------------------------------------------------------
(* The inputs already relocated, and nothing written before the end.       *)
OutputInv ==
    /\ relocated \in Seq(Seq(Seq(Cell))) /\ Len(relocated) <= Len(inputs)
    /\ \A i \in 1..Len(relocated) : relocated[i] = Relocated(inputs[i])
    /\ phase # "done" => output = <<>>
    /\ OutputPlacesInputs

(* A merged section, with every input's relocated part at its base.        *)
LEMMA MergedPlaces ==
    ASSUME inputs \in Seq(File), OutputInv, Len(relocated) = Len(inputs), inputs # <<>>,
           NEW k, NEW i \in DOMAIN inputs, k \in DOMAIN inputs[i].sections,
           NEW p \in DOMAIN inputs[i].sections[k]
    PROVE  /\ Base(i, k) + p \in DOMAIN MergedSection(k)
           /\ MergedSection(k)[Base(i, k) + p] =
                IF k = 1 THEN RelocatedByte(inputs[i], p) ELSE inputs[i].sections[k][p]
<1> DEFINE N == Len(inputs)
           Part(j) == IF k \in DOMAIN relocated[j] THEN relocated[j][k] ELSE <<>>
           parts == [j \in 1..N |-> Part(j)]
           off == [n \in 0..N |-> Base(n + 1, k)]
<1>1. N \in Nat \ {0} /\ DOMAIN inputs = 1..N /\ DOMAIN relocated = 1..N
  BY DEF OutputInv
<1>2. MergedSection(k) = extend_from_slice(parts)
  BY <1>1 DEF MergedSection
<1>3. ASSUME NEW j \in 1..N
      PROVE  /\ relocated[j] \in Seq(Seq(Cell))
             /\ inputs[j].sections \in Seq(Seq(Cell))
             /\ inputs[j].relocs \in Seq(RelocEntry)
             /\ SectionsAfter(inputs[j], Len(inputs[j].relocs), relocated[j])
  <2>1. inputs[j] \in File /\ inputs[j].sections \in Seq(Seq(Cell))
        /\ inputs[j].relocs \in Seq(RelocEntry)
    BY <1>1, InputTyped
  <2>2. inputs[j] \in ParsedPax
    BY <2>1, LinkerAssumption
  <2>3. relocated[j] \in Seq(Seq(Cell)) /\ relocated[j] = Relocated(inputs[j])
    <3> HIDE DEF Cell
    <3> QED  BY <1>1 DEF OutputInv
  <2> QED  BY <2>1, <2>2, <2>3, RelocatedSections
<1> HIDE DEF N
<1>4. ASSUME NEW j \in 1..N
      PROVE  /\ DOMAIN relocated[j] = DOMAIN inputs[j].sections
             /\ Part(j) \in Seq(Cell) /\ Len(Part(j)) = SizeOf(j, k)
  <2> DEFINE s == relocated[j]
             z == inputs[j].sections
  <2>1. s \in Seq(Seq(Cell)) /\ z \in Seq(Seq(Cell)) /\ Len(s) = Len(z)
        /\ \A l \in 1..Len(s) : Len(s[l]) = Len(z[l])
    <3>1. s \in Seq(Seq(Cell)) /\ z \in Seq(Seq(Cell))
      BY <1>3
    <3>2. SectionsAfter(inputs[j], Len(inputs[j].relocs), s)
      BY <1>3
    <3> HIDE DEF s
    <3> QED  BY <3>1, <3>2 DEF SectionsAfter
  <2>2. SizeOf(j, k) = IF k \in DOMAIN z THEN Len(z[k]) ELSE 0
    BY DEF SizeOf
  <2> HIDE DEF s, z, Cell
  <2>3. DOMAIN s = DOMAIN z /\ DOMAIN s = 1..Len(s)
    BY <2>1
  <2>4. CASE k \in DOMAIN s
    <3>1. s[k] \in Seq(Cell) /\ Len(s[k]) = SizeOf(j, k)
      BY <2>1, <2>2, <2>3, <2>4
    <3> QED  BY <2>3, <2>4, <3>1 DEF s, z
  <2>5. CASE k \notin DOMAIN s
    <3>1. Part(j) = <<>>
      BY <2>5 DEF s
    <3> HIDE DEF Part
    <3>2. Part(j) \in Seq(Cell) /\ Len(Part(j)) = 0
      BY <3>1
    <3> QED  BY <2>2, <2>3, <2>5, <3>2 DEF s, z
  <2> QED  BY <2>4, <2>5
<1> HIDE DEF Part
<1>5. IsParts(parts, Cell) /\ Len(parts) = N
  <2>1. parts \in [1..N -> Seq(Cell)]
    BY <1>4
  <2> HIDE DEF parts
  <2>2. parts \in Seq(Seq(Cell))
    BY <1>1, <2>1, FunctionIsSeq, Zenon
  <2>3. Len(parts) = N
    BY <1>1, <2>1, <2>2
  <2> QED  BY <1>1, <2>2, <2>3 DEF IsParts
<1>6. \A j \in 1..N : parts[j] = Part(j)
  OBVIOUS
<1>7. /\ Base(1, k) = 0
      /\ \A j \in 1..N : /\ Base(j, k) \in Nat /\ SizeOf(j, k) \in Nat
                         /\ Base(j + 1, k) = Base(j, k) + SizeOf(j, k)
  <2>1. /\ Base(1, k) = 0
        /\ \A j \in DOMAIN inputs : /\ Base(j, k) \in Nat /\ SizeOf(j, k) \in Nat
                                   /\ Base(j + 1, k) = Base(j, k) + SizeOf(j, k)
    BY BaseAdds, Zenon
  <2>2. DOMAIN inputs = 1..N
    BY <1>1
  <2> QED  BY <2>1, <2>2, Zenon
<1>8. Ends(off, parts)
  <2>1. ASSUME NEW n \in 0..N PROVE Base(n + 1, k) \in Nat
    <3>1. CASE n = N
      <4>1. N \in 1..N
        BY <1>1
      <4>2. Base(N + 1, k) = Base(N, k) + SizeOf(N, k)
        BY <1>7, <4>1, Zenon
      <4>3. Base(N, k) \in Nat /\ SizeOf(N, k) \in Nat
        BY <1>7, <4>1, Zenon
      <4> QED  BY <3>1, <4>2, <4>3
    <3>2. CASE n # N
      <4>1. n + 1 \in 1..N
        BY <1>1, <3>2
      <4> QED  BY <1>7, <4>1
    <3> QED  BY <3>1, <3>2
  <2>2. off \in [0..N -> Nat]
    BY <2>1
  <2>3. off[0] = 0
    BY <1>1, <1>7
  <2>4. ASSUME NEW n \in 1..N PROVE off[n] = off[n - 1] + Len(parts[n])
    <3>1. n - 1 \in 0..N /\ n \in 0..N /\ (n - 1) + 1 = n
      BY <1>1
    <3>2. off[n] = Base(n + 1, k) /\ off[n - 1] = Base(n, k)
      BY <3>1
    <3> HIDE DEF off, parts
    <3>3. Len(parts[n]) = SizeOf(n, k)
      BY <1>4, <1>6
    <3> QED  BY <1>7, <3>2, <3>3
  <2> HIDE DEF off, parts
  <2> QED  BY <1>5, <2>2, <2>3, <2>4 DEF Ends
<1>9. i \in 1..N /\ off[i - 1] = Base(i, k)
  <2>1. i \in 1..N
    BY <1>1
  <2>2. i - 1 \in 0..N /\ (i - 1) + 1 = i
    BY <1>1, <2>1
  <2> QED  BY <2>1, <2>2
<1> HIDE DEF parts, off
<1>10. p \in 1..Len(parts[i])
  <2>1. inputs[i].sections[k] \in Seq(Cell)
    BY <1>3, <1>9
  <2>2. Len(parts[i]) = Len(inputs[i].sections[k])
    BY <1>4, <1>6, <1>9 DEF SizeOf
  <2> QED  BY <2>1, <2>2
<1>11. /\ off[i - 1] + p \in DOMAIN extend_from_slice(parts)
       /\ extend_from_slice(parts)[off[i - 1] + p] = parts[i][p]
  <2>1. Placed(parts, off)
    BY <1>5, <1>8, ExtendPlaces, Zenon
  <2>2. i \in 1..Len(parts)
    BY <1>5, <1>9
  <2> QED  BY <1>10, <2>1, <2>2, Zenon DEF Placed
<1>12. /\ Base(i, k) + p \in DOMAIN MergedSection(k)
       /\ MergedSection(k)[Base(i, k) + p] = parts[i][p]
  BY <1>2, <1>9, <1>11
<1>13. parts[i][p] = IF k = 1 THEN RelocatedByte(inputs[i], p) ELSE inputs[i].sections[k][p]
  <2>1. parts[i] = relocated[i][k] /\ k \in DOMAIN relocated[i]
    BY <1>4, <1>6, <1>9 DEF Part
  <2>2. relocated[i] \in Seq(Seq(Cell)) /\ inputs[i].relocs \in Seq(RelocEntry)
        /\ SectionsAfter(inputs[i], Len(inputs[i].relocs), relocated[i])
    BY <1>3, <1>9
  <2>3. k \in 1..Len(relocated[i])
    BY <2>1, <2>2
  <2>4. CASE k # 1
    <3>1. relocated[i][k] = inputs[i].sections[k]
      BY <2>2, <2>3, <2>4 DEF SectionsAfter
    <3> QED  BY <2>1, <2>4, <3>1
  <2>5. CASE k = 1
    <3>1. Len(relocated[i]) # 0 /\ p \in 1..Len(relocated[i][1])
      BY <1>10, <2>1, <2>3, <2>5
    <3>2. ByteAfter(inputs[i], Len(inputs[i].relocs), p, relocated[i][1][p])
      BY <2>2, <3>1 DEF SectionsAfter
    <3>3. relocated[i][1][p] = RelocatedByte(inputs[i], p)
      <4> DEFINE pax == inputs[i]
                 b == relocated[i][1][p]
      <4>1. pax.relocs \in Seq(RelocEntry) /\ ByteAfter(pax, Len(pax.relocs), p, b)
        BY <2>2, <3>2
      <4> HIDE DEF pax, b
      <4>2. b = RelocatedByte(pax, p)
        BY <4>1, ByteAtLast, Zenon
      <4> QED  BY <4>2 DEF pax, b
    <3> QED  BY <2>1, <2>5, <3>3
  <2> QED  BY <2>4, <2>5
<1> QED  BY <1>12, <1>13

LEMMA NothingWritten == output = <<>> => OutputPlacesInputs
<1> SUFFICES ASSUME output = <<>> PROVE OutputPlacesInputs
  OBVIOUS
<1>1. Range(output) = {}
  BY DEF Range
<1> QED  BY <1>1, Zenon DEF OutputPlacesInputs

(* The written file.                                                       *)
LEMMA EmitPlaces ==
    ASSUME inputs \in Seq(File), OutputInv, Len(relocated) = Len(inputs),
           output' = <<IF inputs = <<>> THEN emit_minimal_pax ELSE emit_final_pax>>,
           inputs' = inputs
    PROVE  OutputPlacesInputs'
<1>1. CASE inputs = <<>>
  BY <1>1, Zenon DEF OutputPlacesInputs
<1>2. CASE inputs # <<>>
  <2> DEFINE o == emit_final_pax
  <2>1. output' = <<o>>
    BY <1>2
  <2>2. \A k \in DOMAIN inputs[1].sections : o.contents[k] = MergedSection(k)
    BY DEF emit_final_pax
  <2> HIDE DEF o
  <2>3. Range(output)' = {o}
    BY <2>1 DEF Range
  <2>4. ASSUME NEW k \in DOMAIN inputs[1].sections, NEW i \in DOMAIN inputs,
               k \in DOMAIN inputs[i].sections, NEW p \in DOMAIN inputs[i].sections[k]
        PROVE  /\ Base(i, k) + p \in DOMAIN o.contents[k]
               /\ o.contents[k][Base(i, k) + p] =
                    IF k = 1 THEN RelocatedByte(inputs[i], p) ELSE inputs[i].sections[k][p]
    BY <1>2, <2>2, <2>4, MergedPlaces
  <2>5. \A i, k : Base(i, k)' = Base(i, k)
    BY DEF Base, SizeOf
  <2> QED  BY <2>3, <2>4, <2>5 DEF OutputPlacesInputs
<1> QED  BY <1>1, <1>2

LEMMA OutputInvStep == SymbolsInv /\ OutputInv /\ [LinkNext]_linkVars => OutputInv'
<1> SUFFICES ASSUME SymbolsInv, OutputInv, [LinkNext]_linkVars PROVE OutputInv'
  OBVIOUS
<1>1. /\ relocated \in Seq(Seq(Seq(Cell))) /\ Len(relocated) <= Len(inputs)
      /\ \A i \in 1..Len(relocated) : relocated[i] = Relocated(inputs[i])
      /\ phase # "done" => output = <<>>
      /\ inputs \in Seq(File)
  BY DEF OutputInv, SymbolsInv, LinkTypeOK
<1>2. output' = <<>> => OutputPlacesInputs'
  <2>1. (output = <<>> => OutputPlacesInputs)'
    BY NothingWritten, PTL
  <2> QED  BY <2>1
<1>3. ASSUME NEW f \in File, parse_pax(f) PROVE OutputInv'
  <2>1. relocated' = relocated /\ output' = <<>> /\ (inputs' = inputs \/ inputs' = Append(inputs, f))
    BY <1>1, <1>3 DEF parse_pax
  <2>2. Len(inputs) <= Len(inputs') /\ \A i \in 1..Len(inputs) : inputs'[i] = inputs[i]
    BY <1>1, <2>1
  <2>3. \A i \in 1..Len(relocated) : i \in 1..Len(inputs)
    BY <1>1
  <2>4. \A i \in 1..Len(relocated) : relocated[i] = Relocated(inputs'[i])
    BY <1>1, <2>2, <2>3
  <2>5. Len(relocated) <= Len(inputs')
    <3>1. Len(relocated) \in Nat /\ Len(inputs) \in Nat /\ Len(inputs') \in Nat
      BY <1>1, <2>1
    <3> QED  BY <1>1, <2>2, <3>1
  <2> QED  BY <1>1, <1>2, <2>1, <2>4, <2>5, Zenon DEF OutputInv
<1>4. CASE relocate_input
  <2> DEFINE n == Len(relocated) + 1
             r == Relocated(inputs[n])
  <2>1. /\ phase = "relocate" /\ relocated' = Append(relocated, r) /\ inputs' = inputs
        /\ phase' = phase /\ output' = output /\ Len(relocated) < Len(inputs)
    BY <1>4 DEF relocate_input
  <2>2. n \in DOMAIN inputs
    BY <1>1, <2>1
  <2>3. inputs[n] \in ParsedPax
    <3> HIDE DEF n
    <3>1. inputs[n] \in File
      BY <1>1, <2>2
    <3> QED  BY <3>1, LinkerAssumption
  <2>4. r \in Seq(Seq(Cell))
    <3> HIDE DEF n
    <3> QED  BY <2>3, RelocatedSections DEF SectionsAfter
  <2>5. relocated' \in Seq(Seq(Seq(Cell))) /\ Len(relocated') = n
    <3> HIDE DEF r, Cell
    <3> QED  BY <1>1, <2>1, <2>4
  <2>6. Len(relocated') <= Len(inputs')
    BY <1>1, <2>1, <2>5
  <2>7. ASSUME NEW i \in 1..Len(relocated') PROVE relocated'[i] = Relocated(inputs'[i])
    <3>1. CASE i = n
      <4>1. relocated'[n] = r
        <5> HIDE DEF r, Cell
        <5> QED  BY <1>1, <2>1
      <4> QED  BY <2>1, <3>1, <4>1
    <3>2. CASE i # n
      <4>1. i \in 1..Len(relocated)
        BY <1>1, <2>5, <3>2
      <4>2. relocated'[i] = relocated[i]
        <5> HIDE DEF r, Cell
        <5> QED  BY <1>1, <2>1, <4>1
      <4> QED  BY <1>1, <2>1, <4>1, <4>2
    <3> QED  BY <3>1, <3>2
  <2>8. output' = <<>>
    BY <1>1, <2>1
  <2> HIDE DEF n, r
  <2> QED  BY <1>2, <2>5, <2>6, <2>7, <2>8, Zenon DEF OutputInv
<1>5. CASE Emit
  <2>1. inputs' = inputs /\ relocated' = relocated /\ Len(relocated) = Len(inputs)
    BY <1>5 DEF Emit
  <2>2. \/ /\ output' = <<IF inputs = <<>> THEN emit_minimal_pax ELSE emit_final_pax>>
           /\ phase' = "done"
        \/ phase' = "failed" /\ output' = <<>>
    BY <1>1, <1>5 DEF Emit
  <2>3. OutputPlacesInputs' /\ (phase' # "done" => output' = <<>>)
    BY <1>1, <1>2, <2>1, <2>2, EmitPlaces
  <2> QED  BY <1>1, <2>1, <2>3, Zenon DEF OutputInv
<1>6. ASSUME UNCHANGED <<inputs, relocated, output>>, phase # "done", phase' # "done"
      PROVE  OutputInv'
  <2>1. output' = <<>>
    BY <1>6 DEF OutputInv
  <2>2. /\ relocated' \in Seq(Seq(Seq(Cell))) /\ Len(relocated') <= Len(inputs')
        /\ \A i \in 1..Len(relocated') : relocated'[i] = Relocated(inputs'[i])
    BY <1>6 DEF OutputInv
  <2> QED  BY <1>2, <2>1, <2>2, Zenon DEF OutputInv
<1>7. CASE Parsed
  <2>1. UNCHANGED <<inputs, relocated, output>> /\ phase = "parse" /\ phase' = "index"
    BY <1>7 DEF Parsed
  <2>2. phase # "done" /\ phase' # "done"
    BY <2>1
  <2> QED  BY <1>6, <2>1, <2>2, Zenon
<1>8. CASE IndexSymbol
  BY <1>6, <1>8 DEF IndexSymbol
<1>9. CASE NextSymtab
  BY <1>6, <1>9 DEF NextSymtab
<1>10. CASE IndexExports
  BY <1>6, <1>10 DEF IndexExports
<1>11. CASE CheckSymbols
  BY <1>6, <1>11 DEF CheckSymbols
<1>12. CASE CheckImports
  BY <1>6, <1>12 DEF CheckImports
<1>13. CASE Stop \/ UNCHANGED linkVars
  <2>1. UNCHANGED <<inputs, relocated, output, phase>>
    BY <1>13 DEF Stop, linkVars
  <2>2. \A i, k : Base(i, k)' = Base(i, k)
    BY <2>1 DEF Base, SizeOf
  <2>3. OutputPlacesInputs'
    BY <2>1, <2>2 DEF OutputInv, OutputPlacesInputs
  <2> QED  BY <1>1, <2>1, <2>3 DEF OutputInv
<1>14. CASE Panic
  BY <1>6, <1>14 DEF Panic
<1> QED  BY <1>3, <1>4, <1>5, <1>7, <1>8, <1>9, <1>10, <1>11, <1>12, <1>13, <1>14 DEF LinkNext, Step

(* emit_final_pax, for any inputs with any relocations: every byte of      *)
(* every input's section lies at the input's base in the written section,  *)
(* with the relocations of the code applied in order.                      *)
THEOREM OutputLayout == LinkSpec => []OutputPlacesInputs
<1>1. LinkSpec => []SymbolsInv
  BY SymbolsInvInit, SymbolsInvStep, PTL DEF LinkSpec
<1>2. LinkInit => OutputInv
  <2> SUFFICES ASSUME LinkInit PROVE OutputInv
    OBVIOUS
  <2>1. relocated = <<>> /\ inputs = <<>> /\ output = <<>>
    BY DEF LinkInit
  <2>2. relocated \in Seq(Seq(Seq(Cell))) /\ Len(relocated) = 0 /\ Len(inputs) = 0
    BY <2>1
  <2> QED  BY <2>1, <2>2, NothingWritten DEF OutputInv
<1>3. OutputInv => OutputPlacesInputs
  BY DEF OutputInv
<1> QED  BY <1>1, <1>2, <1>3, OutputInvStep, PTL DEF LinkSpec
=============================================================================
