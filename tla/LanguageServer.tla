--------------------------- MODULE LanguageServer ---------------------------
(***************************************************************************)
(* The language server and an editor: documents are opened, edited by      *)
(* ranges and closed, each notification is handled to its end in the order *)
(* of arrival, and the diagnostics of the new text go back.                *)
(*                                                                         *)
(* The editor and the two ordered streams stand for the protocol; the rest *)
(* is server.rs, document.rs, diagnostics.rs, cache.rs and the part of the *)
(* query engine the server uses.  A text is a sequence of characters;      *)
(* offsets are bytes, positions are lines and UTF-16 units.                *)
(***************************************************************************)
EXTENDS Integers, Sequences, FiniteSets

CONSTANTS
    Uri,
    Char,
    Newline,
    char_len_utf8,    \* bytes of a character
    char_len_utf16,   \* units of a character
    Faulty,           \* the characters the parser objects to
    Texts,            \* texts a document may be opened with
    Insertions,       \* texts an edit may insert
    Capacity,         \* of the parse cache
    MaxLength,        \* of a text
    MaxChanges,       \* content changes the editor sends
    MaxOpens,         \* documents the editor opens, again or anew
    MaxInFlight       \* messages under way when the editor sends one more

ASSUME ServerAssumption ==
    /\ Capacity \in Nat \ {0}
    /\ Newline \in Char
    /\ char_len_utf8 \in [Char -> 1..4]
    /\ char_len_utf16 \in [Char -> 1..2]
    /\ Texts \subseteq Seq(Char) /\ Insertions \subseteq Seq(Char)

VARIABLES
    docs,             \* DocumentStore
    cache,            \* ParseCache, the most recently used entry first
    revision,         \* QueryEngine::revision
    snapshots,        \* QueryEngine::documents
    edited,           \* the editor's documents
    shown,            \* the diagnostics it shows
    to_server,
    to_client,
    changes, opens    \* what the editor has sent

server == <<docs, cache, revision, snapshots>>
editor == <<edited, changes, opens>>
serverVars == <<server, editor, shown, to_server, to_client>>

Document(open, version, text) == [open |-> open, version |-> version, text |-> text]
NoDocument == Document(FALSE, 0, <<>>)
Position(line, character) == [line |-> line, character |-> character]
Publication(u, version, diagnostics) ==
    [uri |-> u, version |-> version, diagnostics |-> diagnostics]

-----------------------------------------------------------------------------
(* Offsets and positions.                                                  *)
Prefix(text, k) == SubSeq(text, 1, k)
Measure(length, text) ==
    LET sum[k \in 0..Len(text)] == IF k = 0 THEN 0 ELSE sum[k - 1] + length[text[k]]
    IN  sum[Len(text)]
Bytes(text) == Measure(char_len_utf8, text)
Units(text) == Measure(char_len_utf16, text)
Newlines(text) == {k \in DOMAIN text : text[k] = Newline}

(* The characters before line n, and the line without its newline.         *)
LineStart(text, n) ==
    IF n = 0 THEN 0
    ELSE CHOOSE k \in Newlines(text) : Cardinality({j \in Newlines(text) : j <= k}) = n
Line(text, n) ==
    LET rest == {k \in Newlines(text) : k > LineStart(text, n)}
        end == IF rest = {} THEN Len(text) ELSE (CHOOSE k \in rest : \A j \in rest : k <= j) - 1
    IN  SubSeq(text, LineStart(text, n) + 1, end)

(* Mutant: a unit is taken for a character.                                *)
utf16_offset_to_utf8_of_characters(s, offset) ==
    Bytes(Prefix(s, IF offset < Len(s) THEN offset ELSE Len(s)))

(* The longest prefix of at most offset units; a surrogate pair is whole.  *)
utf16_offset_to_utf8(s, offset) ==
    LET fits == {k \in 0..Len(s) : Units(Prefix(s, k)) <= offset}
    IN  Bytes(Prefix(s, CHOOSE k \in fits : \A j \in fits : j <= k))

position_to_offset(text, position) ==
    IF position.line > Cardinality(Newlines(text)) THEN Bytes(text)
    ELSE Bytes(Prefix(text, LineStart(text, position.line)))
         + utf16_offset_to_utf8(Line(text, position.line), position.character)

CharactersBefore(text, offset) ==
    Cardinality({k \in DOMAIN text : Bytes(Prefix(text, k - 1)) < offset})

(* Columns of diagnostics are characters, not units.                       *)
byte_offset_to_position(text, offset) ==
    LET before == Prefix(text, CharactersBefore(text, offset))
        line == Cardinality(Newlines(before))
    IN  Position(line, Len(before) - LineStart(before, line))

-----------------------------------------------------------------------------
(* Documents.                                                              *)
apply_change(text, change) ==
    IF change.whole THEN change.text
    ELSE LET start == CharactersBefore(text, position_to_offset(text, change.start))
             end == CharactersBefore(text, position_to_offset(text, change.end))
         IN  Prefix(text, start) \o change.text \o SubSeq(text, end + 1, Len(text))

(* Mutant: the document keeps its version.                                 *)
Changed_without_version(u, version, list) ==
    LET text[k \in 0..Len(list)] ==
            IF k = 0 THEN docs[u].text ELSE apply_change(text[k - 1], list[k])
    IN  [docs EXCEPT ![u] = Document(TRUE, docs[u].version, text[Len(list)])]

(* DocumentStore::change, for an open document.                            *)
Changed(u, version, list) ==
    LET text[k \in 0..Len(list)] ==
            IF k = 0 THEN docs[u].text ELSE apply_change(text[k - 1], list[k])
    IN  [docs EXCEPT ![u] = Document(TRUE, version, text[Len(list)])]

-----------------------------------------------------------------------------
(* The parser reports each faulty character by its bytes.                  *)
faults(text) ==
    {<<Bytes(Prefix(text, k - 1)), Bytes(Prefix(text, k))>> :
        k \in {j \in DOMAIN text : text[j] \in Faulty}}

to_lsp_diagnostic(text, span) ==
    [start |-> byte_offset_to_position(text, span[1]), end |-> byte_offset_to_position(text, span[2])]

diagnose_document(text) == {to_lsp_diagnostic(text, span) : span \in faults(text)}

(* One entry per document, with the text it was computed from in place of  *)
(* the hash of that text.                                                  *)
CacheEntry(u, text) == [uri |-> u, content |-> text, diagnostics |-> diagnose_document(text)]

Entries(u) == {k \in 1..Len(cache) : cache[k].uri = u}

(* Mutant: whatever is cached for the document is taken.                   *)
lookup_without_hash(u, text) == Entries(u)

lookup(u, text) == {k \in Entries(u) : cache[k].content = text}

(* LruCache::put, and LruCache::get on a hit: the entry is first, and the  *)
(* last one goes when there is no room.                                    *)
Used(entry) ==
    LET rest == IF Entries(entry.uri) = {} THEN cache
                ELSE LET k == CHOOSE k \in Entries(entry.uri) : TRUE
                     IN  Prefix(cache, k - 1) \o SubSeq(cache, k + 1, Len(cache))
    IN  <<entry>> \o Prefix(rest, IF Len(rest) < Capacity THEN Len(rest) ELSE Capacity - 1)

(* diagnose_document_with_cache: the entry that answers.                   *)
Diagnosed(u, text) ==
    IF lookup(u, text) = {} THEN CacheEntry(u, text)
    ELSE cache[CHOOSE k \in lookup(u, text) : TRUE]

(* QueryEngine::set_document.  Nothing asks the engine for a parse or an   *)
(* elaboration, so there are none to remove.                               *)
set_document(u, text) ==
    IF snapshots[u].rev > 0 /\ snapshots[u].text = text THEN UNCHANGED <<revision, snapshots>>
    ELSE /\ revision' = revision + 1
         /\ snapshots' = [snapshots EXCEPT ![u] = [rev |-> revision + 1, text |-> text]]

(* What did_open and did_change do with the new text.                      *)
Publish(u, version, text) ==
    LET entry == Diagnosed(u, text)
    IN  /\ set_document(u, text)
        /\ cache' = Used(entry)
        /\ to_client' = Append(to_client, Publication(u, version, entry.diagnostics))

-----------------------------------------------------------------------------
ServerInit ==
    /\ docs = [u \in Uri |-> NoDocument]
    /\ cache = <<>>
    /\ revision = 0
    /\ snapshots = [u \in Uri |-> [rev |-> 0, text |-> <<>>]]
    /\ edited = [u \in Uri |-> NoDocument]
    /\ shown = [u \in Uri |-> Publication(u, 0, {})]
    /\ to_server = <<>> /\ to_client = <<>>
    /\ changes = 0 /\ opens = 0

Message(kind, u, version, text, list) ==
    [kind |-> kind, uri |-> u, version |-> version, text |-> text, changes |-> list]

Take == to_server # <<>> /\ to_server' = Tail(to_server)
Receive(kind) == Take /\ Head(to_server).kind = kind

did_open ==
    /\ Receive("didOpen")
    /\ LET msg == Head(to_server)
       IN  /\ docs' = [docs EXCEPT ![msg.uri] = Document(TRUE, msg.version, msg.text)]
           /\ Publish(msg.uri, msg.version, msg.text)
    /\ UNCHANGED <<editor, shown>>

(* A change of a document that is not open is ignored.                     *)
did_change ==
    /\ Receive("didChange")
    /\ LET msg == Head(to_server)
       IN  IF docs[msg.uri].open
           THEN /\ docs' = Changed(msg.uri, msg.version, msg.changes)
                /\ Publish(msg.uri, docs'[msg.uri].version, docs'[msg.uri].text)
           ELSE UNCHANGED <<server, to_client>>
    /\ UNCHANGED <<editor, shown>>

(* The cache and the engine keep what they have of a closed document.      *)
did_close ==
    /\ Receive("didClose")
    /\ docs' = [docs EXCEPT ![Head(to_server).uri] = NoDocument]
    /\ UNCHANGED <<cache, revision, snapshots, editor, shown, to_client>>

Handle == did_open \/ did_change \/ did_close

(* A publication reaches the editor, which shows it.                       *)
Deliver ==
    /\ to_client # <<>>
    /\ shown' = [shown EXCEPT ![Head(to_client).uri] = Head(to_client)]
    /\ to_client' = Tail(to_client)
    /\ UNCHANGED <<server, editor, to_server>>
-----------------------------------------------------------------------------
(* The editor: its carets are UTF-16 positions in the text it holds, and   *)
(* the second change of a notification is made in the text the first left. *)
Caret(text, i) ==
    LET line == Cardinality(Newlines(Prefix(text, i)))
    IN  Position(line, Units(SubSeq(text, LineStart(text, line) + 1, i)))
Splice(text, i, j, new) == Prefix(text, i) \o new \o SubSeq(text, j + 1, Len(text))
Change(text, i, j, new) ==
    [whole |-> FALSE, start |-> Caret(text, i), end |-> Caret(text, j), text |-> new]
Replacement(new) == [whole |-> TRUE, start |-> Position(0, 0), end |-> Position(0, 0), text |-> new]

SendChanges(u, list, text) ==
    LET version == edited[u].version + 1
    IN  /\ changes + Len(list) <= MaxChanges
        /\ Len(text) <= MaxLength
        /\ edited' = [edited EXCEPT ![u] = Document(TRUE, version, text)]
        /\ to_server' = Append(to_server, Message("didChange", u, version, <<>>, list))
        /\ changes' = changes + Len(list)
        /\ UNCHANGED <<server, opens, shown, to_client>>

Open(u) ==
    /\ ~edited[u].open /\ opens < MaxOpens
    /\ \E text \in Texts :
        /\ edited' = [edited EXCEPT ![u] = Document(TRUE, 1, text)]
        /\ to_server' = Append(to_server, Message("didOpen", u, 1, text, <<>>))
    /\ opens' = opens + 1
    /\ UNCHANGED <<server, changes, shown, to_client>>

Edit(u) ==
    /\ edited[u].open
    /\ LET text == edited[u].text
       IN  \E i \in 0..Len(text) : \E j \in i..Len(text), new \in Insertions :
            SendChanges(u, <<Change(text, i, j, new)>>, Splice(text, i, j, new))

EditTwice(u) ==
    /\ edited[u].open /\ changes + 2 <= MaxChanges
    /\ LET text == edited[u].text
       IN  \E i \in 0..Len(text) : \E j \in i..Len(text), new \in Insertions :
            LET next == Splice(text, i, j, new)
            IN  \E k \in 0..Len(next) : \E l \in k..Len(next), new2 \in Insertions :
                    SendChanges(u, <<Change(text, i, j, new), Change(next, k, l, new2)>>,
                                Splice(next, k, l, new2))

Replace(u) ==
    /\ edited[u].open
    /\ \E new \in Texts : SendChanges(u, <<Replacement(new)>>, new)

Close(u) ==
    /\ edited[u].open
    /\ edited' = [edited EXCEPT ![u] = NoDocument]
    /\ to_server' = Append(to_server, Message("didClose", u, 0, <<>>, <<>>))
    /\ UNCHANGED <<server, changes, opens, shown, to_client>>

Type ==
    /\ Len(to_server) + Len(to_client) <= MaxInFlight
    /\ \E u \in Uri : Open(u) \/ Edit(u) \/ EditTwice(u) \/ Replace(u) \/ Close(u)

ServerNext == Handle \/ Deliver \/ Type

(* A notification that has arrived is handled and a publication arrives;   *)
(* nobody has to type.  Only a handler takes from the stream and one of    *)
(* them always can, so this is fairness of Handle.                         *)
ServerFairness == WF_to_server(Take) /\ WF_serverVars(Deliver)

ServerSpec == ServerInit /\ [][ServerNext]_serverVars /\ ServerFairness

-----------------------------------------------------------------------------
(* The last publication about an open document, on its way or shown, has   *)
(* the version and the diagnostics of the text the store holds: neither    *)
(* the cache, which outlives edits, evictions and closing, nor the order   *)
(* of the publications lets an earlier text answer for this one.           *)
LastPublicationIsCurrent ==
    \A u \in Uri : docs[u].open =>
        LET current == Publication(u, docs[u].version, diagnose_document(docs[u].text))
        IN  \/ /\ shown[u] = current
               /\ \A k \in 1..Len(to_client) : to_client[k].uri # u
            \/ \E k \in 1..Len(to_client) :
                  /\ to_client[k] = current
                  /\ \A j \in (k + 1)..Len(to_client) : to_client[j].uri # u

(* Once everything sent has been handled and delivered, the server and its *)
(* query engine hold the text the editor holds, whatever ranges the edits  *)
(* were sent as, and on every line without a surrogate pair the editor     *)
(* marks exactly the faulty characters.                                    *)
SettledInSync ==
    to_server = <<>> /\ to_client = <<>> =>
        \A u \in Uri :
            /\ docs[u].open = edited[u].open
            /\ edited[u].open =>
                LET text == edited[u].text
                    plain == {n \in 0..Cardinality(Newlines(text)) :
                                Units(Line(text, n)) = Len(Line(text, n))}
                    marks == {[start |-> Caret(text, k - 1), end |-> Caret(text, k)] :
                                k \in {j \in DOMAIN text : text[j] \in Faulty}}
                IN  /\ docs[u].text = text /\ snapshots[u].text = text
                    /\ {d \in shown[u].diagnostics : d.start.line \in plain}
                            = {d \in marks : d.start.line \in plain}

(* Every version of a document is answered: diagnostics that carry it are  *)
(* shown unless the document is edited or closed again, also when its text *)
(* has been diagnosed before.                                              *)
EditsAreAnswered ==
    \A u \in Uri, v \in 1..(MaxChanges + 1) :
        edited[u].open /\ edited[u].version = v
            ~> shown[u].version = v \/ ~edited[u].open \/ edited[u].version # v
-----------------------------------------------------------------------------
(* The inductive invariant behind LastPublicationIsCurrent: what is cached *)
(* is what diagnosing the cached text would give.                          *)
Elements(s) == {s[k] : k \in 1..Len(s)}

CacheIsHonest ==
    /\ cache \in Seq(Elements(cache))
    /\ \A e \in Elements(cache) : e = CacheEntry(e.uri, e.content)

StreamsInv ==
    /\ to_server \in Seq(Elements(to_server)) /\ to_client \in Seq(Elements(to_client))
    /\ \A m \in Elements(to_server) \union Elements(to_client) : m.uri \in Uri

ServerInv ==
    /\ docs = [u \in Uri |-> docs[u]] /\ shown = [u \in Uri |-> shown[u]]
    /\ CacheIsHonest
    /\ StreamsInv
    /\ LastPublicationIsCurrent
=============================================================================
