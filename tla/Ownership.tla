----------------------------- MODULE Ownership -----------------------------
(***************************************************************************)
(* Who frees what: ParseFileToTree and its sisters of src/utility.cpp, the *)
(* LexerBuffer that holds the text (src/lexer.cpp) and the allocator that  *)
(* holds the nodes.  A tree points into both; a result carries them on     *)
(* after the parser and the builder are gone.  A client may also keep the  *)
(* parser: load or parse again, with a new builder for each text.  The     *)
(* list buffers of SimplifiedTreeBuilder are in SimplifiedTree.            *)
(***************************************************************************)
EXTENDS NodeAllocator

CONSTANTS Strings,     \* the client's own texts; it keeps them, and negative numbers name them
          MaxLoads,    \* bound on the texts loaded
          MaxBuilders  \* bound on the builders

ASSUME ClientsTexts == /\ \A s \in Strings : s \notin Nat
                       /\ MaxLoads \in Nat /\ MaxBuilders \in Nat

VARIABLES
  step,      \* where the calls on the parser are
  loads,     \* how many texts were loaded; it names the last one
  builders,  \* how many builders there were; it names the last one
  texts,     \* the texts that LoadFile has malloc'ed and nobody has freed
  arenas,    \* the blocks of nodes nobody has freed, as <<builder, block>>
  twice,     \* history: something was freed that was not malloc'ed or not any more
  lexer,     \* buf_ and allocator_ of the lexer, NULL when there is none
  ret,       \* the result that is being made
  results    \* the results the client holds

allocator == <<blocks, cur, cur_left, freed, nodes>>
counters  == <<loads, builders>>
heap      == <<texts, arenas, twice>>
allVars   == <<allocator, step, counters, heap, lexer, ret, results>>

Null == 0

NoBuffer == [buf |-> Null, sharable |-> FALSE]
NoLexer  == [buf |-> Null, allocator |-> NoBuffer]
NoResult == [text |-> Null, blocks |-> {}, lexer_buffer |-> NoBuffer, node_allocator |-> {}]

OwnInit == /\ Init /\ step = "none"
           /\ loads = 0 /\ builders = 0
           /\ texts = {} /\ arenas = {} /\ twice = FALSE
           /\ lexer = NoLexer /\ ret = NoResult /\ results = {}

Go(from, to) == step = from /\ step' = to

\* what LexerBuffer::Clear frees
Owned(buffer) == IF buffer.buf # Null /\ ~buffer.sharable THEN {buffer.buf} ELSE {}

Free(some) == /\ texts' = texts \ some
              /\ twice' = (twice \/ ~(some \subseteq texts))

\* the blocks of the builder's allocator
Blocks == {<<builders, k>> : k \in 1..blocks}

NewAllocator == blocks' = 0 /\ cur' = 0 /\ cur_left' = 0 /\ freed' = {} /\ nodes' = <<>>
-----------------------------------------------------------------------------
(* The lexer and its buffer.                                               *)

\* mutant: the buffer is freed and kept
UnloadKeepsBuffer == IF lexer.buf = Null THEN UNCHANGED <<lexer, texts, twice>>
                     ELSE lexer' = [lexer EXCEPT !.buf = Null] /\ Free(Owned(lexer.allocator))

Unload == IF lexer.buf = Null THEN UNCHANGED <<lexer, texts, twice>>
          ELSE lexer' = NoLexer /\ Free(Owned(lexer.allocator))

\* Load* begins with Unload
StartLoad == /\ step \in {"none", "loaded", "idle"} /\ step' = "unloaded"
             /\ loads < MaxLoads
             /\ Unload
             /\ UNCHANGED <<allocator, counters, arenas, ret, results>>

\* SetBuffer clears the LexerBuffer once more
SetBuffer(buffer) == lexer' = [buf |-> buffer.buf, allocator |-> buffer]

LoadFile == /\ Go("unloaded", "loaded")
            /\ loads' = loads + 1
            /\ SetBuffer([buf |-> loads', sharable |-> FALSE])
            /\ texts' = (texts \ Owned(lexer.allocator)) \cup {loads'}
            /\ twice' = (twice \/ ~(Owned(lexer.allocator) \subseteq texts))
            /\ UNCHANGED <<allocator, builders, arenas, ret, results>>

\* LoadString and LoadBuffer
LoadString == /\ Go("unloaded", "loaded")
              /\ loads' = loads + 1
              /\ \E s \in Strings : SetBuffer([buf |-> s, sharable |-> TRUE])
              /\ Free(Owned(lexer.allocator))
              /\ UNCHANGED <<allocator, builders, arenas, ret, results>>

\* after Parser::ResetCursor, unless the buffer was released
ParseAgain == /\ Go("idle", "loaded")
              /\ lexer.allocator.buf # Null
              /\ UNCHANGED <<allocator, counters, heap, lexer, ret, results>>

\* ~Lexer, and then ~LexerBuffer of its member
DestroyLexer == /\ Go("idle", "destroyed")
                /\ Unload
                /\ UNCHANGED <<allocator, counters, arenas, ret, results>>

DestroyBuffer == /\ Go("destroyed", "none")
                 /\ Free(Owned(lexer.allocator))
                 /\ lexer' = NoLexer
                 /\ UNCHANGED <<allocator, counters, arenas, ret, results>>
-----------------------------------------------------------------------------
(* DoParseToTree, with ParseAll cut into the nodes that are made.          *)

NewBuilder == /\ Go("loaded", "parsing")
              /\ builders < MaxBuilders
              /\ builders' = builders + 1
              /\ NewAllocator
              /\ UNCHANGED <<loads, heap, lexer, ret, results>>

CreateNode == /\ step = "parsing"
              /\ \E size \in Sizes : Alloc(size)
              /\ arenas' = arenas \cup {<<builders, k>> : k \in 1..blocks'}
              /\ UNCHANGED <<step, counters, texts, twice, lexer, ret, results>>

\* the tree of an accepted text has a node at least
Accepted == /\ Go("parsing", "accepted")
            /\ nodes # <<>>
            /\ ret' = [NoResult EXCEPT !.text = lexer.buf,
                         !.blocks = {<<builders, nodes[i].block>> : i \in 1..Len(nodes)}]
            /\ UNCHANGED <<allocator, counters, heap, lexer, results>>

Refused == /\ Go("parsing", "done")
           /\ UNCHANGED <<allocator, counters, heap, lexer, ret, results>>

\* mutant: the buffer stays with the lexer
ReleaseNothing == /\ Go("accepted", "released")
                  /\ UNCHANGED <<allocator, counters, heap, lexer, ret, results>>

\* buf_ stays as it is
ReleaseBuffer == /\ Go("accepted", "released")
                 /\ ret' = [ret EXCEPT !.lexer_buffer = lexer.allocator]
                 /\ lexer' = [lexer EXCEPT !.allocator = NoBuffer]
                 /\ UNCHANGED <<allocator, counters, heap, results>>

\* mutant: the builder's allocator is emptied, the result's stays empty
SwapLoses(r) == r

\* node_allocator after Swap
Swapped(r) == [r EXCEPT !.node_allocator = Blocks]

SwapNodes == /\ Go("released", "done")
             /\ results' = results \cup {Swapped(ret)}
             /\ ret' = NoResult
             /\ NewAllocator
             /\ UNCHANGED <<counters, heap, lexer>>

\* ~TreeBuilder: the allocator is cleared
DestroyBuilder == /\ Go("done", "idle")
                  /\ Clear
                  /\ arenas' = arenas \ Blocks
                  /\ twice' = (twice \/ ~(Blocks \subseteq arenas))
                  /\ UNCHANGED <<counters, texts, lexer, ret, results>>

\* the last copy of a result goes: the client drops one between its calls
Drop == /\ step \in {"none", "loaded", "idle"}
        /\ \E r \in results :
             /\ results' = results \ {r}
             /\ texts' = texts \ Owned(r.lexer_buffer)
             /\ arenas' = arenas \ r.node_allocator
             /\ twice' = (twice \/ ~(/\ Owned(r.lexer_buffer) \subseteq texts
                                     /\ r.node_allocator \subseteq arenas))
        /\ UNCHANGED <<allocator, step, counters, lexer, ret>>

OwnNext == \/ StartLoad \/ LoadFile \/ LoadString \/ ParseAgain
           \/ NewBuilder \/ CreateNode \/ Accepted \/ Refused
           \/ ReleaseBuffer \/ SwapNodes \/ DestroyBuilder
           \/ DestroyLexer \/ DestroyBuffer \/ Drop

OwnSpec == OwnInit /\ [][OwnNext]_allVars
-----------------------------------------------------------------------------
(* Properties.                                                             *)

\* The tree of every result a client holds points only to text and nodes that are
\* there, whatever became of the parser and the builder, whatever other texts were
\* loaded and which other results dropped; and so do the parser and the builder.
TreesReadable ==
  /\ \A r \in results : r.text \in texts \cup Strings /\ r.blocks \subseteq arenas
  /\ step = "parsing" => lexer.buf \in texts \cup Strings /\ Blocks \subseteq arenas

\* Nothing is freed twice, and of the texts only those that LoadFile has malloc'ed.
FreedOnce == ~twice

\* Each text and each block of nodes that is malloc'ed has an owner who will free it,
\* and only one of them: a result, the result being made, or the parser and the
\* builder.  The list buffers of SimplifiedTreeBuilder are in SimplifiedTree.
NothingLeaks ==
  LET holders == results \cup {ret, [NoResult EXCEPT !.lexer_buffer = lexer.allocator,
                                                     !.node_allocator = IF freed = {} THEN Blocks ELSE {}]}
  IN /\ \A t \in texts : \E h \in holders : t \in Owned(h.lexer_buffer)
     /\ \A b \in arenas : \E h \in holders : b \in h.node_allocator
     /\ \A g, h \in holders : g # h => /\ Owned(g.lexer_buffer) \cap Owned(h.lexer_buffer) = {}
                                       /\ g.node_allocator \cap h.node_allocator = {}
=============================================================================
