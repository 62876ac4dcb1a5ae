----------------------------- MODULE FrameStream -----------------------------
(***************************************************************************)
(* From doom's screen to the page that shows it: the Encoder of            *)
(* vim-mate/pkg/v2/encoder as examples/v2/doom/run sets it up, the message *)
(* it sends through the relay, and the page's decoder (js/app.js,          *)
(* js/decode/frame.js).                                                    *)
(*                                                                         *)
(* A frame is a sequence of Size values.  Every EncodingFrame is pushed    *)
(* every frame that differs from the one before, so their Curr is the      *)
(* Encoder's prev, and their Prev the prev before it.                      *)
(***************************************************************************)
EXTENDS Integers, Sequences, SequencesExt, FiniteSets, FiniteSetsExt, Functions, TLC, Bitwise

CONSTANTS Frames,     \* what doom draws
          Size,       \* values of a frame
          MaxRun,     \* the longest run that a byte counts (255)
          U16,        \* what two bytes can number (65536)
          MaxMissed,  \* bound: messages the relay drops
          HUFFMAN_ENCODE_LENGTH,  \* bytes of a node (6)
          ByteBits                \* bits of a byte (8)

VARIABLES
    prev,     \* the encoder's last frame, <<>> before the first
    crash,    \* an assertion has ended the driver
    wire,     \* the message on its way to the page, if any
    page,     \* whether the page is there: "away", "open" or, after an exception, "stopped"
    view,     \* the page's decodeFrame, <<>> before it has one
    missed,   \* messages dropped so far
    sure      \* history: what is in view does not rest on a frame that the page has not had

vars == <<prev, crash, wire, page, view, missed, sure>>

Nothing == [encoding |-> "", data |-> [runs |-> <<>>]]

(***************************************************************************)
(* Run-length encoding: AsciiRLE.Write with place, and ExpandRLE.          *)
(***************************************************************************)
Placed(runs, b) ==
    IF runs # <<>> /\ Last(runs)[2] = b /\ Last(runs)[1] < MaxRun
    THEN Append(Front(runs), <<Last(runs)[1] + 1, b>>)
    ELSE Append(runs, <<1, b>>)
\* What is counted is a byte.
Written(data) ==
    LET runs == FoldLeft(Placed, <<>>, data)
    IN [i \in DOMAIN runs |-> <<runs[i][1] % (MaxRun + 1), runs[i][2]>>]
Expanded(runs) == FlattenSeq([i \in DOMAIN runs |-> [n \in 1 .. runs[i][1] |-> runs[i][2]]])
Differing(a, b) == [i \in DOMAIN a |-> a[i] ^^ b[i]]

(***************************************************************************)
(* vim-mate/pkg/v2/huffman with the Frequency it starts from: a frame's    *)
(* values become codes, and a decoding tree goes with the bits.            *)
(*                                                                         *)
(* A node on the heap is [count, tree, codes]: what encodeTree writes for  *)
(* it, and the EncodingTable it makes, as if it were the root.  The tree   *)
(* is a sequence of [value, left, right]; left and right are byte offsets  *)
(* from the root, both zero at a leaf.                                     *)
(***************************************************************************)
Freq(data) == [v \in Range(data) |-> Cardinality({i \in DOMAIN data : data[i] = v})]

fromFreq(v, n) == [count |-> n, tree |-> <<[value |-> v, left |-> 0, right |-> 0]>>, codes |-> v :> <<>>]

isLeaf(node) == node.left = 0 /\ node.right = 0
Bytes(tree) == HUFFMAN_ENCODE_LENGTH * Len(tree)

\* A subtree that is written from an offset on.
At(tree, offset) ==
    [i \in DOMAIN tree |-> IF isLeaf(tree[i]) THEN tree[i]
                           ELSE [tree[i] EXCEPT !.left = @ + offset, !.right = @ + offset]]
Prefix(bit, codes) == [v \in DOMAIN codes |-> <<bit>> \o codes[v]]

joinUnmoved(a, b) == \* Seeded bug: the right subtree's offsets do not count the left one.
    [count |-> a.count + b.count,
     tree |-> <<[value |-> 0, left |-> HUFFMAN_ENCODE_LENGTH,
                 right |-> HUFFMAN_ENCODE_LENGTH + Bytes(a.tree)]>>
              \o At(a.tree, HUFFMAN_ENCODE_LENGTH) \o At(b.tree, HUFFMAN_ENCODE_LENGTH),
     codes |-> Prefix(0, a.codes) @@ Prefix(1, b.codes)]
join(a, b) ==
    LET right == HUFFMAN_ENCODE_LENGTH + Bytes(a.tree) IN
    [count |-> a.count + b.count,
     tree |-> <<[value |-> 0, left |-> HUFFMAN_ENCODE_LENGTH, right |-> right]>>
              \o At(a.tree, HUFFMAN_ENCODE_LENGTH) \o At(b.tree, right),
     codes |-> Prefix(0, a.codes) @@ Prefix(1, b.codes)]

\* heap.Pop: a node of the least count.  Which one of several does not change the sum of the
\* lengths of the codes.
PopAny(heap) == CHOOSE a \in heap : TRUE \* Seeded bug: the queue is not ordered.
Pop(heap) == CHOOSE a \in heap : \A b \in heap : a.count <= b.count

CalculateHuffman(freq) ==
    LET Step(heap) == LET a == Pop(heap)
                          b == Pop(heap \ {a})
                      IN (heap \ {a, b}) \cup {join(a, b)}
        leaves == {fromFreq(v, freq[v]) : v \in DOMAIN freq}
    IN Pop(FoldLeft(LAMBDA heap, n : Step(heap), leaves,
                    [n \in 1 .. Cardinality(leaves) - 1 |-> n]))

\* The bits of a frame.  What is written goes to an array of size bytes, which must not be
\* filled.
Bits(huff, data) == FlattenSeq([i \in DOMAIN data |-> huff.codes[data[i]]])
EncodeFails(bits, size) == Len(bits) >= ByteBits * size

\* The walk down the tree of as many bits as the frame says, which is one at least: without any
\* it does not end before the writer is full.
Node(tree, offset) == tree[offset \div HUFFMAN_ENCODE_LENGTH + 1]
jump(tree, offset, bit) == IF bit = 1 THEN Node(tree, offset).right ELSE Node(tree, offset).left
Decode(tree, bits) ==
    FoldLeft(LAMBDA walk, bit :
                 LET to == jump(tree, walk.at, bit) IN
                 IF isLeaf(Node(tree, to))
                 THEN [at |-> 0, out |-> Append(walk.out, Node(tree, to).value)]
                 ELSE [walk EXCEPT !.at = to],
             [at |-> 0, out |-> <<>>], bits).out

(***************************************************************************)
(* The encoders in the order in which main adds them: what each makes of   *)
(* data, and the Len that it reports.                                      *)
(***************************************************************************)
encodings == <<"NONE", "RLE", "XOR_RLE", "HUFFMAN">>
Huff(data) == CalculateHuffman(Freq(data))
HuffmanOf(data) ==
    LET huff == Huff(data) IN
    [encoding |-> "HUFFMAN",
     data |-> [tree |-> huff.tree, bits |-> Bits(huff, data),
               bitLen |-> Len(Bits(huff, data)) % U16]]
Encoded(e, data, last) ==
    CASE e = "NONE" -> [encoding |-> e, data |-> [cells |-> data]]
      [] e = "RLE" -> [encoding |-> e, data |-> [runs |-> Written(data)]]
      [] e = "XOR_RLE" -> [encoding |-> e, data |-> [runs |-> Written(Differing(data, last))]]
      [] e = "HUFFMAN" -> HuffmanOf(data)

EncodedLen(e, data, last) ==
    CASE e = "NONE" -> Size
      [] e = "RLE" -> 2 * Len(Written(data))
      [] e = "XOR_RLE" -> IF last = <<>> THEN Size + 1 ELSE 2 * Len(Written(Differing(data, last)))
      [] e = "HUFFMAN" ->
           LET huff == Huff(data)
               bits == Bits(huff, data)
           IN IF EncodeFails(bits, Size) THEN Size + 1
              ELSE Bytes(huff.tree) + Len(bits) \div ByteBits + 1

\* The first of those with the least length, if that is not more than the frame has.
Chosen(data, last) ==
    LET Better(best, e) ==
          LET n == EncodedLen(e, data, last) IN IF n < best.n THEN [e |-> e, n |-> n] ELSE best
    IN FoldLeft(Better, [e |-> "", n |-> Size + 1], encodings).e

Init ==
    /\ prev = <<>> /\ crash = FALSE /\ wire = Nothing
    /\ page = "away" /\ view = <<>>
    /\ missed = 0 /\ sure = FALSE

\* Doom draws, and the driver pushes the frame.  One that repeats the last one is not sent; one
\* that nothing makes shorter is sent as it is, and encodeInto has no entry for that.
PushFrame(data) ==
    /\ wire = Nothing /\ data # prev
    /\ prev' = data
    /\ LET e == Chosen(data, prev) IN
         IF e = "NONE" THEN crash' = TRUE /\ UNCHANGED <<wire, missed, sure>>
         ELSE /\ UNCHANGED crash
              /\ \/ /\ wire' = IF page = "open" THEN Encoded(e, data, prev) ELSE Nothing
                    /\ UNCHANGED <<missed, sure>>
                 \/ /\ missed < MaxMissed /\ page = "open"  \* the relay's queue is full
                    /\ missed' = missed + 1 /\ sure' = FALSE
                    /\ UNCHANGED wire
    /\ UNCHANGED <<page, view>>

\* Someone opens the page, or loads it again.
Join ==
    /\ page # "open" /\ wire = Nothing
    /\ page' = "open"
    /\ UNCHANGED <<prev, crash, wire, view, missed, sure>>

ExpandXORAgain == \* Seeded bug: the runs are taken for the cells themselves.
    /\ wire.encoding = "XOR_RLE"
    /\ view' = IF view = <<>> THEN view ELSE Expanded(wire.data.runs)
    /\ UNCHANGED <<page, sure>>
\* expand, by encoding.  An exception leaves render before it asks for the next frame: the page
\* shows nothing any more.
ExpandXOR ==
    /\ wire.encoding = "XOR_RLE"
    /\ view' = IF view = <<>> THEN view
               ELSE LET cells == Expanded(wire.data.runs) IN
                    [i \in DOMAIN cells |-> IF i \in DOMAIN view THEN cells[i] ^^ view[i]
                                            ELSE cells[i]]
    /\ UNCHANGED <<page, sure>>
ExpandHuffman ==
    /\ wire.encoding = "HUFFMAN" /\ wire.data.bitLen # 0
    /\ view' = Decode(wire.data.tree, SubSeq(wire.data.bits, 1, wire.data.bitLen))
    /\ sure' = (Len(wire.data.bits) < U16)
    /\ UNCHANGED page
\* Another encoding, or no bits at all.
Throw ==
    /\ \/ wire.encoding = "RLE"
       \/ wire.encoding = "HUFFMAN" /\ wire.data.bitLen = 0
    /\ page' = "stopped"
    /\ view' = <<>> /\ sure' = FALSE
Render ==
    /\ wire # Nothing /\ wire' = Nothing
    /\ (ExpandXOR \/ ExpandHuffman \/ Throw)
    /\ UNCHANGED <<prev, crash, missed>>

Next == ~crash /\ ((\E data \in Frames : PushFrame(data)) \/ Join \/ Render)

Spec == Init /\ [][Next]_vars
-----------------------------------------------------------------------------
Pictures == UNION {[1 .. n -> 0 .. 3] : n \in 0 .. Size}

\* Every variable stays in its type; what is on its way fits two bytes' numbers.
TypeOK ==
    /\ prev \in Frames \cup {<<>>} /\ view \in Pictures
    /\ crash \in BOOLEAN /\ sure \in BOOLEAN
    /\ page \in {"away", "open", "stopped"} /\ missed \in 0 .. MaxMissed
    /\ wire.encoding \in {"", "RLE", "XOR_RLE", "HUFFMAN"}
    /\ wire.encoding \in {"RLE", "XOR_RLE"} => \A r \in Range(wire.data.runs) : r[1] \in 1 .. MaxRun

\* The page shows what doom drew last, once it has decoded a Huffman frame, whichever encodings
\* follow: an xor frame says how a frame differs from the last one that was encoded, and the
\* page adds it to the last one that it decoded.  A message that the relay drops, and a frame
\* of more bits than two bytes can number, put the two apart until the next Huffman frame.
PageInStep == sure /\ wire = Nothing /\ ~crash => view = prev

\* A frame of several values is read back from the tree that goes with it, whatever values it
\* has and however often (CalculateHuffman, encodeTree, Encode and the page's decodeHuffman).
HuffmanReadsBack ==
    Cardinality(Range(prev)) > 1 => LET sent == Huff(prev) IN Decode(sent.tree, Bits(sent, prev)) = prev

\* No code could be shorter: with as many values as a frame of this size has, joining the two
\* rarest nodes spends the fewest bits that any assignment of codes without a common beginning
\* does (Kraft's inequality).
Spends(freq, lens) == FoldFunctionOnSet(+, 0, [v \in DOMAIN freq |-> freq[v] * lens[v]], DOMAIN freq)
Fits(lens) == FoldFunctionOnSet(+, 0, [v \in DOMAIN lens |-> 2 ^ (4 - lens[v])], DOMAIN lens) <= 2 ^ 4
HuffmanIsShortest ==
    Cardinality(Range(prev)) > 1 =>
        LET freq == Freq(prev) IN
        \A lens \in [DOMAIN freq -> 1 .. 4] :
            Fits(lens) => Len(Bits(Huff(prev), prev)) <= Spends(freq, lens)
=============================================================================
